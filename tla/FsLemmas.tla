------------------------------ MODULE FsLemmas ------------------------------
(***************************************************************************)
(* What the proofs about the file systems have in common: paths, listings, *)
(* requests and trees.                                                     *)
(***************************************************************************)
EXTENDS FsCalls, SequenceTheorems, WellFoundedInduction, TLAPS

-----------------------------------------------------------------------------
(* Paths.                                                                  *)

LEMMA NatIsWellFounded == IsWellFoundedOn({ss \in Nat \X Nat : ss[1] < ss[2]}, Nat)
  BY NatLessThanWellFounded DEF OpToRel

LEMMA Smallest ==
  ASSUME NEW T, T \subseteq Nat, T # {}
  PROVE  \E x \in T : \A y \in T : x <= y
<1> DEFINE R == {ss \in Nat \X Nat : ss[1] < ss[2]}
<1>1. IsWellFoundedOn(R, Nat)
  BY NatIsWellFounded
<1>2. \A x, y \in Nat : <<y, x>> \in R <=> y < x
  OBVIOUS
<1> HIDE DEF R
<1>3. PICK x \in T : \A y \in T : ~(<<y, x>> \in R)
  BY <1>1, WFMin
<1>4. x \in Nat /\ \A y \in T : y \in Nat /\ ~(y < x)
  BY <1>2, <1>3
<1> QED
  BY <1>4

\* A path is below another if it agrees with it on all its names.
LEMMA UnderIs ==
  ASSUME NEW S, NEW p \in Seq(S), NEW d \in Seq(S)
  PROVE  Under(p, d) <=> Len(d) <= Len(p) /\ \A i \in 1 .. Len(d) : d[i] = p[i]
<1>1. Len(d) \in Nat /\ Len(p) \in Nat
  BY LenProperties
<1>2. CASE Len(d) <= Len(p)
  <2>1. \A i \in 1 .. Len(d) : p[i] \in S /\ d[i] \in S
    BY <1>1, <1>2, ElementOfSeq
  <2>2. /\ SubSeq(d, 1, Len(d)) \in Seq(S) /\ SubSeq(p, 1, Len(d)) \in Seq(S)
        /\ Len(SubSeq(d, 1, Len(d))) = Len(d) /\ Len(SubSeq(p, 1, Len(d))) = Len(d)
        /\ \A i \in 1 .. Len(d) : SubSeq(d, 1, Len(d))[i] = d[i] /\ SubSeq(p, 1, Len(d))[i] = p[i]
    BY <1>1, <1>2, <2>1
  <2>3. SubSeq(d, 1, Len(d)) = SubSeq(p, 1, Len(d)) <=> \A i \in 1 .. Len(d) : d[i] = p[i]
    BY <2>2, SeqEqual
  <2> QED  BY <1>2, <2>3 DEF Under, IsPrefix
<1> QED
  BY <1>1, <1>2 DEF Under, IsPrefix

LEMMA AncestorIs ==
  ASSUME NEW S, NEW p \in Seq(S), NEW d
  PROVE  d \in Ancestors(p) <=> /\ d \in Seq(S)
                                /\ Len(d) \in 1 .. Len(p) - 1
                                /\ \A i \in 1 .. Len(d) : d[i] = p[i]
<1>1. Len(p) \in Nat
  BY LenProperties
<1>2. ASSUME NEW n \in 1 .. Len(p) - 1
      PROVE  /\ SubSeq(p, 1, n) \in Seq(S) /\ Len(SubSeq(p, 1, n)) = n
             /\ \A i \in 1 .. n : SubSeq(p, 1, n)[i] = p[i]
  <2>1. \A i \in 1 .. n : p[i] \in S
    BY <1>1, ElementOfSeq
  <2> QED  BY <1>1, <2>1
<1>3. d \in Ancestors(p) => /\ d \in Seq(S)
                            /\ Len(d) \in 1 .. Len(p) - 1
                            /\ \A i \in 1 .. Len(d) : d[i] = p[i]
  BY <1>2 DEF Ancestors
<1>4. ASSUME d \in Seq(S), Len(d) \in 1 .. Len(p) - 1, \A i \in 1 .. Len(d) : d[i] = p[i]
      PROVE  d \in Ancestors(p)
  <2>1. d = SubSeq(p, 1, Len(d))
    BY <1>2, <1>4, SeqEqual
  <2> QED  BY <1>4, <2>1 DEF Ancestors
<1> QED
  BY <1>3, <1>4


LEMMA UnderSelf ==
  ASSUME NEW S, NEW p \in Seq(S)
  PROVE  Under(p, p)
BY UnderIs, LenProperties

LEMMA ChildIs ==
  ASSUME NEW S, NEW p \in Seq(S), NEW k \in S
  PROVE  /\ Child(p, k) \in Seq(S)
         /\ Child(p, k) # Root
         /\ Len(Child(p, k)) = Len(p) + 1
         /\ \A i \in 1 .. Len(p) : Child(p, k)[i] = p[i]
<1>1. /\ Append(p, k) \in Seq(S) /\ Len(Append(p, k)) = Len(p) + 1
      /\ \A i \in 1 .. Len(p) : Append(p, k)[i] = p[i]
  BY AppendProperties
<1>2. Append(p, k) # <<>>
  BY <1>1, LenProperties
<1> QED
  BY <1>1, <1>2 DEF Child, Root

LEMMA ChildUnder ==
  ASSUME NEW S, NEW p \in Seq(S), NEW d \in Seq(S), NEW k \in S, Under(p, d)
  PROVE  Under(Child(p, k), d)
<1>1. Len(d) \in Nat /\ Len(p) \in Nat
  BY LenProperties
<1>2. Len(d) <= Len(p) /\ \A i \in 1 .. Len(d) : d[i] = p[i]
  BY UnderIs
<1>3. /\ Child(p, k) \in Seq(S) /\ Len(Child(p, k)) = Len(p) + 1
      /\ \A i \in 1 .. Len(p) : Child(p, k)[i] = p[i]
  BY ChildIs
<1>4. Len(d) <= Len(Child(p, k)) /\ \A i \in 1 .. Len(d) : d[i] = Child(p, k)[i]
  BY <1>1, <1>2, <1>3
<1> QED
  BY <1>3, <1>4, UnderIs

\* The parent of a path that is not directly below the root.
LEMMA ParentIs ==
  ASSUME NEW S, NEW p \in Seq(S), Parent(p) # Root
  PROVE  /\ Parent(p) \in Seq(S) /\ Len(Parent(p)) \in 1 .. Len(p) - 1
         /\ \A i \in 1 .. Len(Parent(p)) : Parent(p)[i] = p[i]
<1>1. Len(p) \in Nat
  BY LenProperties
<1>2. CASE Len(p) <= 1
  <2>1. SubSeq(p, 1, Len(p) - 1) = <<>>
    BY <1>1, <1>2, SubSeqEmpty
  <2> QED  BY <2>1 DEF Parent, Front, Root
<1>3. CASE Len(p) > 1
  <2>1. Len(p) - 1 \in 1 .. Len(p) - 1 /\ \A i \in 1 .. Len(p) - 1 : p[i] \in S
    BY <1>1, <1>3, ElementOfSeq
  <2>2. Parent(p) \in Ancestors(p)
    BY <2>1 DEF Parent, Front, Ancestors
  <2> QED  BY <2>2, AncestorIs
<1> QED
  BY <1>1, <1>2, <1>3

\* What lies at or above d reaches down to d: the ancestors of a path below
\* d are below d or above it.
LEMMA AncestorsUnder ==
  ASSUME NEW S, NEW p \in Seq(S), NEW d \in Seq(S), Under(p, d), NEW a \in Ancestors(p)
  PROVE  Under(a, d) \/ a \in Ancestors(d)
<1>1. Len(d) \in Nat /\ Len(p) \in Nat
  BY LenProperties
<1>2. Len(d) <= Len(p) /\ \A i \in 1 .. Len(d) : d[i] = p[i]
  BY UnderIs
<1>3. a \in Seq(S) /\ Len(a) \in 1 .. Len(p) - 1 /\ \A i \in 1 .. Len(a) : a[i] = p[i]
  BY AncestorIs
<1>4. CASE Len(d) <= Len(a)
  <2>1. \A i \in 1 .. Len(d) : d[i] = a[i]
    BY <1>1, <1>2, <1>3, <1>4
  <2> QED  BY <1>3, <1>4, <2>1, UnderIs
<1>5. CASE Len(a) < Len(d)
  <2>1. Len(a) \in 1 .. Len(d) - 1 /\ \A i \in 1 .. Len(a) : a[i] = d[i]
    BY <1>1, <1>2, <1>3, <1>5
  <2> QED  BY <1>3, <2>1, AncestorIs
<1> QED
  BY <1>1, <1>3, <1>4, <1>5

LEMMA AncestorsAbove ==
  ASSUME NEW S, NEW p \in Seq(S), NEW d \in Ancestors(p), NEW a \in Ancestors(d)
  PROVE  a \in Ancestors(p)
<1>1. d \in Seq(S) /\ Len(d) \in 1 .. Len(p) - 1 /\ \A i \in 1 .. Len(d) : d[i] = p[i]
  BY AncestorIs
<1>2. a \in Seq(S) /\ Len(a) \in 1 .. Len(d) - 1 /\ \A i \in 1 .. Len(a) : a[i] = d[i]
  BY <1>1, AncestorIs
<1>3. Len(a) \in 1 .. Len(p) - 1 /\ \A i \in 1 .. Len(a) : a[i] = p[i]
  BY <1>1, <1>2, LenProperties
<1> QED
  BY <1>2, <1>3, AncestorIs

LEMMA ParentAbove ==
  ASSUME NEW S, NEW p \in Seq(S), Parent(p) # Root
  PROVE  Parent(p) \in Seq(S) /\ Parent(p) \in Ancestors(p)
BY ParentIs, AncestorIs

-----------------------------------------------------------------------------
(* Paths inside paths.                                                     *)

LEMMA UnderTrans ==
  ASSUME NEW S, NEW p \in Seq(S), NEW d \in Seq(S), NEW e \in Seq(S), Under(p, d), Under(d, e)
  PROVE  Under(p, e)
<1>1. Len(p) \in Nat /\ Len(d) \in Nat /\ Len(e) \in Nat
  BY LenProperties
<1>2. Len(d) <= Len(p) /\ \A i \in 1 .. Len(d) : d[i] = p[i]
  BY UnderIs
<1>3. Len(e) <= Len(d) /\ \A i \in 1 .. Len(e) : e[i] = d[i]
  BY UnderIs
<1>4. Len(e) <= Len(p) /\ \A i \in 1 .. Len(e) : e[i] = p[i]
  BY <1>1, <1>2, <1>3
<1> QED
  BY <1>4, UnderIs

\* What contains a child contains its directory or lies in it.
LEMMA ChildBetween ==
  ASSUME NEW S, NEW p \in Seq(S), NEW k \in S, NEW d \in Seq(S), Under(Child(p, k), d)
  PROVE  Under(p, d) \/ Under(d, p)
<1>1. Len(p) \in Nat /\ Len(d) \in Nat
  BY LenProperties
<1>2. /\ Child(p, k) \in Seq(S) /\ Len(Child(p, k)) = Len(p) + 1
      /\ \A i \in 1 .. Len(p) : Child(p, k)[i] = p[i]
  BY ChildIs
<1>3. Len(d) <= Len(p) + 1 /\ \A i \in 1 .. Len(d) : d[i] = Child(p, k)[i]
  BY <1>2, UnderIs
<1>4. CASE Len(d) <= Len(p)
  <2>1. \A i \in 1 .. Len(d) : d[i] = p[i]
    BY <1>1, <1>2, <1>3, <1>4
  <2> QED  BY <1>4, <2>1, UnderIs
<1>5. CASE Len(p) < Len(d)
  <2>1. Len(p) <= Len(d) /\ \A i \in 1 .. Len(p) : p[i] = d[i]
    BY <1>1, <1>2, <1>3, <1>5
  <2> QED  BY <2>1, UnderIs
<1> QED
  BY <1>1, <1>4, <1>5

LEMMA ChildIn ==
  ASSUME NEW S, NEW p \in Seq(S), NEW k \in S
  PROVE  Under(Child(p, k), p)
BY UnderSelf, ChildUnder

\* What is strictly below d, and d is not the root: d is an ancestor of it.
LEMMA BelowAncestor ==
  ASSUME NEW S, NEW p \in Seq(S), NEW d \in Seq(S), d # Root, Below(p, d)
  PROVE  d \in Ancestors(p)
<1>1. Len(p) \in Nat /\ Len(d) \in Nat
  BY LenProperties
<1>2. Under(p, d) /\ p # d
  BY DEF Below, Under, IsStrictPrefix
<1>3. Len(d) <= Len(p) /\ \A i \in 1 .. Len(d) : d[i] = p[i]
  BY <1>2, UnderIs
<1>4. Len(d) # Len(p)
  BY <1>2, <1>3, SeqEqual
<1>5. Len(d) # 0
  BY EmptySeq DEF Root
<1>6. Len(d) \in 1 .. Len(p) - 1
  BY <1>1, <1>3, <1>4, <1>5
<1> QED
  BY <1>3, <1>6, AncestorIs

\* An ancestor of a path contains it.
LEMMA AncestorContains ==
  ASSUME NEW S, NEW p \in Seq(S), NEW a \in Ancestors(p)
  PROVE  a \in Seq(S) /\ Under(p, a) /\ a # Root
<1>1. a \in Seq(S) /\ Len(a) \in 1 .. Len(p) - 1 /\ \A i \in 1 .. Len(a) : a[i] = p[i]
  BY AncestorIs
<1>2. Len(a) \in Nat /\ Len(p) \in Nat /\ Len(a) <= Len(p) /\ Len(a) # 0
  BY <1>1, LenProperties
<1>3. a # Root
  BY <1>2 DEF Root
<1> QED
  BY <1>1, <1>2, <1>3, UnderIs

LEMMA JoinIs ==
  ASSUME NEW S, NEW h \in Seq(S), NEW p \in Seq(S)
  PROVE  /\ h \o p \in Seq(S) /\ Len(h \o p) = Len(h) + Len(p)
         /\ \A i \in 1 .. Len(h) : (h \o p)[i] = h[i]
         /\ \A i \in 1 .. Len(p) : (h \o p)[Len(h) + i] = p[i]
         /\ Len(h) \in Nat /\ Len(p) \in Nat
<1>1. Len(h) \in Nat /\ Len(p) \in Nat
  BY LenProperties
<1>2. /\ h \o p \in Seq(S) /\ Len(h \o p) = Len(h) + Len(p)
      /\ \A i \in 1 .. Len(h) + Len(p) :
           (h \o p)[i] = IF i <= Len(h) THEN h[i] ELSE p[i - Len(h)]
  BY ConcatProperties
<1>3. \A i \in 1 .. Len(h) : (h \o p)[i] = h[i]
  BY <1>1, <1>2
<1>4. ASSUME NEW i \in 1 .. Len(p) PROVE (h \o p)[Len(h) + i] = p[i]
  <2>1. Len(h) + i \in 1 .. Len(h) + Len(p) /\ ~(Len(h) + i <= Len(h)) /\ Len(h) + i - Len(h) = i
    BY <1>1
  <2> QED  BY <1>2, <2>1
<1> QED
  BY <1>1, <1>2, <1>3, <1>4

LEMMA JoinRoot ==
  ASSUME NEW S, NEW p \in Seq(S)
  PROVE  Root \o p = p /\ p \o Root = p /\ Root \in Seq(S)
BY ConcatEmptySeq, EmptySeq DEF Root

\* An element of the longer path is one of the prefix or one of the rest.
LEMMA JoinAgrees ==
  ASSUME NEW S, NEW h \in Seq(S), NEW p \in Seq(S), NEW a \in Seq(S), Len(a) <= Len(p),
         \A i \in 1 .. Len(a) : a[i] = p[i]
  PROVE  /\ Len(h \o a) <= Len(h \o p)
         /\ \A i \in 1 .. Len(h \o a) : (h \o a)[i] = (h \o p)[i]
<1>1. /\ h \o a \in Seq(S) /\ Len(h \o a) = Len(h) + Len(a)
      /\ \A i \in 1 .. Len(h) + Len(a) :
           (h \o a)[i] = IF i <= Len(h) THEN h[i] ELSE a[i - Len(h)]
  BY ConcatProperties
<1>2. /\ h \o p \in Seq(S) /\ Len(h \o p) = Len(h) + Len(p)
      /\ \A i \in 1 .. Len(h) + Len(p) :
           (h \o p)[i] = IF i <= Len(h) THEN h[i] ELSE p[i - Len(h)]
  BY ConcatProperties
<1>3. Len(h) \in Nat /\ Len(a) \in Nat /\ Len(p) \in Nat
  BY LenProperties
<1>4. ASSUME NEW i \in 1 .. Len(h) + Len(a) PROVE (h \o a)[i] = (h \o p)[i]
  <2>1. i \in 1 .. Len(h) + Len(p) /\ (i <= Len(h) \/ i - Len(h) \in 1 .. Len(a))
    BY <1>3
  <2> QED  BY <1>1, <1>2, <2>1
<1> QED
  BY <1>1, <1>2, <1>3, <1>4

LEMMA UnderJoin ==
  ASSUME NEW S, NEW h \in Seq(S), NEW p \in Seq(S), NEW d \in Seq(S), Under(p, d)
  PROVE  Under(h \o p, h \o d)
<1>1. Len(d) <= Len(p) /\ \A i \in 1 .. Len(d) : d[i] = p[i]
  BY UnderIs
<1>2. h \o p \in Seq(S) /\ h \o d \in Seq(S)
  BY JoinIs
<1>3. /\ Len(h \o d) <= Len(h \o p)
      /\ \A i \in 1 .. Len(h \o d) : (h \o d)[i] = (h \o p)[i]
  BY <1>1, JoinAgrees
<1> QED
  BY <1>2, <1>3, UnderIs

LEMMA AncestorsJoin ==
  ASSUME NEW S, NEW h \in Seq(S), NEW p \in Seq(S), NEW a \in Ancestors(p)
  PROVE  h \o a \in Ancestors(h \o p)
<1>1. a \in Seq(S) /\ Len(a) \in 1 .. Len(p) - 1 /\ \A i \in 1 .. Len(a) : a[i] = p[i]
  BY AncestorIs
<1>2. Len(h) \in Nat /\ Len(a) \in Nat /\ Len(p) \in Nat /\ Len(a) <= Len(p)
  BY <1>1, LenProperties
<1>3. h \o p \in Seq(S) /\ h \o a \in Seq(S)
      /\ Len(h \o p) = Len(h) + Len(p) /\ Len(h \o a) = Len(h) + Len(a)
  BY <1>1, JoinIs
<1>4. \A i \in 1 .. Len(h \o a) : (h \o a)[i] = (h \o p)[i]
  BY <1>1, <1>2, JoinAgrees
<1>5. Len(h \o a) \in 1 .. Len(h \o p) - 1
  BY <1>1, <1>2, <1>3
<1> QED
  BY <1>3, <1>4, <1>5, AncestorIs

LEMMA ChildJoin ==
  ASSUME NEW S, NEW h \in Seq(S), NEW p \in Seq(S), NEW k \in S
  PROVE  h \o Child(p, k) = Child(h \o p, k)
<1>1. <<k>> \in Seq(S)
  OBVIOUS
<1>2. Child(p, k) = p \o <<k>> /\ h \o p \in Seq(S)
  BY AppendIsConcat, JoinIs DEF Child
<1>3. Child(h \o p, k) = (h \o p) \o <<k>>
  BY <1>2, AppendIsConcat DEF Child
<1> QED
  BY <1>1, <1>2, <1>3, ConcatAssociative

\* A path below h is h and what is left of the path.
LEMMA SplitIs ==
  ASSUME NEW S, NEW p \in Seq(S), NEW h \in Seq(S), Under(p, h)
  PROVE  Moved(p, h, Root) \in Seq(S) /\ h \o Moved(p, h, Root) = p
<1> DEFINE t == SubSeq(p, Len(h) + 1, Len(p))
<1>1. Len(p) \in Nat /\ Len(h) \in Nat
  BY LenProperties
<1>2. Len(h) <= Len(p) /\ \A i \in 1 .. Len(h) : h[i] = p[i]
  BY UnderIs
<1>3. \A i \in Len(h) + 1 .. Len(p) : p[i] \in S
  BY <1>1, ElementOfSeq
<1>4. /\ t \in Seq(S) /\ Len(t) = Len(p) - Len(h)
      /\ \A i \in 1 .. Len(p) - Len(h) : t[i] = p[Len(h) + i]
  BY <1>1, <1>2, <1>3
<1>5. Moved(p, h, Root) = t
  <2> HIDE DEF t
  <2>1. Root \o t = t
    BY <1>4, JoinRoot
  <2> QED  BY <2>1 DEF Moved, t
<1> HIDE DEF t
<1>6. /\ h \o t \in Seq(S) /\ Len(h \o t) = Len(h) + Len(t)
      /\ \A i \in 1 .. Len(h) + Len(t) :
           (h \o t)[i] = IF i <= Len(h) THEN h[i] ELSE t[i - Len(h)]
  BY <1>4, ConcatProperties
<1>7. Len(h \o t) = Len(p)
  BY <1>1, <1>2, <1>4, <1>6
<1>8. ASSUME NEW i \in 1 .. Len(p) PROVE (h \o t)[i] = p[i]
  <2>1. CASE i <= Len(h)
    BY <1>1, <1>2, <1>4, <1>6, <2>1
  <2>2. CASE ~(i <= Len(h))
    <3>1. i - Len(h) \in 1 .. Len(p) - Len(h) /\ Len(h) + (i - Len(h)) = i
          /\ i \in 1 .. Len(h) + Len(t)
      BY <1>1, <1>2, <1>4, <2>2
    <3> QED  BY <1>4, <1>6, <2>2, <3>1
  <2> QED  BY <2>1, <2>2
<1>9. h \o t = p
  BY <1>6, <1>7, <1>8, SeqEqual
<1> QED
  BY <1>4, <1>5, <1>9

-----------------------------------------------------------------------------
(* Children and ancestors.                                                 *)

\* What is above a path is its parent or above that.
LEMMA AboveParent ==
  ASSUME NEW S, NEW p \in Seq(S), NEW a \in Ancestors(p)
  PROVE  Parent(p) # Root /\ (a = Parent(p) \/ a \in Ancestors(Parent(p)))
<1>1. a \in Seq(S) /\ Len(a) \in 1 .. Len(p) - 1 /\ \A i \in 1 .. Len(a) : a[i] = p[i]
  BY AncestorIs
<1>2. Len(p) \in Nat /\ Len(a) \in Nat /\ Len(p) > 1
  BY <1>1, LenProperties
<1>3. /\ Parent(p) \in Seq(S) /\ Len(Parent(p)) = Len(p) - 1
      /\ \A i \in 1 .. Len(p) - 1 : Parent(p)[i] = p[i]
  <2>1. \A i \in 1 .. Len(p) - 1 : p[i] \in S
    BY <1>2, ElementOfSeq
  <2> QED  BY <1>2, <2>1, SubSeqProperties DEF Parent, Front
<1>4. Parent(p) # Root
  BY <1>2, <1>3, EmptySeq DEF Root
<1>5. CASE Len(a) = Len(p) - 1
  <2>1. a = Parent(p)
    BY <1>1, <1>3, <1>5, SeqEqual
  <2> QED  BY <1>4, <2>1
<1>6. CASE Len(a) # Len(p) - 1
  <2>1. Len(a) \in 1 .. Len(Parent(p)) - 1 /\ \A i \in 1 .. Len(a) : a[i] = Parent(p)[i]
    BY <1>1, <1>2, <1>3, <1>6
  <2>2. a \in Ancestors(Parent(p))
    BY <1>1, <1>3, <2>1, AncestorIs
  <2> QED  BY <1>4, <2>2
<1> QED
  BY <1>5, <1>6

\* What is above a child is the path itself or above it.
LEMMA AboveChild ==
  ASSUME NEW S, NEW p \in Seq(S), NEW k \in S, NEW a \in Ancestors(Child(p, k))
  PROVE  a = p \/ a \in Ancestors(p)
<1>1. /\ Child(p, k) \in Seq(S) /\ Len(Child(p, k)) = Len(p) + 1
      /\ \A i \in 1 .. Len(p) : Child(p, k)[i] = p[i]
  BY ChildIs
<1>2. a \in Seq(S) /\ Len(a) \in 1 .. Len(p) /\ \A i \in 1 .. Len(a) : a[i] = p[i]
  <2>1. Len(p) \in Nat
    BY LenProperties
  <2>2. /\ a \in Seq(S) /\ Len(a) \in 1 .. Len(Child(p, k)) - 1
        /\ \A i \in 1 .. Len(a) : a[i] = Child(p, k)[i]
    BY <1>1, AncestorIs
  <2> QED  BY <1>1, <2>1, <2>2
<1>3. Len(p) \in Nat /\ Len(a) \in Nat
  BY <1>2, LenProperties
<1>4. CASE Len(a) = Len(p)
  BY <1>2, <1>4, SeqEqual
<1>5. CASE Len(a) # Len(p)
  <2>1. Len(a) \in 1 .. Len(p) - 1
    BY <1>2, <1>3, <1>5
  <2> QED  BY <1>2, <2>1, AncestorIs
<1> QED
  BY <1>4, <1>5

\* Children differ in their names.
LEMMA ChildrenDiffer ==
  ASSUME NEW S, NEW p \in Seq(S), NEW k \in S, NEW m \in S, Child(p, k) = Child(p, m)
  PROVE  k = m
<1>1. Append(p, k)[Len(p) + 1] = k /\ Append(p, m)[Len(p) + 1] = m
  BY AppendProperties
<1> QED
  BY <1>1 DEF Child

\* The way from p down to a path below it starts at a child of p.
LEMMA BelowChild ==
  ASSUME NEW S, NEW p \in Seq(S), NEW x \in Seq(S), Below(x, p)
  PROVE  \E k \in S : x = Child(p, k) \/ Child(p, k) \in Ancestors(x)
<1>1. Len(x) \in Nat /\ Len(p) \in Nat
  BY LenProperties
<1>2. Under(x, p) /\ x # p
  BY DEF Below, Under, IsStrictPrefix
<1>3. Len(p) <= Len(x) /\ \A i \in 1 .. Len(p) : p[i] = x[i]
  BY <1>2, UnderIs
<1>4. Len(p) < Len(x)
  <2>1. Len(p) = Len(x) => p = x
    BY <1>3, SeqEqual
  <2> QED  BY <1>1, <1>2, <1>3, <2>1
<1> DEFINE k == x[Len(p) + 1]
<1>5. k \in S
  BY <1>1, <1>4, ElementOfSeq
<1> HIDE DEF k
<1>6. /\ Child(p, k) \in Seq(S) /\ Len(Child(p, k)) = Len(p) + 1
      /\ \A i \in 1 .. Len(p) : Child(p, k)[i] = p[i]
      /\ Child(p, k)[Len(p) + 1] = k
  <2>1. Append(p, k)[Len(p) + 1] = k
    BY <1>5, AppendProperties
  <2> QED  BY <1>5, <2>1, ChildIs DEF Child
<1>7. \A i \in 1 .. Len(p) + 1 : Child(p, k)[i] = x[i]
  BY <1>1, <1>3, <1>6 DEF k
<1>8. CASE Len(x) = Len(p) + 1
  <2>1. x = Child(p, k)
    BY <1>6, <1>7, <1>8, SeqEqual
  <2> QED  BY <1>5, <2>1
<1>9. CASE Len(x) # Len(p) + 1
  <2>1. Len(Child(p, k)) \in 1 .. Len(x) - 1
    BY <1>1, <1>4, <1>6, <1>9
  <2>2. Child(p, k) \in Ancestors(x)
    BY <1>6, <1>7, <2>1, AncestorIs
  <2> QED  BY <1>5, <2>2
<1> QED
  BY <1>8, <1>9

\* Of two paths above a third, one is under the other.
LEMMA AboveBoth ==
  ASSUME NEW S, NEW x \in Seq(S), NEW p \in Seq(S), NEW q \in Seq(S),
         Under(x, p), Under(x, q)
  PROVE  Under(p, q) \/ Under(q, p)
<1>1. Len(x) \in Nat /\ Len(p) \in Nat /\ Len(q) \in Nat
  BY LenProperties
<1>2. /\ Len(p) <= Len(x) /\ \A i \in 1 .. Len(p) : p[i] = x[i]
      /\ Len(q) <= Len(x) /\ \A i \in 1 .. Len(q) : q[i] = x[i]
  BY UnderIs
<1>3. CASE Len(p) <= Len(q)
  <2>1. \A i \in 1 .. Len(p) : p[i] = q[i]
    BY <1>1, <1>2, <1>3
  <2> QED  BY <1>3, <2>1, UnderIs
<1>4. CASE ~(Len(p) <= Len(q))
  <2>1. Len(q) <= Len(p) /\ \A i \in 1 .. Len(q) : q[i] = p[i]
    BY <1>1, <1>2, <1>4
  <2> QED  BY <2>1, UnderIs
<1> QED
  BY <1>3, <1>4

-----------------------------------------------------------------------------
(* Paths moved from below d to below e.                                    *)

\* What follows d in a path is what follows e in the path moved.
LEMMA MovedJoin ==
  ASSUME NEW S, NEW d \in Seq(S), NEW e \in Seq(S), NEW t \in Seq(S)
  PROVE  Moved(d \o t, d, e) = e \o t
<1> DEFINE x == d \o t
           u == SubSeq(x, Len(d) + 1, Len(x))
<1>1. /\ x \in Seq(S) /\ Len(x) = Len(d) + Len(t)
      /\ \A i \in 1 .. Len(t) : x[Len(d) + i] = t[i]
      /\ Len(d) \in Nat /\ Len(t) \in Nat
  BY JoinIs
<1>2. \A i \in Len(d) + 1 .. Len(x) : x[i] \in S
  <2> HIDE DEF x
  <2> QED  BY <1>1, ElementOfSeq
<1>3. /\ u \in Seq(S) /\ Len(u) = Len(t)
      /\ \A i \in 1 .. Len(t) : u[i] = x[Len(d) + i]
  <2>1. CASE Len(t) = 0
    <3>1. u = <<>>
      <4> HIDE DEF x
      <4> QED  BY <1>1, <2>1, SubSeqProperties
    <3>2. t = <<>>
      BY <2>1, EmptySeq
    <3> QED  BY <1>1, <2>1, <3>1, <3>2
  <2>2. CASE Len(t) # 0
    <3> HIDE DEF x
    <3>1. Len(d) + 1 <= Len(x)
      BY <1>1, <2>2
    <3>2. u \in Seq(S) /\ Len(u) = Len(x) - (Len(d) + 1) + 1
          /\ \A i \in 1 .. Len(x) - (Len(d) + 1) + 1 : u[i] = x[(Len(d) + 1) + i - 1]
      BY <1>1, <1>2, <3>1, SubSeqProperties
    <3> HIDE DEF u
    <3> QED  BY <1>1, <3>2
  <2> QED  BY <2>1, <2>2
<1>4. u = t
  <2> HIDE DEF x, u
  <2> QED  BY <1>1, <1>3, SeqEqual
<1> QED
  BY <1>4 DEF Moved

\* What follows d in a path under it follows e in the path moved.
LEMMA MovedIs ==
  ASSUME NEW S, NEW d \in Seq(S), NEW e \in Seq(S), NEW x \in Seq(S), Under(x, d)
  PROVE  /\ Moved(x, d, Root) \in Seq(S) /\ d \o Moved(x, d, Root) = x
         /\ Moved(x, d, e) = e \o Moved(x, d, Root)
<1> DEFINE t == Moved(x, d, Root)
<1>1. t \in Seq(S) /\ d \o t = x
  BY SplitIs
<1>2. \A u \in Seq(S) : Moved(d \o u, d, e) = e \o u
  BY MovedJoin
<1>3. Moved(d \o t, d, e) = e \o t
  <2> HIDE DEF t
  <2> QED  BY <1>1, <1>2
<1> QED
  BY <1>1, <1>3

LEMMA MovedUnder ==
  ASSUME NEW S, NEW d \in Seq(S), NEW e \in Seq(S), NEW x \in Seq(S), Under(x, d)
  PROVE  Moved(x, d, e) \in Seq(S) /\ Under(Moved(x, d, e), e)
<1> DEFINE t == Moved(x, d, Root)
<1>1. t \in Seq(S) /\ Moved(x, d, e) = e \o t
  BY MovedIs
<1> HIDE DEF t
<1>2. e \o t \in Seq(S) /\ Len(e) <= Len(e \o t) /\ \A i \in 1 .. Len(e) : (e \o t)[i] = e[i]
  BY <1>1, JoinIs
<1>3. Under(e \o t, e)
  BY <1>2, UnderIs
<1> QED
  BY <1>1, <1>2, <1>3

LEMMA MovedSelf ==
  ASSUME NEW S, NEW d \in Seq(S), NEW e \in Seq(S)
  PROVE  Moved(d, d, e) = e
<1>1. d \o Root = d /\ e \o Root = e /\ Root \in Seq(S)
  BY JoinRoot
<1>2. Moved(d \o Root, d, e) = e \o Root
  <2>1. \A u \in Seq(S) : Moved(d \o u, d, e) = e \o u
    BY MovedJoin
  <2> QED  BY <1>1, <2>1
<1> QED
  BY <1>1, <1>2

\* A child of what follows h, after h.
JoinsChildren(S, h) ==
  \A u \in Seq(S) : \A k \in S : h \o Child(u, k) = Child(h \o u, k)

LEMMA ChildrenJoin ==
  ASSUME NEW S, NEW h \in Seq(S)
  PROVE  JoinsChildren(S, h)
BY ChildJoin DEF JoinsChildren

LEMMA MovedChild ==
  ASSUME NEW S, NEW d \in Seq(S), NEW e \in Seq(S), NEW x \in Seq(S), Under(x, d)
  PROVE  \A k \in S : Moved(Child(x, k), d, e) = Child(Moved(x, d, e), k)
<1> DEFINE t == Moved(x, d, Root)
<1>1. t \in Seq(S) /\ d \o t = x /\ Moved(x, d, e) = e \o t
  BY MovedIs
<1> HIDE DEF t
<1>2. \A k \in S : Child(t, k) \in Seq(S)
  BY <1>1, ChildIs
<1>3. JoinsChildren(S, d)
  BY ChildrenJoin
<1>4. JoinsChildren(S, e)
  BY ChildrenJoin
<1>5. \A u \in Seq(S) : Moved(d \o u, d, e) = e \o u
  BY MovedJoin
<1>6. \A k \in S : Moved(d \o Child(t, k), d, e) = e \o Child(t, k)
  BY <1>2, <1>5
<1>7. \A k \in S : d \o Child(t, k) = Child(x, k)
  BY <1>1, <1>3 DEF JoinsChildren
<1>8. \A k \in S : e \o Child(t, k) = Child(Moved(x, d, e), k)
  BY <1>1, <1>4 DEF JoinsChildren
<1> QED
  BY <1>6, <1>7, <1>8

LEMMA MovedAbove ==
  ASSUME NEW S, NEW d \in Seq(S), NEW e \in Seq(S), e # Root, NEW x \in Seq(S),
         NEW a \in Ancestors(x), Under(a, d)
  PROVE  Under(x, d) /\ Moved(a, d, e) \in Ancestors(Moved(x, d, e))
<1>1. a \in Seq(S) /\ Len(a) \in 1 .. Len(x) - 1 /\ \A i \in 1 .. Len(a) : a[i] = x[i]
  BY AncestorIs
<1>2. Under(x, a) /\ Under(x, d)
  BY <1>1, AncestorContains, UnderTrans
<1> DEFINE s == Moved(a, d, Root)
           t == Moved(x, d, Root)
<1>3. s \in Seq(S) /\ d \o s = a /\ Moved(a, d, e) = e \o s
  BY <1>1, MovedIs
<1>4. t \in Seq(S) /\ d \o t = x /\ Moved(x, d, e) = e \o t
  BY <1>2, MovedIs
<1> HIDE DEF s, t
<1>5. /\ Len(d \o s) = Len(d) + Len(s) /\ Len(d \o t) = Len(d) + Len(t)
      /\ Len(e \o s) = Len(e) + Len(s) /\ Len(e \o t) = Len(e) + Len(t)
      /\ Len(d) \in Nat /\ Len(e) \in Nat /\ Len(s) \in Nat /\ Len(t) \in Nat
      /\ e \o s \in Seq(S) /\ e \o t \in Seq(S)
  BY <1>3, <1>4, JoinIs
<1>6. Len(s) < Len(t)
  <2>1. Len(d \o s) < Len(d \o t)
    BY <1>1, <1>3, <1>4, <1>5
  <2> QED  BY <1>5, <2>1
<1>7. \A i \in 1 .. Len(s) : s[i] = t[i]
  <2> TAKE i \in 1 .. Len(s)
  <2>1. Len(d) + i \in 1 .. Len(d \o s) /\ i \in 1 .. Len(t)
    BY <1>5, <1>6
  <2>2. (d \o s)[Len(d) + i] = s[i] /\ (d \o t)[Len(d) + i] = t[i]
    BY <1>3, <1>4, <2>1, JoinIs
  <2>3. (d \o s)[Len(d) + i] = (d \o t)[Len(d) + i]
    BY <1>1, <1>3, <1>4, <2>1
  <2> QED  BY <2>2, <2>3
<1>8. Len(e) # 0
  BY EmptySeq DEF Root
<1>9. Len(e \o s) \in 1 .. Len(e \o t) - 1
  BY <1>5, <1>6, <1>8
<1>10. \A i \in 1 .. Len(e \o s) : (e \o s)[i] = (e \o t)[i]
  <2>1. s \in Seq(S) /\ t \in Seq(S) /\ Len(s) <= Len(t)
    BY <1>3, <1>4, <1>5, <1>6
  <2> QED  BY <1>7, <2>1, JoinAgrees
<1>11. e \o s \in Ancestors(e \o t)
  <2>1. e \o s \in Seq(S) /\ e \o t \in Seq(S)
    BY <1>5
  <2> QED  BY <1>9, <1>10, <2>1, AncestorIs
<1> QED
  BY <1>2, <1>3, <1>4, <1>11

-----------------------------------------------------------------------------
(* Listings.                                                               *)

\* A listing is made name by name.
LEMMA SortedSteps ==
  ASSUME NEW S
  PROVE  \E F : /\ Sorted(S) = F[Len(NameOrder)]
                /\ \A n \in 0 .. Len(NameOrder) :
                     F[n] = IF n = 0 THEN <<>>
                            ELSE IF NameOrder[n] \in S THEN Append(F[n - 1], NameOrder[n])
                            ELSE F[n - 1]
<1> DEFINE L == Len(NameOrder)
           Next1(f, n) == IF n = 0 THEN <<>>
                          ELSE IF NameOrder[n] \in S THEN Append(f[n - 1], NameOrder[n])
                          ELSE f[n - 1]
           Good(f, m) == f = [n \in 0 .. m |-> Next1(f, n)]
           F == CHOOSE f : Good(f, L)
<1>1. L \in Nat /\ \A n \in 1 .. L : NameOrder[n] \in Names
  BY TargetsAssumption, LenProperties, ElementOfSeq
<1>2. Sorted(S) = F[L]
  BY DEF Sorted
<1>3. \E f : Good(f, L)
  <2> DEFINE Bad == {m \in 0 .. L : ~ \E f : Good(f, m)}
  <2>1. SUFFICES ASSUME Bad # {} PROVE FALSE
    <3>1. L \in 0 .. L
      BY <1>1
    <3> HIDE DEF Good, L
    <3> QED  BY <3>1
  <2>2. PICK m \in Bad : \A k \in Bad : m <= k
    <3>1. Bad \subseteq Nat
      BY <1>1
    <3> HIDE DEF Bad
    <3> QED  BY <2>1, <3>1, Smallest
  <2>3. CASE m = 0
    <3> DEFINE h == [n \in 0 .. 0 |-> <<>>]
    <3>1. h = [n \in 0 .. m |-> Next1(h, n)]
      BY <2>3
    <3>2. Good(h, m)
      <4> HIDE DEF Next1
      <4> QED  BY <3>1
    <3> HIDE DEF h
    <3> QED  BY <2>2, <3>2
  <2>4. CASE m # 0
    <3>1. m \in Nat /\ m - 1 \in 0 .. L /\ m - 1 \notin Bad
      <4>1. m \in 0 .. L
        OBVIOUS
      <4>2. m \in Nat /\ m - 1 \in 0 .. L /\ ~(m <= m - 1)
        BY <1>1, <2>4, <4>1
      <4> HIDE DEF Bad
      <4> QED  BY <2>2, <4>2
    <3>2. PICK g : Good(g, m - 1)
      BY <3>1
    <3> DEFINE h == [n \in 0 .. m |-> IF n = m THEN Next1(g, m) ELSE g[n]]
    <3>3. \A n \in 0 .. m : h[n] = Next1(h, n)
      <4> TAKE n \in 0 .. m
      <4>1. CASE n = 0
        <5>1. 0 \in 0 .. m - 1 /\ g[0] = Next1(g, 0)
          BY <2>4, <3>1, <3>2
        <5> QED  BY <2>4, <4>1, <5>1
      <4>2. CASE n # 0
        <5>1. n - 1 \in 0 .. m /\ n - 1 # m /\ h[n - 1] = g[n - 1]
          <6>1. n - 1 \in 0 .. m /\ n - 1 # m
            BY <3>1, <4>2
          <6>2. \A k \in 0 .. m : k # m => h[k] = g[k]
            <7> HIDE DEF Next1, Bad, Good
            <7> QED  OBVIOUS
          <6>3. h[n - 1] = g[n - 1]
            <7> HIDE DEF h, Bad
            <7> QED  BY <6>1, <6>2
          <6> QED  BY <6>1, <6>3
        <5>2. n # m => g[n] = Next1(g, n)
          <6>1. n # m => n \in 0 .. m - 1
            BY <3>1
          <6>2. \A k \in 0 .. m - 1 : g[k] = Next1(g, k)
            <7> HIDE DEF Next1, Bad
            <7> QED  BY <3>2
          <6> HIDE DEF Next1, Bad
          <6> QED  BY <6>1, <6>2
        <5> QED  BY <4>2, <5>1, <5>2
      <4> QED  BY <4>1, <4>2
    <3>4. Good(h, m)
      <4> HIDE DEF Next1
      <4> QED  BY <3>3
    <3> QED  BY <2>2, <3>4
  <2> QED  BY <2>3, <2>4
<1>4. Good(F, L)
  <2> HIDE DEF Good
  <2> QED  BY <1>3
<1>5. \A n \in 0 .. L : F[n] = Next1(F, n)
  <2> HIDE DEF F, Next1
  <2> QED  BY <1>4
<1> HIDE DEF F
<1> QED
  BY <1>2, <1>5

\* What is put at the end of a sequence that has not got it.
LEMMA AppendNew ==
  ASSUME NEW T, NEW s \in Seq(T), NEW e \in T, e \notin ToSet(s), IsInjective(s)
  PROVE  /\ Append(s, e) \in Seq(T) /\ IsInjective(Append(s, e))
         /\ ToSet(Append(s, e)) = ToSet(s) \cup {e}
<1> DEFINE t == Append(s, e)
<1>1. /\ t \in Seq(T) /\ Len(t) = Len(s) + 1 /\ \A i \in 1 .. Len(s) : t[i] = s[i]
      /\ t[Len(s) + 1] = e
  BY AppendProperties
<1>2. Len(s) \in Nat /\ DOMAIN s = 1 .. Len(s) /\ DOMAIN t = 1 .. Len(s) + 1
  BY <1>1, LenProperties
<1>3. \A i \in DOMAIN s : s[i] # e
  BY DEF ToSet
<1> HIDE DEF t
<1>4. IsInjective(t)
  BY <1>1, <1>2, <1>3 DEF IsInjective
<1>5. ToSet(t) = ToSet(s) \cup {e}
  <2>1. \A x \in ToSet(t) : x \in ToSet(s) \/ x = e
    BY <1>1, <1>2 DEF ToSet
  <2>2. \A x \in ToSet(s) : x \in ToSet(t)
    BY <1>1, <1>2 DEF ToSet
  <2>3. e \in ToSet(t)
    BY <1>1, <1>2 DEF ToSet
  <2> QED  BY <2>1, <2>2, <2>3
<1> QED
  BY <1>1, <1>4, <1>5 DEF t

\* A listing holds the names asked for, each once.
LEMMA SortedIs ==
  ASSUME NEW S
  PROVE  /\ Sorted(S) \in Seq(Names) /\ IsInjective(Sorted(S))
         /\ ToSet(Sorted(S)) = Names \cap S
<1> DEFINE L == Len(NameOrder)
           Upto(n) == {NameOrder[j] : j \in 1 .. n} \cap S
           Right(s, n) == s \in Seq(Names) /\ IsInjective(s) /\ ToSet(s) = Upto(n)
<1>1. L \in Nat /\ DOMAIN NameOrder = 1 .. L /\ \A n \in 1 .. L : NameOrder[n] \in Names
  BY TargetsAssumption, LenProperties, ElementOfSeq
<1>2. PICK F : /\ Sorted(S) = F[L]
               /\ \A n \in 0 .. L :
                    F[n] = IF n = 0 THEN <<>>
                           ELSE IF NameOrder[n] \in S THEN Append(F[n - 1], NameOrder[n])
                           ELSE F[n - 1]
  BY SortedSteps
<1>3. \A n \in 0 .. L : Right(F[n], n)
  <2> DEFINE Bad == {m \in 0 .. L : ~Right(F[m], m)}
  <2>1. SUFFICES ASSUME Bad # {} PROVE FALSE
    <3> HIDE DEF Right
    <3> QED  BY <1>1
  <2>2. PICK m \in Bad : \A k \in Bad : m <= k
    <3>1. Bad \subseteq Nat
      BY <1>1
    <3> HIDE DEF Bad
    <3> QED  BY <2>1, <3>1, Smallest
  <2>3. m \in 0 .. L /\ ~Right(F[m], m)
    <3> HIDE DEF Right
    <3> QED  BY <2>2
  <2>4. CASE m = 0
    <3>1. F[m] = <<>>
      BY <1>2, <2>3, <2>4
    <3>2. Right(<<>>, 0)
      BY DEF IsInjective, ToSet
    <3> QED  BY <2>3, <2>4, <3>1, <3>2
  <2>5. CASE m # 0
    <3>1. m \in Nat /\ m - 1 \in 0 .. L /\ m \in 1 .. L /\ m - 1 \in Nat
      BY <1>1, <2>3, <2>5
    <3>2. m - 1 \notin Bad
      <4> HIDE DEF Bad
      <4> QED  BY <2>2, <3>1
    <3>3. Right(F[m - 1], m - 1)
      <4> HIDE DEF Right
      <4> QED  BY <3>1, <3>2
    <3> DEFINE e == NameOrder[m]
    <3>4. \A j \in 1 .. m - 1 : NameOrder[j] # e
      <4>1. \A j \in 1 .. m - 1 : j \in DOMAIN NameOrder /\ j # m
        BY <1>1, <3>1
      <4>2. m \in DOMAIN NameOrder
        BY <1>1, <3>1
      <4> QED  BY <4>1, <4>2, TargetsAssumption DEF IsInjective
    <3>5. {NameOrder[j] : j \in 1 .. m} = {NameOrder[j] : j \in 1 .. m - 1} \cup {e}
      <4>1. \A j \in 1 .. m : j \in 1 .. m - 1 \/ j = m
        BY <3>1
      <4>2. \A j \in 1 .. m - 1 : j \in 1 .. m
        BY <3>1
      <4>3. m \in 1 .. m
        BY <3>1
      <4> QED  BY <4>1, <4>2, <4>3
    <3>6. CASE e \in S
      <4>1. F[m] = Append(F[m - 1], e)
        BY <1>2, <2>5, <3>1, <3>6
      <4>2. e \in Names /\ e \notin ToSet(F[m - 1])
        BY <1>1, <3>1, <3>3, <3>4
      <4>3. /\ Append(F[m - 1], e) \in Seq(Names) /\ IsInjective(Append(F[m - 1], e))
            /\ ToSet(Append(F[m - 1], e)) = ToSet(F[m - 1]) \cup {e}
        BY <3>3, <4>2, AppendNew
      <4>4. Upto(m) = Upto(m - 1) \cup {e}
        BY <3>5, <3>6
      <4> QED  BY <2>3, <3>3, <4>1, <4>3, <4>4
    <3>7. CASE e \notin S
      <4>1. F[m] = F[m - 1]
        BY <1>2, <2>5, <3>1, <3>7
      <4>2. Upto(m) = Upto(m - 1)
        BY <3>5, <3>7
      <4> QED  BY <2>3, <3>3, <4>1, <4>2
    <3> QED  BY <3>6, <3>7
  <2> QED  BY <2>4, <2>5
<1>4. Right(Sorted(S), L)
  <2>1. L \in 0 .. L
    BY <1>1
  <2> HIDE DEF Right
  <2> QED  BY <1>2, <1>3, <2>1
<1>5. Names = {NameOrder[j] : j \in 1 .. L}
  BY <1>1 DEF Names, ToSet
<1> QED
  BY <1>4, <1>5

LEMMA SortedTyped ==
  ASSUME NEW S
  PROVE  Sorted(S) \in Seq(Names)
BY SortedIs

-----------------------------------------------------------------------------
(* Requests.                                                               *)

OpNames ==
  {"mkdir", "write", "append", "chmod", "utimes", "rm", "cp", "mv", "link", "symlink"}

Options == [rec : BOOLEAN, force : BOOLEAN]

Reqs == [op : OpNames, p : Seq(Names), q : Seq(Names), o : Options]

LEMMA RecordIs ==
  ASSUME NEW A, NEW B, NEW C, NEW D, NEW r \in [op : A, p : B, q : C, o : D]
  PROVE  /\ r.op \in A /\ r.p \in B /\ r.q \in C /\ r.o \in D
         /\ r = [op |-> r.op, p |-> r.p, q |-> r.q, o |-> r.o]
OBVIOUS

\* A request: its operands are paths other than the root.
LEMMA RequestIs ==
  ASSUME NEW r \in Requests
  PROVE  /\ r \in Reqs /\ r.op \in Ops
         /\ r.p \in Seq(Names) /\ r.q \in Seq(Names) /\ r.p # Root
         /\ r.op = "symlink" => r.q \in LinkTargets
<1>1. r \in Request /\ r.op \in Ops
  BY DEF Requests
<1>2. Targets \subseteq Seq(Names) /\ LinkTargets \subseteq Targets /\ Root \notin Targets
      /\ Root \in Seq(Names)
  <2>1. <<>> \in Seq(Names)
    OBVIOUS
  <2> QED  BY <2>1, TargetsAssumption, CallsAssumption DEF Root
<1>3. /\ r.op \in OpNames /\ r.p \in Targets /\ r.q \in Targets \cup {Root}
      /\ r.op = "symlink" => r.q \in LinkTargets
      /\ r.o \in Options /\ r = [op |-> r.op, p |-> r.p, q |-> r.q, o |-> r.o]
  <2> DEFINE All == {NoOptions, Recursive, [rec |-> TRUE, force |-> TRUE]}
  <2>1. All \subseteq Options
    BY DEF Options, NoOptions, Recursive
  <2> HIDE DEF All
  <2>2. \A A, B, C : r \in [op : A, p : B, q : C, o : All] =>
          /\ r.op \in A /\ r.p \in B /\ r.q \in C /\ r.o \in Options
          /\ r = [op |-> r.op, p |-> r.p, q |-> r.q, o |-> r.o]
    BY <2>1, RecordIs
  <2>3. \/ r \in [op : {"mkdir"}, p : Targets, q : {Root}, o : All]
        \/ r \in [op : {"write", "append", "chmod", "utimes"}, p : Targets, q : {Root}, o : All]
        \/ r \in [op : {"rm"}, p : Targets, q : {Root}, o : All]
        \/ r \in [op : {"cp"}, p : Targets, q : Targets, o : All]
        \/ r \in [op : {"mv", "link"}, p : Targets, q : Targets, o : All]
        \/ r \in [op : {"symlink"}, p : Targets, q : LinkTargets, o : All]
    BY <1>1 DEF Request, All
  <2>4. CASE r \in [op : {"symlink"}, p : Targets, q : LinkTargets, o : All]
    <3>1. r.op \in {"symlink"} /\ r.q \in LinkTargets
      BY <2>2, <2>4
    <3> QED  BY <1>2, <2>2, <2>4, <3>1 DEF OpNames
  <2> HIDE DEF OpNames
  <2>5. /\ {"mkdir"} \subseteq OpNames \ {"symlink"}
        /\ {"write", "append", "chmod", "utimes"} \subseteq OpNames \ {"symlink"}
        /\ {"rm"} \subseteq OpNames \ {"symlink"} /\ {"cp"} \subseteq OpNames \ {"symlink"}
        /\ {"mv", "link"} \subseteq OpNames \ {"symlink"}
    BY DEF OpNames
  <2>6. ASSUME NEW A, NEW C, r \in [op : A, p : Targets, q : C, o : All],
               A \subseteq OpNames \ {"symlink"}, C \subseteq Targets \cup {Root}
        PROVE  /\ r.op \in OpNames \ {"symlink"}
               /\ r.p \in Targets /\ r.q \in Targets \cup {Root} /\ r.o \in Options
               /\ r = [op |-> r.op, p |-> r.p, q |-> r.q, o |-> r.o]
    BY <2>2, <2>6
  <2>7. ASSUME r \notin [op : {"symlink"}, p : Targets, q : LinkTargets, o : All]
        PROVE  /\ r.op \in OpNames \ {"symlink"}
               /\ r.p \in Targets /\ r.q \in Targets \cup {Root} /\ r.o \in Options
               /\ r = [op |-> r.op, p |-> r.p, q |-> r.q, o |-> r.o]
    <3>1. {Root} \subseteq Targets \cup {Root} /\ Targets \subseteq Targets \cup {Root}
      OBVIOUS
    <3> QED  BY <2>3, <2>5, <2>6, <2>7, <3>1
  <2> QED  BY <2>4, <2>7
<1>4. r \in Reqs /\ r.p \in Seq(Names) /\ r.q \in Seq(Names) /\ r.p # Root
  BY <1>2, <1>3 DEF Reqs
<1> QED
  BY <1>1, <1>3, <1>4

-----------------------------------------------------------------------------
(* Trees.                                                                  *)

(* The path p as far as its first n names.                                 *)
Upto(p, n) == SubSeq(p, 1, n)

LEMMA UptoIs ==
  ASSUME NEW S, NEW p \in Seq(S), NEW n \in 0 .. Len(p)
  PROVE  /\ Upto(p, n) \in Seq(S) /\ Len(Upto(p, n)) = n
         /\ \A i \in 1 .. n : Upto(p, n)[i] = p[i]
         /\ n = 0 => Upto(p, n) = Root
         /\ n = Len(p) => Upto(p, n) = p
         /\ n # 0 => /\ Upto(p, n) # Root
                     /\ Parent(Upto(p, n)) = Upto(p, n - 1)
                     /\ Child(Upto(p, n - 1), p[n]) = Upto(p, n)
<1>1. Len(p) \in Nat /\ n \in Nat /\ \A i \in 1 .. Len(p) : p[i] \in S
  BY LenProperties, ElementOfSeq
<1>2. ASSUME NEW m \in 0 .. Len(p)
      PROVE  /\ Upto(p, m) \in Seq(S) /\ Len(Upto(p, m)) = m
             /\ \A i \in 1 .. m : Upto(p, m)[i] = p[i]
  <2>1. m \in Nat /\ 1 \in Int /\ m \in Int /\ \A i \in 1 .. m : p[i] \in S
    BY <1>1
  <2>2. /\ SubSeq(p, 1, m) \in Seq(S)
        /\ Len(SubSeq(p, 1, m)) = IF 1 <= m THEN m - 1 + 1 ELSE 0
        /\ \A i \in 1 .. m - 1 + 1 : SubSeq(p, 1, m)[i] = p[1 + i - 1]
    BY <2>1, SubSeqProperties
  <2>3. \A i \in 1 .. m : i \in 1 .. m - 1 + 1 /\ 1 + i - 1 = i
    BY <2>1
  <2> QED  BY <2>1, <2>2, <2>3 DEF Upto
<1>3. n = 0 => Upto(p, n) = Root
  BY SubSeqEmpty DEF Upto, Root
<1>4. n = Len(p) => Upto(p, n) = p
  <2> HIDE DEF Upto
  <2> QED  BY <1>2, SeqEqual
<1>5. CASE n # 0
  <2> DEFINE x == Upto(p, n)
             y == Upto(p, n - 1)
  <2>1. n - 1 \in 0 .. Len(p) /\ n - 1 \in Nat /\ n \in 1 .. Len(p)
    BY <1>1, <1>5
  <2>2. x \in Seq(S) /\ Len(x) = n /\ \A i \in 1 .. n : x[i] = p[i]
    BY <1>2
  <2>3. y \in Seq(S) /\ Len(y) = n - 1 /\ \A i \in 1 .. n - 1 : y[i] = p[i]
    BY <1>2, <2>1
  <2>4. x # Root
    BY <1>5, <2>2 DEF Root
  <2>5. /\ Child(y, p[n]) \in Seq(S) /\ Len(Child(y, p[n])) = n
        /\ \A i \in 1 .. n - 1 : Child(y, p[n])[i] = p[i]
        /\ Child(y, p[n])[n] = p[n]
    <3>1. p[n] \in S
      BY <1>1, <2>1
    <3>2. /\ Append(y, p[n]) \in Seq(S) /\ Len(Append(y, p[n])) = Len(y) + 1
          /\ \A i \in 1 .. Len(y) : Append(y, p[n])[i] = y[i]
          /\ Append(y, p[n])[Len(y) + 1] = p[n]
      <4> HIDE DEF y
      <4> QED  BY <2>3, <3>1, AppendProperties
    <3> HIDE DEF y
    <3> QED  BY <2>1, <2>3, <3>2 DEF Child
  <2> HIDE DEF x, y
  <2>6. Child(y, p[n]) = x
    <3>1. \A i \in 1 .. n : Child(y, p[n])[i] = x[i]
      BY <2>1, <2>2, <2>5
    <3> QED  BY <2>2, <2>5, <3>1, SeqEqual
  <2>7. Parent(x) = y
    <3>1. \A i \in 1 .. n - 1 : x[i] \in S
      BY <1>1, <2>1, <2>2
    <3>2. /\ SubSeq(x, 1, n - 1) \in Seq(S)
          /\ Len(SubSeq(x, 1, n - 1)) = n - 1
          /\ \A i \in 1 .. n - 1 : SubSeq(x, 1, n - 1)[i] = x[i]
      <4>1. 1 \in Int /\ n - 1 \in Int
        BY <2>1
      <4>2. /\ SubSeq(x, 1, n - 1) \in Seq(S)
            /\ Len(SubSeq(x, 1, n - 1)) = IF 1 <= n - 1 THEN n - 1 - 1 + 1 ELSE 0
            /\ \A i \in 1 .. n - 1 - 1 + 1 : SubSeq(x, 1, n - 1)[i] = x[1 + i - 1]
        BY <3>1, <4>1, SubSeqProperties
      <4>3. \A i \in 1 .. n - 1 : i \in 1 .. n - 1 - 1 + 1 /\ 1 + i - 1 = i
        BY <2>1
      <4> QED  BY <2>1, <4>2, <4>3
    <3>3. SubSeq(x, 1, n - 1) = y
      <4>1. \A i \in 1 .. n - 1 : SubSeq(x, 1, n - 1)[i] = y[i]
        BY <2>1, <2>2, <2>3, <3>2
      <4> QED  BY <2>3, <3>2, <4>1, SeqEqual
    <3> QED  BY <2>2, <3>3 DEF Parent, Front
  <2> QED  BY <1>2, <1>4, <1>5, <2>4, <2>6, <2>7 DEF x, y
<1> QED
  BY <1>2, <1>3, <1>4, <1>5

\* The parent of a child.
LEMMA ChildParent ==
  ASSUME NEW S, NEW p \in Seq(S), NEW k \in S
  PROVE  Parent(Child(p, k)) = p
<1> DEFINE x == Child(p, k)
<1>1. x \in Seq(S) /\ Len(x) = Len(p) + 1 /\ \A i \in 1 .. Len(p) : x[i] = p[i]
  BY ChildIs
<1>2. Len(p) \in Nat
  BY LenProperties
<1> HIDE DEF x
<1>3. /\ Len(x) \in 0 .. Len(x) /\ Len(x) # 0 /\ Len(x) - 1 = Len(p)
      /\ Len(p) \in 0 .. Len(x)
  BY <1>1, <1>2
<1>4. Parent(Upto(x, Len(x))) = Upto(x, Len(x) - 1) /\ Upto(x, Len(x)) = x
  BY <1>1, <1>3, UptoIs
<1>5. Upto(x, Len(p)) \in Seq(S) /\ Len(Upto(x, Len(p))) = Len(p)
      /\ \A i \in 1 .. Len(p) : Upto(x, Len(p))[i] = x[i]
  BY <1>1, <1>3, UptoIs
<1>6. Upto(x, Len(p)) = p
  <2> HIDE DEF Upto
  <2> QED  BY <1>1, <1>5, SeqEqual
<1> QED
  BY <1>3, <1>4, <1>6 DEF x

\* The first part of a path that is put together.
LEMMA HeadOfJoin ==
  ASSUME NEW S, NEW h \in Seq(S), NEW p \in Seq(S)
  PROVE  SubSeq(h \o p, 1, Len(h \o p) - Len(p)) = h
<1> DEFINE x == h \o p
<1>1. /\ x \in Seq(S) /\ Len(x) = Len(h) + Len(p) /\ \A i \in 1 .. Len(h) : x[i] = h[i]
      /\ Len(h) \in Nat /\ Len(p) \in Nat
  BY JoinIs
<1> HIDE DEF x
<1>2. Len(h) \in 0 .. Len(x) /\ Len(x) - Len(p) = Len(h)
  BY <1>1
<1>3. Upto(x, Len(h)) \in Seq(S) /\ Len(Upto(x, Len(h))) = Len(h)
      /\ \A i \in 1 .. Len(h) : Upto(x, Len(h))[i] = x[i]
  BY <1>1, <1>2, UptoIs
<1>4. Upto(x, Len(h)) = h
  BY <1>1, <1>3, SeqEqual
<1> QED
  BY <1>2, <1>4 DEF Upto, x

\* In a tree, what lies on the way to a path that exists are directories.
LEMMA TreeAbove ==
  ASSUME NEW S, NEW t, DOMAIN t \subseteq Seq(S), IsTree(t), NEW p \in DOMAIN t,
         NEW n \in 1 .. Len(p) - 1
  PROVE  Upto(p, n) \in DOMAIN t /\ t[Upto(p, n)].t = "dir"
<1> DEFINE Good(m) == Upto(p, m) \in DOMAIN t /\ t[Upto(p, m)].t = "dir"
           Bad == {m \in Nat : m \in 1 .. Len(p) - 1 /\ ~Good(Len(p) - m)}
<1>1. p \in Seq(S) /\ Len(p) \in Nat
  BY LenProperties
<1>2. SUFFICES ASSUME Bad # {} PROVE FALSE
  <2>1. Len(p) - n \in Nat /\ Len(p) - n \in 1 .. Len(p) - 1 /\ Len(p) - (Len(p) - n) = n
    BY <1>1
  <2>2. Bad = {} => Good(n)
    <3> HIDE DEF Good
    <3> QED  BY <2>1
  <2> HIDE DEF Bad
  <2> QED  BY <2>2
<1>3. PICK m \in Bad : \A k \in Bad : m <= k
  <2>1. Bad \subseteq Nat
    OBVIOUS
  <2> HIDE DEF Bad
  <2> QED  BY <1>2, <2>1, Smallest
<1>4. m \in Nat /\ m \in 1 .. Len(p) - 1 /\ ~Good(Len(p) - m)
  BY <1>3
<1> DEFINE l == Len(p) - m
           x == Upto(p, l + 1)
<1>5. l \in 1 .. Len(p) - 1 /\ l + 1 \in 0 .. Len(p) /\ l + 1 # 0 /\ l + 1 - 1 = l /\ l \in 0 .. Len(p) /\ l # 0
  BY <1>1, <1>4
<1>6. x \in DOMAIN t
  <2>1. CASE m = 1
    <3>1. l + 1 = Len(p)
      BY <1>1, <1>4, <2>1
    <3> QED  BY <1>1, <1>5, <3>1, UptoIs
  <2>2. CASE m # 1
    <3>1. m - 1 \in Nat /\ m - 1 \in 1 .. Len(p) - 1 /\ ~(m <= m - 1) /\ Len(p) - (m - 1) = l + 1
      BY <1>1, <1>4, <2>2
    <3>2. Good(l + 1)
      <4>1. m - 1 \notin Bad
        <5> HIDE DEF Bad
        <5> QED  BY <1>3, <3>1
      <4> HIDE DEF Good, l
      <4> QED  BY <3>1, <4>1
    <3> QED  BY <3>2
  <2> QED  BY <2>1, <2>2
<1> HIDE DEF Bad, Good
<1>7. x # Root /\ Parent(x) = Upto(p, l) /\ Upto(p, l) # Root
  <2> HIDE DEF l
  <2> QED  BY <1>1, <1>5, UptoIs
<1>8. Good(l)
  BY <1>6, <1>7 DEF IsTree, IsDir, Good
<1> QED
  BY <1>4, <1>8

\* The directories above a path of a tree.
LEMMA TreeDirs ==
  ASSUME NEW S, NEW t, DOMAIN t \subseteq Seq(S), IsTree(t), NEW p \in DOMAIN t,
         NEW a \in Ancestors(p)
  PROVE  a \in DOMAIN t /\ t[a].t = "dir"
<1>1. PICK n \in 1 .. Len(p) - 1 : a = Upto(p, n)
  BY DEF Ancestors, Upto
<1> QED
  BY <1>1, TreeAbove

=============================================================================
