------------------------- MODULE ShellMachineProofs -------------------------
(***************************************************************************)
(* Theorems about ShellMachine, for every program and every value of the   *)
(* limits, in the order in which they rest on each other:                  *)
(*   - types, and the depths that count the frames of the stack;           *)
(*   - how frames are left: what a subshell, a substitution or a pipeline  *)
(*     gives back, that what is thrown is caught, and with what Bash.exec  *)
(*     ends;                                                               *)
(*   - set -e: a command that failed by itself ends the script, because    *)
(*     errexitSafe, which the statements nested in a command hand up to    *)
(*     its own statement, is then never set.                               *)
(***************************************************************************)
EXTENDS ShellMachine, FiniteSetTheorems, SequenceTheorems, TLAPS

-----------------------------------------------------------------------------
(* Stacks of frames: what a push, a pop and an update of the top do to the *)
(* depths.                                                                 *)

\* Intervals from 1 are equal only if their ends are.
LEMMA SameInterval ==
  ASSUME NEW a \in Nat, NEW b \in Nat, 1 .. a = 1 .. b
  PROVE  a = b
<1>1. ~(a < b)
  <2> SUFFICES ASSUME a < b PROVE FALSE
    OBVIOUS
  <2>1. b \in 1 .. b /\ b \notin 1 .. a
    OBVIOUS
  <2> QED  BY <2>1
<1>2. ~(b < a)
  <2> SUFFICES ASSUME b < a PROVE FALSE
    OBVIOUS
  <2>1. a \in 1 .. a /\ a \notin 1 .. b
    OBVIOUS
  <2> QED  BY <2>1
<1> QED  BY <1>1, <1>2

\* All but the last element of a sequence.
LEMMA AllButLast ==
  ASSUME NEW S, NEW s \in Seq(S), s # <<>>
  PROVE  /\ Len(s) \in Nat \ {0}
         /\ s[Len(s)] \in S
         /\ SubSeq(s, 1, Len(s) - 1) \in Seq(S)
         /\ Len(SubSeq(s, 1, Len(s) - 1)) = Len(s) - 1
         /\ \A i \in 1 .. Len(s) - 1 : SubSeq(s, 1, Len(s) - 1)[i] = s[i]
<1> DEFINE n == Len(s) - 1
           t == SubSeq(s, 1, n)
<1>1. Len(s) \in Nat \ {0}
  BY EmptySeq
<1>2. n \in 0 .. Len(s) /\ n \in Nat
  BY <1>1
<1>3. t \in Seq(S)
  BY <1>1
<1>4. \A i \in 1 .. n : t[i] = s[i]
  BY <1>1
<1>5. t = Restrict(s, 1 .. n)
  BY <1>2, SubSeqRestrict
<1>6. DOMAIN t = 1 .. n
  BY <1>5 DEF Restrict
<1>7. DOMAIN t = 1 .. Len(t) /\ Len(t) \in Nat
  BY <1>3, LenProperties
<1>8. s[Len(s)] \in S
  BY <1>1, ElementOfSeq
<1> HIDE DEF t, n
<1>9. Len(t) = n
  BY <1>2, <1>6, <1>7, SameInterval
<1> QED  BY <1>1, <1>3, <1>4, <1>8, <1>9 DEF t, n

\* The frames of a kind are finitely many, and the i-th frame adds itself.
LEMMA FramesCount ==
  ASSUME NEW s, NEW K, NEW i \in Nat
  PROVE  /\ IsFiniteSet(FramesOf(s, K, i))
         /\ Cardinality(FramesOf(s, K, i)) \in Nat
         /\ i = 0 => Cardinality(FramesOf(s, K, i)) = 0
         /\ i > 0 => Cardinality(FramesOf(s, K, i)) =
              IF s[i].k \in K THEN Cardinality(FramesOf(s, K, i - 1)) + 1
                              ELSE Cardinality(FramesOf(s, K, i - 1))
<1>1. \A n \in Nat : IsFiniteSet(FramesOf(s, K, n))
  <2> TAKE n \in Nat
  <2>1. IsFiniteSet(1 .. n)
    BY FS_Interval
  <2>2. FramesOf(s, K, n) \in SUBSET (1 .. n)
    BY DEF FramesOf
  <2> QED  BY <2>1, <2>2, FS_Subset
<1>2. IsFiniteSet(FramesOf(s, K, i)) /\ Cardinality(FramesOf(s, K, i)) \in Nat
  BY <1>1, FS_CardinalityType
<1>3. ASSUME i = 0 PROVE Cardinality(FramesOf(s, K, i)) = 0
  <2>1. FramesOf(s, K, i) = {}
    BY <1>3 DEF FramesOf
  <2> QED  BY <2>1, FS_EmptySet
<1>4. ASSUME i > 0
      PROVE  Cardinality(FramesOf(s, K, i)) =
               IF s[i].k \in K THEN Cardinality(FramesOf(s, K, i - 1)) + 1
                               ELSE Cardinality(FramesOf(s, K, i - 1))
  <2>1. i - 1 \in Nat /\ IsFiniteSet(FramesOf(s, K, i - 1))
    BY <1>1, <1>4
  <2>2. CASE s[i].k \in K
    <3>1. FramesOf(s, K, i) = FramesOf(s, K, i - 1) \cup {i}
      BY <1>4, <2>2 DEF FramesOf
    <3>2. i \notin FramesOf(s, K, i - 1)
      BY DEF FramesOf
    <3> QED  BY <2>1, <2>2, <3>1, <3>2, FS_AddElement
  <2>3. CASE s[i].k \notin K
    <3>1. FramesOf(s, K, i) = FramesOf(s, K, i - 1)
      BY <1>4, <2>3 DEF FramesOf
    <3> QED  BY <2>3, <3>1
  <2> QED  BY <2>2, <2>3
<1> QED  BY <1>2, <1>3, <1>4

\* The same for the loops of the innermost subshell environment.
LEMMA LoopsCount ==
  ASSUME NEW s, NEW i \in Nat
  PROVE  /\ Cardinality(LoopsIn(s, i)) \in Nat
         /\ i = 0 => Cardinality(LoopsIn(s, i)) = 0
         /\ i > 0 => Cardinality(LoopsIn(s, i)) =
              IF s[i].k \in LoopKinds THEN Cardinality(LoopsIn(s, i - 1)) + 1
              ELSE IF s[i].k \in BoundaryKinds THEN 0
              ELSE Cardinality(LoopsIn(s, i - 1))
<1>1. \A n \in Nat : IsFiniteSet(LoopsIn(s, n))
  <2> TAKE n \in Nat
  <2>1. IsFiniteSet(1 .. n)
    BY FS_Interval
  <2>2. LoopsIn(s, n) \in SUBSET (1 .. n)
    BY DEF LoopsIn, FramesOf
  <2> QED  BY <2>1, <2>2, FS_Subset
<1>2. Cardinality(LoopsIn(s, i)) \in Nat
  BY <1>1, FS_CardinalityType
<1>3. ASSUME i = 0 PROVE Cardinality(LoopsIn(s, i)) = 0
  <2>1. LoopsIn(s, i) = {}
    BY <1>3 DEF LoopsIn, FramesOf
  <2> QED  BY <2>1, FS_EmptySet
<1>4. ASSUME i > 0
      PROVE  Cardinality(LoopsIn(s, i)) =
               IF s[i].k \in LoopKinds THEN Cardinality(LoopsIn(s, i - 1)) + 1
               ELSE IF s[i].k \in BoundaryKinds THEN 0
               ELSE Cardinality(LoopsIn(s, i - 1))
  <2>1. i - 1 \in Nat /\ IsFiniteSet(LoopsIn(s, i - 1))
    BY <1>1, <1>4
  <2>2. CASE s[i].k \in LoopKinds
    <3>0. s[i].k \notin BoundaryKinds
      BY <2>2 DEF LoopKinds, BoundaryKinds
    <3>1. LoopsIn(s, i) = LoopsIn(s, i - 1) \cup {i}
      BY <1>4, <2>2, <3>0 DEF LoopsIn, FramesOf
    <3>2. i \notin LoopsIn(s, i - 1)
      BY DEF LoopsIn, FramesOf
    <3> QED  BY <2>1, <2>2, <3>1, <3>2, FS_AddElement
  <2>3. CASE s[i].k \notin LoopKinds /\ s[i].k \in BoundaryKinds
    <3>1. LoopsIn(s, i) = {}
      BY <1>4, <2>3 DEF LoopsIn, FramesOf
    <3> QED  BY <2>3, <3>1, FS_EmptySet
  <2>4. CASE s[i].k \notin LoopKinds /\ s[i].k \notin BoundaryKinds
    <3>1. LoopsIn(s, i) = LoopsIn(s, i - 1)
      BY <1>4, <2>4 DEF LoopsIn, FramesOf
    <3> QED  BY <2>4, <3>1
  <2> QED  BY <2>2, <2>3, <2>4
<1> QED  BY <1>2, <1>3, <1>4

\* Stacks that agree on their first i frames have the same measures there.
LEMMA Agreement ==
  ASSUME NEW s, NEW t, NEW i \in Nat, \A j \in 1 .. i : s[j] = t[j]
  PROVE  /\ \A K : FramesOf(s, K, i) = FramesOf(t, K, i)
         /\ LoopsIn(s, i) = LoopsIn(t, i)
         /\ ConditionFrames(s, i) = ConditionFrames(t, i)
  BY DEF FramesOf, LoopsIn, ConditionFrames, TestsCondition

-----------------------------------------------------------------------------
(* The invariant of the depths: d, an InterpreterState, counts the frames  *)
(* of s, and what a frame saved is what held below it.                     *)

\* A depth of function calls counts them, but a function whose own redirection
\* throws is left without taking itself off.
CallsHold(depth, n) == depth = n \/ ("fredir" \in Forms /\ depth \in Nat /\ depth > n)

Tracks(s, d) ==
  /\ d.loopDepth = Cardinality(LoopsIn(s, Len(s)))
  /\ CallsHold(d.callDepth, Cardinality(FramesOf(s, {"call"}, Len(s))))
  /\ CallsHold(d.scopes, Cardinality(FramesOf(s, {"call"}, Len(s))))
  /\ d.sourceDepth = Cardinality(FramesOf(s, {"source"}, Len(s)))
  /\ d.substDepth = Cardinality(FramesOf(s, {"subst"}, Len(s)))
  /\ d.inCondition <=> ConditionFrames(s, Len(s)) # {}

SavedAt(s, i) ==
  /\ s[i].k \in BoundaryKinds => s[i].sv.loopDepth = Cardinality(LoopsIn(s, i - 1))
  /\ s[i].k = "subshell" => CallsHold(s[i].sv.scopes, Cardinality(FramesOf(s, {"call"}, i - 1)))
  /\ s[i].k = "subst" => s[i].sv.substDepth = Cardinality(FramesOf(s, {"subst"}, i - 1))
  /\ TestsCondition(s[i]) => (s[i].sv.inCondition <=> ConditionFrames(s, i - 1) # {})

Counts(s, d) == Tracks(s, d) /\ \A i \in 1 .. Len(s) : SavedAt(s, i)

\* What entering, leaving and updating a frame do to the depths.
Enters(f, d, e) ==
  /\ e.loopDepth = IF f.k \in LoopKinds THEN d.loopDepth + 1
                   ELSE IF f.k \in BoundaryKinds THEN 0 ELSE d.loopDepth
  /\ e.callDepth = IF f.k = "call" THEN d.callDepth + 1 ELSE d.callDepth
  /\ e.scopes = IF f.k = "call" THEN d.scopes + 1 ELSE d.scopes
  /\ e.sourceDepth = IF f.k = "source" THEN d.sourceDepth + 1 ELSE d.sourceDepth
  /\ e.substDepth = IF f.k = "subst" THEN d.substDepth + 1 ELSE d.substDepth
  /\ e.inCondition <=> (d.inCondition \/ f.k = "cond")
  /\ ~(f.k = "while" /\ f.ph = "cond")
  /\ f.k \in BoundaryKinds => f.sv.loopDepth = d.loopDepth
  /\ f.k = "subshell" => f.sv.scopes = d.scopes
  /\ f.k = "subst" => f.sv.substDepth = d.substDepth
  /\ f.k = "cond" => (f.sv.inCondition <=> d.inCondition)

Leaves(f, d, e) ==
  /\ e.loopDepth = IF f.k \in LoopKinds THEN d.loopDepth - 1
                   ELSE IF f.k \in BoundaryKinds THEN f.sv.loopDepth ELSE d.loopDepth
  /\ \/ e.callDepth = IF f.k = "call" THEN d.callDepth - 1 ELSE d.callDepth
     \/ "fredir" \in Forms /\ f.k = "call" /\ e.callDepth = d.callDepth
  /\ \/ e.scopes = IF f.k = "call" THEN d.scopes - 1
                   ELSE IF f.k = "subshell" THEN f.sv.scopes ELSE d.scopes
     \/ "fredir" \in Forms /\ f.k = "call" /\ e.scopes = d.scopes
  /\ e.sourceDepth = IF f.k = "source" THEN d.sourceDepth - 1 ELSE d.sourceDepth
  /\ e.substDepth = IF f.k = "subst" THEN f.sv.substDepth ELSE d.substDepth
  /\ e.inCondition <=> IF TestsCondition(f) THEN f.sv.inCondition ELSE d.inCondition

Becomes(f, g, d, e) ==
  /\ g.k = f.k
  /\ g.sv.loopDepth = f.sv.loopDepth
  /\ g.sv.scopes = f.sv.scopes
  /\ g.sv.substDepth = f.sv.substDepth
  /\ TestsCondition(g) => (g.sv.inCondition <=>
       IF TestsCondition(f) THEN f.sv.inCondition ELSE d.inCondition)
  /\ e.loopDepth = d.loopDepth /\ e.callDepth = d.callDepth /\ e.scopes = d.scopes
  /\ e.sourceDepth = d.sourceDepth /\ e.substDepth = d.substDepth
  /\ e.inCondition <=>
       IF TestsCondition(g) THEN TRUE
       ELSE IF TestsCondition(f) THEN f.sv.inCondition ELSE d.inCondition

\* The last frame adds itself to the frames under a condition.
LEMMA ConditionFramesStep ==
  ASSUME NEW s, NEW i \in Nat, i > 0
  PROVE  ConditionFrames(s, i) # {} <=>
           TestsCondition(s[i]) \/ ConditionFrames(s, i - 1) # {}
<1>1. ASSUME TestsCondition(s[i]) PROVE i \in ConditionFrames(s, i)
  BY <1>1 DEF ConditionFrames
<1>2. ASSUME ~TestsCondition(s[i]) PROVE ConditionFrames(s, i) = ConditionFrames(s, i - 1)
  BY <1>2 DEF ConditionFrames
<1>3. ConditionFrames(s, i - 1) \subseteq ConditionFrames(s, i)
  BY DEF ConditionFrames
<1> QED  BY <1>1, <1>2, <1>3

\* What the frames below i saved depends on those frames alone.
LEMMA SavedBelow ==
  ASSUME NEW s, NEW t, NEW n \in Nat, \A j \in 1 .. n : s[j] = t[j],
         \A j \in 1 .. n : SavedAt(s, j)
  PROVE  \A j \in 1 .. n : SavedAt(t, j)
<1> SUFFICES ASSUME NEW j \in 1 .. n PROVE SavedAt(t, j)
  OBVIOUS
<1>1. j - 1 \in Nat /\ \A l \in 1 .. (j - 1) : s[l] = t[l]
  OBVIOUS
<1>2. /\ FramesOf(s, {"call"}, j - 1) = FramesOf(t, {"call"}, j - 1)
      /\ FramesOf(s, {"subst"}, j - 1) = FramesOf(t, {"subst"}, j - 1)
      /\ LoopsIn(s, j - 1) = LoopsIn(t, j - 1)
      /\ ConditionFrames(s, j - 1) = ConditionFrames(t, j - 1)
  BY <1>1, Agreement
<1>3. s[j] = t[j] /\ SavedAt(s, j)
  OBVIOUS
<1> QED  BY <1>2, <1>3 DEF SavedAt

\* Entering a frame keeps the counts.
LEMMA Pushed ==
  ASSUME NEW S, NEW s \in Seq(S), NEW f \in S, NEW d, NEW e,
         Counts(s, d), Enters(f, d, e)
  PROVE  Counts(Append(s, f), e)
<1> DEFINE n == Len(s)
           t == Append(s, f)
<1>1. n \in Nat /\ Len(t) = n + 1 /\ t[n + 1] = f /\ \A j \in 1 .. n : s[j] = t[j]
  BY LenProperties
<1>2. /\ \A K : FramesOf(s, K, n) = FramesOf(t, K, n)
      /\ LoopsIn(s, n) = LoopsIn(t, n)
      /\ ConditionFrames(s, n) = ConditionFrames(t, n)
  BY <1>1, Agreement
<1>3. \A j \in 1 .. n : SavedAt(t, j)
  BY <1>1, SavedBelow DEF Counts
<1> HIDE DEF t, n
<1>4. n + 1 \in Nat /\ n + 1 > 0 /\ (n + 1) - 1 = n
  BY <1>1
<1>5. Cardinality(LoopsIn(t, n + 1)) =
        IF f.k \in LoopKinds THEN Cardinality(LoopsIn(s, n)) + 1
        ELSE IF f.k \in BoundaryKinds THEN 0 ELSE Cardinality(LoopsIn(s, n))
  BY <1>1, <1>2, <1>4, LoopsCount
<1>6. \A K : Cardinality(FramesOf(t, K, n + 1)) =
               IF f.k \in K THEN Cardinality(FramesOf(s, K, n)) + 1
                            ELSE Cardinality(FramesOf(s, K, n))
  <2> TAKE K
  <2>1. FramesOf(s, K, n) = FramesOf(t, K, n)
    BY <1>2
  <2> QED  BY <1>1, <1>4, <2>1, FramesCount
<1>7. ConditionFrames(t, n + 1) # {} <=> TestsCondition(f) \/ ConditionFrames(s, n) # {}
  BY <1>1, <1>2, <1>4, ConditionFramesStep
<1>8. Tracks(s, d)
  BY DEF Counts
<1>c. Cardinality(FramesOf(s, {"call"}, n)) \in Nat
  BY <1>1, FramesCount
<1>9. Tracks(t, e)
  BY <1>1, <1>5, <1>6, <1>7, <1>8, <1>c DEF Tracks, CallsHold, Enters, TestsCondition, n
<1>10. SavedAt(t, n + 1)
  BY <1>1, <1>2, <1>4, <1>8 DEF SavedAt, Enters, Tracks, TestsCondition, n
<1>11. \A i \in 1 .. Len(t) : SavedAt(t, i)
  BY <1>1, <1>3, <1>10
<1> QED  BY <1>9, <1>11 DEF Counts, t

\* Leaving the top frame keeps the counts.
LEMMA Popped ==
  ASSUME NEW S, NEW s \in Seq(S), s # <<>>, NEW d, NEW e,
         Counts(s, d), Leaves(s[Len(s)], d, e)
  PROVE  Counts(SubSeq(s, 1, Len(s) - 1), e)
<1> DEFINE n == Len(s)
           t == SubSeq(s, 1, n - 1)
           f == s[n]
<1>1. /\ n \in Nat /\ n > 0 /\ n - 1 \in Nat
      /\ Len(t) = n - 1 /\ \A j \in 1 .. (n - 1) : s[j] = t[j]
  BY AllButLast
<1> HIDE DEF t, n
<1>2. /\ \A K : FramesOf(s, K, n - 1) = FramesOf(t, K, n - 1)
      /\ LoopsIn(s, n - 1) = LoopsIn(t, n - 1)
      /\ ConditionFrames(s, n - 1) = ConditionFrames(t, n - 1)
  BY <1>1, Agreement
<1>3. Tracks(s, d) /\ SavedAt(s, n)
  BY <1>1 DEF Counts, n
<1>4. \A j \in 1 .. (n - 1) : SavedAt(s, j)
  BY <1>1 DEF Counts, n
<1>5. \A j \in 1 .. (n - 1) : SavedAt(t, j)
  BY <1>1, <1>4, SavedBelow
<1>l. Cardinality(LoopsIn(s, n - 1)) \in Nat
  BY <1>1, LoopsCount
<1>k. \A K : Cardinality(FramesOf(s, K, n - 1)) \in Nat
  BY <1>1, FramesCount
<1> HIDE DEF f
<1>6. Cardinality(LoopsIn(s, n)) =
        IF f.k \in LoopKinds THEN Cardinality(LoopsIn(s, n - 1)) + 1
        ELSE IF f.k \in BoundaryKinds THEN 0 ELSE Cardinality(LoopsIn(s, n - 1))
  BY <1>1, LoopsCount DEF f
<1>7. \A K : Cardinality(FramesOf(s, K, n)) =
               IF f.k \in K THEN Cardinality(FramesOf(s, K, n - 1)) + 1
                            ELSE Cardinality(FramesOf(s, K, n - 1))
  BY <1>1, FramesCount DEF f
<1>8. ConditionFrames(s, n) # {} <=> TestsCondition(f) \/ ConditionFrames(s, n - 1) # {}
  BY <1>1, ConditionFramesStep DEF f
<1>9. Leaves(f, d, e)
  BY DEF f, n
<1>10. e.loopDepth = Cardinality(LoopsIn(t, Len(t)))
  BY <1>1, <1>2, <1>3, <1>6, <1>9, <1>l DEF Tracks, Leaves, SavedAt, f, n
<1>c. /\ CallsHold(e.callDepth, Cardinality(FramesOf(t, {"call"}, Len(t))))
      /\ CallsHold(e.scopes, Cardinality(FramesOf(t, {"call"}, Len(t))))
  <2> DEFINE c == Cardinality(FramesOf(s, {"call"}, n - 1))
  <2>1. c \in Nat /\ Cardinality(FramesOf(t, {"call"}, Len(t))) = c
    BY <1>1, <1>2, <1>k
  <2>2. Cardinality(FramesOf(s, {"call"}, n)) = IF f.k = "call" THEN c + 1 ELSE c
    <3>1. f.k \in {"call"} <=> f.k = "call"
      OBVIOUS
    <3> QED  BY <1>7, <3>1
  <2>3. CallsHold(d.callDepth, IF f.k = "call" THEN c + 1 ELSE c)
    BY <1>3, <2>2 DEF Tracks, n
  <2>4. CallsHold(d.scopes, IF f.k = "call" THEN c + 1 ELSE c)
    BY <1>3, <2>2 DEF Tracks, n
  <2>5. f.k = "subshell" => CallsHold(f.sv.scopes, c)
    BY <1>3 DEF SavedAt, f
  <2> HIDE DEF c
  <2>6. CallsHold(e.callDepth, c)
    BY <1>9, <2>1, <2>3 DEF Leaves, CallsHold
  <2>7. CallsHold(e.scopes, c)
    BY <1>9, <2>1, <2>4, <2>5 DEF Leaves, CallsHold
  <2> QED  BY <2>1, <2>6, <2>7
<1>11. /\ e.sourceDepth = Cardinality(FramesOf(t, {"source"}, Len(t)))
       /\ e.substDepth = Cardinality(FramesOf(t, {"subst"}, Len(t)))
  BY <1>1, <1>2, <1>3, <1>7, <1>9, <1>k DEF Tracks, Leaves, SavedAt, f, n
<1>12. e.inCondition <=> ConditionFrames(t, Len(t)) # {}
  BY <1>1, <1>2, <1>3, <1>8, <1>9 DEF Tracks, Leaves, SavedAt, f, n
<1>13. Counts(t, e)
  BY <1>1, <1>5, <1>10, <1>11, <1>12, <1>c DEF Counts, Tracks
<1> QED  BY <1>13 DEF t, n

\* Updating the top frame keeps the counts.
LEMMA Updated ==
  ASSUME NEW S, NEW s \in Seq(S), s # <<>>, NEW g \in S, NEW d, NEW e,
         Counts(s, d), Becomes(s[Len(s)], g, d, e)
  PROVE  Counts([s EXCEPT ![Len(s)] = g], e)
<1> DEFINE n == Len(s)
           t == [s EXCEPT ![n] = g]
           f == s[n]
<1>1. n \in Nat /\ n > 0 /\ n - 1 \in Nat /\ n \in 1 .. Len(s)
  BY AllButLast
<1>a. Len(t) = n /\ t[n] = g /\ \A j \in 1 .. (n - 1) : s[j] = t[j]
  BY <1>1, ExceptSeq
<1> HIDE DEF t, n
<1>2. /\ \A K : FramesOf(s, K, n - 1) = FramesOf(t, K, n - 1)
      /\ LoopsIn(s, n - 1) = LoopsIn(t, n - 1)
      /\ ConditionFrames(s, n - 1) = ConditionFrames(t, n - 1)
  BY <1>1, <1>a, Agreement
<1>3. Tracks(s, d) /\ SavedAt(s, n) /\ \A j \in 1 .. (n - 1) : SavedAt(s, j)
  BY <1>1 DEF Counts, n
<1>5. \A j \in 1 .. (n - 1) : SavedAt(t, j)
  BY <1>1, <1>a, <1>3, SavedBelow
<1> HIDE DEF f
<1>b. Becomes(f, g, d, e)
  BY DEF f, n
<1>6. Cardinality(LoopsIn(t, n)) = Cardinality(LoopsIn(s, n))
  <2>1. t[n].k = s[n].k
    BY <1>a, <1>b DEF Becomes, f
  <2>2. \A q : Cardinality(LoopsIn(q, n)) =
          IF q[n].k \in LoopKinds THEN Cardinality(LoopsIn(q, n - 1)) + 1
          ELSE IF q[n].k \in BoundaryKinds THEN 0 ELSE Cardinality(LoopsIn(q, n - 1))
    BY <1>1, LoopsCount
  <2> QED  BY <1>2, <2>1, <2>2
<1>7. \A K : Cardinality(FramesOf(t, K, n)) = Cardinality(FramesOf(s, K, n))
  <2> TAKE K
  <2>1. FramesOf(s, K, n - 1) = FramesOf(t, K, n - 1)
    BY <1>2
  <2> QED  BY <1>1, <1>a, <1>b, <2>1, FramesCount DEF f, Becomes
<1>8. /\ ConditionFrames(s, n) # {} <=> TestsCondition(f) \/ ConditionFrames(s, n - 1) # {}
      /\ ConditionFrames(t, n) # {} <=> TestsCondition(g) \/ ConditionFrames(s, n - 1) # {}
  BY <1>1, <1>a, <1>2, ConditionFramesStep DEF f
<1>9. Tracks(t, e)
  BY <1>a, <1>3, <1>6, <1>7, <1>8, <1>b DEF Tracks, Becomes, SavedAt, f, n
<1>10. SavedAt(t, n)
  BY <1>a, <1>2, <1>3, <1>8, <1>b DEF Tracks, Becomes, SavedAt, f, n
<1>11. \A i \in 1 .. Len(t) : SavedAt(t, i)
  BY <1>1, <1>a, <1>5, <1>10
<1> QED  BY <1>9, <1>11 DEF Counts, t, n

-----------------------------------------------------------------------------
(* Types.                                                                  *)

\* The state a call of Bash.exec begins with has its type.
LEMMA FreshTyped == Fresh \in ShellState
  BY LimitsAssumption, DataAssumption DEF Fresh, ShellState, Status

\* A frame just entered has its type.
LEMMA FrameTyped ==
  ASSUME NEW k \in Kinds, NEW ph \in Phases
  PROVE  Frame(k, ph) \in FrameState
  BY FreshTyped DEF Frame, FrameState, Status

\* Each form of the control word has its type.
LEMMA ResultsTyped ==
  /\ Run \in ControlState
  /\ \A c \in Status, by \in Makers : Result(c, by) \in ControlState
  /\ \A e \in Errors, lv \in Nat, c \in Status : Thrown(e, lv, c) \in ControlState
  /\ \A t \in {"resolved", "rejected"} : Finished(t) \in ControlState
  BY DEF Run, Result, Thrown, Finished, ControlState, Status, Makers

\* The results and the errors that the actions name have their types.
LEMMA OutcomesTyped ==
  /\ \A c \in Status, by \in Makers : Result(c, by) \in ControlState
  /\ \A c \in Status : Result(c, "inner") \in ControlState
  /\ Result(0, "inner") \in ControlState /\ Result(1, "inner") \in ControlState
  /\ \A e \in Errors, c \in Status : Thrown(e, 0, c) \in ControlState
  /\ \A e \in {"limit", "parse", "subexit", "exit"} : Thrown(e, 0, 1) \in ControlState
  /\ \A e \in {"return", "exit", "errexit"}, c \in Status : Thrown(e, 0, c) \in ControlState
  /\ Thrown("subexit", 0, 0) \in ControlState
  /\ \A e \in Expansion : Thrown(e, 0, 1) \in ControlState
<1>1. {"limit", "parse", "subexit", "exit", "return", "errexit"} \cup Expansion \subseteq Errors
  BY DEF Errors, ScopeExits
<1>2. 0 \in Status /\ 1 \in Status /\ "inner" \in Makers
  BY DEF Status, Makers
<1> QED  BY <1>1, <1>2, ResultsTyped

\* The types of the top frame, of the control word and of their fields.
LEMMA Typed ==
  ASSUME TypeOK, stack # <<>>
  PROVE  /\ stack \in Seq(FrameState) /\ Len(stack) \in Nat \ {0}
         /\ Top \in FrameState /\ Below \in Seq(FrameState)
         /\ Len(Below) = Len(stack) - 1
         /\ \A i \in 1 .. Len(stack) - 1 : Below[i] = stack[i]
         /\ Top.k \in Kinds /\ Top.ph \in Phases /\ Top.n \in Nat /\ Top.m \in Nat
         /\ Top.code \in Status /\ Top.aux \in Nat /\ Top.flag \in BOOLEAN
         /\ Top.sv \in ShellState
         /\ ctl \in ControlState /\ ctl.e \in Errors \cup {"none"} /\ ctl.lv \in Nat
         /\ ctl.code \in Status /\ ctl.by \in Makers
         /\ sh \in ShellState
<1>1. stack \in Seq(FrameState) /\ ctl \in ControlState /\ sh \in ShellState
  BY DEF TypeOK
<1>2. /\ Len(stack) \in Nat \ {0} /\ Top \in FrameState /\ Below \in Seq(FrameState)
      /\ Len(Below) = Len(stack) - 1
      /\ \A i \in 1 .. Len(stack) - 1 : Below[i] = stack[i]
  BY <1>1, AllButLast DEF Top, Below
<1>3. /\ Top.k \in Kinds /\ Top.ph \in Phases /\ Top.n \in Nat /\ Top.m \in Nat
      /\ Top.code \in Status /\ Top.aux \in Nat /\ Top.flag \in BOOLEAN
      /\ Top.sv \in ShellState
  BY <1>2 DEF FrameState
<1>4. /\ ctl.e \in Errors \cup {"none"} /\ ctl.lv \in Nat
      /\ ctl.code \in Status /\ ctl.by \in Makers
  BY <1>1 DEF ControlState
<1> QED  BY <1>1, <1>2, <1>3, <1>4

-----------------------------------------------------------------------------
(* The inductive invariant, and what each move of the machine does to it.  *)

\* The types, and the counts that the depths of sh and of the saved states are.
IInv == TypeOK /\ Counts(stack, sh)

\* Two states of the shell with the same depths.
SameDepths(d, e) ==
  /\ e.loopDepth = d.loopDepth /\ e.callDepth = d.callDepth /\ e.scopes = d.scopes
  /\ e.sourceDepth = d.sourceDepth /\ e.substDepth = d.substDepth
  /\ e.inCondition <=> d.inCondition

\* The kinds of frame that count for no depth.
Neutral == {"script", "list", "if", "case", "group", "simple", "stmt", "pipe", "eval"}

\* The invariant in the next state speaks of the next state.
LEMMA CountsNext ==
  ASSUME Counts(stack', sh')
  PROVE  Counts(stack, sh)'
  BY DEF Counts, Tracks, SavedAt, LoopsIn, FramesOf, ConditionFrames, TestsCondition,
         BoundaryKinds, LoopKinds

\* A push, a pop or an update of the top, in the general case.
LEMMA Pushes ==
  ASSUME IInv, NEW f \in FrameState, stack' = Append(stack, f), Enters(f, sh, sh'),
         sh' \in ShellState, ctl' \in ControlState
  PROVE  IInv'
<1>1. stack \in Seq(FrameState) /\ Counts(stack, sh)
  BY DEF IInv, TypeOK
<1>2. Counts(Append(stack, f), sh')
  BY <1>1, Pushed
<1>3. Counts(stack, sh)'
  BY <1>2, CountsNext
<1> QED  BY <1>1, <1>3 DEF IInv, TypeOK

\* Leaving a function whose depths are given back keeps the invariant.
LEMMA Pops ==
  ASSUME IInv, stack # <<>>, stack' = Below, Leaves(Top, sh, sh'),
         sh' \in ShellState, ctl' \in ControlState
  PROVE  IInv'
<1>1. stack \in Seq(FrameState) /\ Counts(stack, sh) /\ Below \in Seq(FrameState)
  BY Typed DEF IInv, TypeOK
<1>2. Counts(Below, sh')
  BY <1>1, Popped DEF Top, Below
<1>3. Counts(stack, sh)'
  BY <1>2, CountsNext
<1> QED  BY <1>1, <1>3 DEF IInv, TypeOK

\* Going on inside a function keeps the invariant.
LEMMA Updates ==
  ASSUME IInv, stack # <<>>, NEW g \in FrameState, stack' = Update(g),
         Becomes(Top, g, sh, sh'), sh' \in ShellState, ctl' \in ControlState
  PROVE  IInv'
<1>1. stack \in Seq(FrameState) /\ Counts(stack, sh)
  BY DEF IInv, TypeOK
<1>2. Counts(Update(g), sh')
  BY <1>1, Updated DEF Top, Update
<1>3. Counts(stack, sh)'
  BY <1>2, CountsNext
<1>4. Update(g) \in Seq(FrameState)
  BY <1>1 DEF Update
<1> QED  BY <1>1, <1>3, <1>4 DEF IInv, TypeOK

\* A call from inside a function keeps the invariant.
LEMMA UpdatesAndPushes ==
  ASSUME IInv, stack # <<>>, NEW g \in FrameState, NEW f \in FrameState,
         stack' = Append(Update(g), f),
         Becomes(Top, g, sh, sh), Enters(f, sh, sh'), sh' \in ShellState,
         ctl' \in ControlState
  PROVE  IInv'
<1>1. stack \in Seq(FrameState) /\ Counts(stack, sh)
  BY DEF IInv, TypeOK
<1>2. Counts(Update(g), sh)
  BY <1>1, Updated DEF Top, Update
<1>3. Update(g) \in Seq(FrameState)
  BY <1>1 DEF Update
<1>4. Counts(Append(Update(g), f), sh')
  BY <1>2, <1>3, Pushed
<1>5. Counts(stack, sh)'
  BY <1>4, CountsNext
<1> QED  BY <1>3, <1>5 DEF IInv, TypeOK

\* A step that moves no frame and no depth keeps the invariant.
LEMMA Keeps ==
  ASSUME IInv, stack' = stack, SameDepths(sh, sh'), sh' \in ShellState,
         ctl' \in ControlState
  PROVE  IInv'
<1>1. Counts(stack, sh')
  BY DEF IInv, Counts, Tracks, SameDepths
<1>2. Counts(stack, sh)'
  BY <1>1, CountsNext
<1> QED  BY <1>2 DEF IInv, TypeOK

\* The same for frames that count for no depth.
LEMMA NeutralPush ==
  ASSUME IInv, NEW f \in FrameState, f.k \in Neutral, stack' = Append(stack, f),
         SameDepths(sh, sh'), sh' \in ShellState, ctl' \in ControlState
  PROVE  IInv'
<1>1. Enters(f, sh, sh')
  BY DEF Enters, SameDepths, Neutral, LoopKinds, BoundaryKinds
<1> QED  BY <1>1, Pushes

\* Leaving a frame that counts for no depth.
LEMMA NeutralPop ==
  ASSUME IInv, stack # <<>>, Top.k \in Neutral, stack' = Below,
         SameDepths(sh, sh'), sh' \in ShellState, ctl' \in ControlState
  PROVE  IInv'
<1>1. Leaves(Top, sh, sh')
  BY DEF Leaves, SameDepths, Neutral, LoopKinds, BoundaryKinds, TestsCondition
<1> QED  BY <1>1, Pops

\* Going on in a frame without entering or leaving a condition.
LEMMA NeutralUpdate ==
  ASSUME IInv, stack # <<>>, NEW g \in FrameState, stack' = Update(g), g.k = Top.k,
         g.sv = Top.sv \/ Top.k \in Neutral, Top.ph = g.ph \/ Top.k # "while",
         Top.k \in Neutral => g.sv.loopDepth = Top.sv.loopDepth
                            /\ g.sv.scopes = Top.sv.scopes
                            /\ g.sv.substDepth = Top.sv.substDepth,
         SameDepths(sh, sh'), sh' \in ShellState, ctl' \in ControlState
  PROVE  IInv'
<1>0. Counts(stack, sh) /\ stack \in Seq(FrameState) /\ Len(stack) \in Nat \ {0}
  BY Typed DEF IInv
<1>1. TestsCondition(Top) => sh.inCondition
  BY <1>0, ConditionFramesStep DEF Counts, Tracks, Top
<1>2. TestsCondition(g) <=> TestsCondition(Top)
  BY DEF TestsCondition
<1>3. Becomes(Top, g, sh, sh')
  BY <1>1, <1>2 DEF Becomes, SameDepths, Neutral, TestsCondition
<1> QED  BY <1>3, Updates

\* A call from a frame that counts for no depth.
LEMMA NeutralUpdateAndPush ==
  ASSUME IInv, stack # <<>>, NEW g \in FrameState, NEW f \in FrameState,
         stack' = Append(Update(g), f), Top.k \in Neutral, g.k = Top.k,
         g.sv.loopDepth = Top.sv.loopDepth, g.sv.scopes = Top.sv.scopes,
         g.sv.substDepth = Top.sv.substDepth,
         Enters(f, sh, sh'), sh' \in ShellState, ctl' \in ControlState
  PROVE  IInv'
<1>1. Becomes(Top, g, sh, sh)
  BY DEF Becomes, Neutral, TestsCondition
<1> QED  BY <1>1, UpdatesAndPushes

\* A frame that counts for a depth makes it positive, so leaving the frame
\* leaves a natural number.
LEMMA Positive ==
  ASSUME IInv, stack # <<>>
  PROVE  /\ Top.k \in LoopKinds => sh.loopDepth - 1 \in Nat
         /\ Top.k = "call" => sh.callDepth - 1 \in Nat /\ sh.scopes - 1 \in Nat
         /\ Top.k = "source" => sh.sourceDepth - 1 \in Nat
         /\ TestsCondition(Top) => sh.inCondition
<1> DEFINE n == Len(stack)
<1>1. Tracks(stack, sh) /\ n \in Nat /\ n > 0 /\ n - 1 \in Nat
  BY Typed DEF IInv, Counts
<1>2. Cardinality(LoopsIn(stack, n - 1)) \in Nat
  BY <1>1, LoopsCount
<1>3. Top.k \in LoopKinds => sh.loopDepth = Cardinality(LoopsIn(stack, n - 1)) + 1
  BY <1>1, LoopsCount DEF Top, Tracks
<1>4. \A K : Cardinality(FramesOf(stack, K, n - 1)) \in Nat
  BY <1>1, FramesCount
<1>5. \A K : Top.k \in K => Cardinality(FramesOf(stack, K, n)) =
                                Cardinality(FramesOf(stack, K, n - 1)) + 1
  BY <1>1, FramesCount DEF Top
<1>6. TestsCondition(Top) => sh.inCondition
  BY <1>1, ConditionFramesStep DEF Top, Tracks
<1> HIDE DEF n
<1>7. Top.k = "call" => sh.callDepth - 1 \in Nat /\ sh.scopes - 1 \in Nat
  <2> DEFINE c == Cardinality(FramesOf(stack, {"call"}, n - 1))
  <2>1. c \in Nat /\ (Top.k = "call" => Cardinality(FramesOf(stack, {"call"}, n)) = c + 1)
    BY <1>4, <1>5
  <2>2. Top.k = "call" => CallsHold(sh.callDepth, c + 1) /\ CallsHold(sh.scopes, c + 1)
    BY <1>1, <2>1 DEF Tracks, n
  <2> HIDE DEF c
  <2> QED  BY <2>1, <2>2 DEF CallsHold
<1>8. Top.k = "source" => sh.sourceDepth = Cardinality(FramesOf(stack, {"source"}, n - 1)) + 1
  BY <1>1, <1>5 DEF Tracks, n
<1> QED  BY <1>2, <1>3, <1>4, <1>6, <1>7, <1>8
-----------------------------------------------------------------------------
(* The actions.                                                            *)

\* Every frame that a call pushes has its type.
LEMMA Listed ==
  /\ "for" \in Kinds /\ "while" \in Kinds /\ "until" \in Kinds /\ "subshell" \in Kinds
  /\ "ush" \in Kinds /\ "eval" \in Kinds /\ "source" \in Kinds /\ "subst" \in Kinds
  /\ "script" \in Kinds /\ "list" \in Kinds /\ "cond" \in Kinds /\ "if" \in Kinds
  /\ "case" \in Kinds /\ "group" \in Kinds /\ "call" \in Kinds /\ "simple" \in Kinds
  /\ "stmt" \in Kinds /\ "pipe" \in Kinds
  /\ "" \in Phases /\ "next" \in Phases /\ "cond" \in Phases /\ "body" \in Phases
  /\ "value" \in Phases /\ "words" \in Phases /\ "run" \in Phases /\ "own" \in Phases
  BY DEF Kinds, LoopKinds, BoundaryKinds, ScriptUsers, Phases, Makers

\* The frames that the actions push, one by one.
LEMMA PushedTyped ==
  /\ Frame("stmt", "own") \in FrameState
  /\ Frame("pipe", "") \in FrameState
  /\ Frame("if", "cond") \in FrameState
  /\ Frame("case", "next") \in FrameState
  /\ Frame("group", "") \in FrameState
  /\ Frame("list", "") \in FrameState
  /\ Frame("cond", "") \in FrameState
  /\ Frame("subshell", "") \in FrameState
  /\ Frame("for", "next") \in FrameState
  /\ Frame("while", "next") \in FrameState
  /\ Frame("until", "next") \in FrameState
  /\ Frame("simple", "value") \in FrameState
  /\ Frame("simple", "words") \in FrameState
  /\ Frame("subst", "") \in FrameState
  /\ Frame("call", "") \in FrameState
  /\ Frame("eval", "") \in FrameState
  /\ Frame("source", "") \in FrameState
  /\ Frame("script", "") \in FrameState
  BY Zenon, Listed, FrameTyped

\* The fields of a frame just entered.
LEMMA FrameFields ==
  \A k, ph : Frame(k, ph).k = k /\ Frame(k, ph).ph = ph /\ Frame(k, ph).sv = Fresh
  BY DEF Frame

\* The frames just entered that change no depth.
LEMMA NeutralPushed ==
  /\ Frame("case", "next") \in FrameState /\ Frame("case", "next").k \in Neutral
  /\ Frame("group", "") \in FrameState /\ Frame("group", "").k \in Neutral
  /\ Frame("if", "cond") \in FrameState /\ Frame("if", "cond").k \in Neutral
  /\ Frame("list", "") \in FrameState /\ Frame("list", "").k \in Neutral
  /\ Frame("script", "") \in FrameState /\ Frame("script", "").k \in Neutral
  /\ Frame("stmt", "own") \in FrameState /\ Frame("stmt", "own").k \in Neutral
<1>1. /\ Frame("case", "next").k = "case"
      /\ Frame("group", "").k = "group"
      /\ Frame("if", "cond").k = "if"
      /\ Frame("list", "").k = "list"
      /\ Frame("script", "").k = "script"
      /\ Frame("stmt", "own").k = "stmt"
  BY Zenon, FrameFields
<1>2. /\ "case" \in Neutral
      /\ "group" \in Neutral
      /\ "if" \in Neutral
      /\ "list" \in Neutral
      /\ "script" \in Neutral
      /\ "stmt" \in Neutral
  BY DEF Neutral
<1> QED  BY Zenon, <1>1, <1>2, PushedTyped

\* The actions of statement lists, scripts and conditions keep the invariant.
LEMMA ListsKeep ==
  ASSUME IInv, Lists
  PROVE  IInv'
<1>1. CASE ExecuteStatement
  <2>1. Counted \in Nat /\ stack # <<>> /\ sh \in ShellState
    BY <1>1, Typed DEF ExecuteStatement, IInv, Counted, ShellState
  <2>2. CASE stack' = stack /\ sh' = [sh EXCEPT !.count = Counted]
    <3>1. SameDepths(sh, sh') /\ sh' \in ShellState
      BY <2>1, <2>2 DEF SameDepths, ShellState
    <3>2. ctl' \in ControlState
      BY <1>1, OutcomesTyped, ResultsTyped DEF ExecuteStatement, ThrowHere, Call
    <3> QED  BY <2>2, <3>1, <3>2, Keeps
  <2>3. CASE /\ Call(Frame("stmt", "own"))
             /\ sh' = [sh EXCEPT !.count = Counted, !.errexitSafe = FALSE]
    <3>1. SameDepths(sh, sh') /\ sh' \in ShellState
      BY <2>1, <2>3 DEF SameDepths, ShellState
    <3>2. ctl' \in ControlState
      BY <2>3, ResultsTyped DEF Call
    <3>3. Frame("stmt", "own") \in FrameState /\ Frame("stmt", "own").k \in Neutral
      BY Zenon, NeutralPushed
    <3>4. stack' = Append(stack, Frame("stmt", "own"))
      BY <2>3 DEF Call
    <3> QED  BY <3>1, <3>2, <3>3, <3>4, NeutralPush
  <2> QED  BY <1>1, <2>2, <2>3 DEF ExecuteStatement, ThrowHere
<1>2. CASE StatementReturned
  <2> USE <1>2 DEF StatementReturned
  <2>1. /\ stack # <<>> /\ sh \in ShellState /\ Top \in FrameState
        /\ ctl.code \in Status /\ ctl.code \in Nat
    BY Typed DEF IInv, Status
  <2>2. SameDepths(sh, sh') /\ sh' \in ShellState /\ ctl' \in ControlState
    BY <2>1, ResultsTyped DEF SameDepths, ShellState, Stay
  <2>3. CASE stack' = Update([Top EXCEPT !.aux = ctl.code, !.flag = TRUE])
    BY <2>1, <2>2, <2>3, NeutralUpdate DEF FrameState
  <2>4. CASE stack' = Update([Top EXCEPT !.code = ctl.code, !.flag = TRUE])
    BY <2>1, <2>2, <2>4, NeutralUpdate DEF FrameState
  <2> QED  BY <2>3, <2>4 DEF Stay
<1>3. CASE ScriptEnds \/ ListEnds
  <2>1. stack # <<>> /\ Top.k \in Neutral /\ stack' = Below /\ sh' = sh
    BY <1>3 DEF ScriptEnds, ListEnds, Running, Return, Neutral
  <2>2. sh \in ShellState /\ Top.code \in Status
    BY <2>1, Typed DEF IInv
  <2>3. ctl' \in ControlState
    BY <1>3, <2>2, ResultsTyped DEF ScriptEnds, ListEnds, Return, Makers
  <2> QED  BY <2>1, <2>2, <2>3, NeutralPop DEF SameDepths
<1>4. CASE ScriptCatches
  <2>1. stack # <<>> /\ Top.k \in Neutral /\ Top.k # "while"
    BY <1>4 DEF ScriptCatches, Throwing, Neutral
  <2>2. /\ sh \in ShellState /\ Top \in FrameState /\ ctl \in ControlState
        /\ ctl.code \in Status
    BY <2>1, Typed DEF IInv
  <2>3. SameDepths(sh, sh') /\ sh' \in ShellState /\ ctl' \in ControlState
    BY <1>4, <2>2, ResultsTyped
    DEF ScriptCatches, SameDepths, ShellState, Rethrow, Return, Stay, Status, Makers
  <2>4. CASE stack' = Below
    BY <2>1, <2>3, <2>4, NeutralPop
  <2>5. CASE \E g \in FrameState : g.k = Top.k /\ g.sv = Top.sv /\ stack' = Update(g)
    BY <2>1, <2>3, <2>5, NeutralUpdate
  <2>6. CASE stack' = Update([Top EXCEPT !.code = 1])
    BY <2>2, <2>5, <2>6 DEF FrameState, Status
  <2>7. CASE stack' = Update(Top)
    BY <2>2, <2>5, <2>7
  <2> QED  BY <1>4, <2>4, <2>6, <2>7 DEF ScriptCatches, Rethrow, Return, Stay
<1>5. CASE ListCatches
  <2>1. stack # <<>> /\ Top.k \in Neutral /\ stack' = Below /\ sh' = sh
    BY <1>5 DEF ListCatches, Throwing, Return, Rethrow, Neutral
  <2>2. sh \in ShellState /\ ctl \in ControlState
    BY <2>1, Typed DEF IInv
  <2>3. ctl' \in ControlState
    BY <1>5, <2>2, ResultsTyped DEF ListCatches, Return, Rethrow, Makers, Status
  <2> QED  BY <2>1, <2>2, <2>3, NeutralPop DEF SameDepths
<1>6. CASE ConditionLeaves
  <2>1. stack # <<>> /\ Top.k = "cond" /\ stack' = Below
    BY <1>6 DEF ConditionLeaves, Running, Throwing, Return, Rethrow
  <2>2. /\ sh \in ShellState /\ ctl \in ControlState /\ Top.code \in Status
        /\ Top.sv \in ShellState
    BY <2>1, Typed DEF IInv
  <2>3. ctl' \in ControlState
    BY <1>6, <2>2, ResultsTyped DEF ConditionLeaves, Return, Rethrow, Makers
  <2>4. sh' \in ShellState /\ Leaves(Top, sh, sh')
    BY <1>6, <2>1, <2>2
    DEF ConditionLeaves, ShellState, Leaves, TestsCondition, LoopKinds, BoundaryKinds
  <2> QED  BY <2>1, <2>3, <2>4, Pops
<1> QED  BY <1>1, <1>2, <1>3, <1>4, <1>5, <1>6 DEF Lists
\* What the macros of the actions do: a pop with a result, an error on its way
\* up, a call from a frame, from a pipeline and from a simple command.
LEMMA NeutralRethrow ==
  ASSUME IInv, stack # <<>>, Top.k \in Neutral, Rethrow,
         SameDepths(sh, sh'), sh' \in ShellState
  PROVE  IInv'
<1>1. stack' = Below /\ ctl' \in ControlState
  BY Typed DEF IInv, Rethrow
<1> QED  BY <1>1, NeutralPop

\* A frame that counts for no depth returns a status.
LEMMA NeutralReturn ==
  ASSUME IInv, stack # <<>>, Top.k \in Neutral, NEW c \in Status, Return(c),
         SameDepths(sh, sh'), sh' \in ShellState
  PROVE  IInv'
<1>1. stack' = Below /\ ctl' \in ControlState
  BY OutcomesTyped DEF Return
<1> QED  BY <1>1, NeutralPop

\* A frame that counts for no depth goes on.
LEMMA NeutralStay ==
  ASSUME IInv, stack # <<>>, Top.k \in Neutral, NEW g \in FrameState, Stay(g),
         g.k = Top.k, g.sv = Top.sv, SameDepths(sh, sh'), sh' \in ShellState
  PROVE  IInv'
<1>1. stack' = Update(g) /\ ctl' \in ControlState
  BY ResultsTyped DEF Stay
<1>2. Top.k # "while"
  BY DEF Neutral
<1> QED  BY <1>1, <1>2, NeutralUpdate

\* A frame that counts for no depth calls another.
LEMMA NeutralCallFrom ==
  ASSUME IInv, stack # <<>>, Top.k \in Neutral, NEW g \in FrameState,
         NEW f \in FrameState, CallFrom(g, f), g.k = Top.k, g.sv = Top.sv,
         Enters(f, sh, sh'), sh' \in ShellState
  PROVE  IInv'
<1>1. stack' = Append(Update(g), f) /\ ctl' \in ControlState
  BY ResultsTyped DEF CallFrom
<1> QED  BY <1>1, NeutralUpdateAndPush

\* Such a call leaves every depth as it was.
LEMMA NeutralEnters ==
  ASSUME NEW f, f.k \in Neutral, SameDepths(sh, sh')
  PROVE  Enters(f, sh, sh')
  BY DEF Enters, SameDepths, Neutral, LoopKinds, BoundaryKinds

\* The pipeline frame that is about to run its next command.
LEMMA SegmentTyped ==
  ASSUME IInv, stack # <<>>
  PROVE  /\ Segment \in FrameState /\ Segment.k = Top.k
         /\ Segment.sv.loopDepth = Top.sv.loopDepth
         /\ Segment.sv.scopes = Top.sv.scopes
         /\ Segment.sv.substDepth = Top.sv.substDepth
<1>0. /\ Top \in FrameState /\ Top.sv \in ShellState /\ Top.n \in Nat
      /\ sh \in ShellState
  BY Typed DEF IInv
<1>1. Top \in FrameState /\ Top.sv \in ShellState /\ Top.n + 1 \in Nat /\ sh.env \in Values
  BY SMTT(30), <1>0 DEF ShellState
<1> DEFINE v == [Top.sv EXCEPT !.env = sh.env]
<1>2. /\ v \in ShellState /\ v.loopDepth = Top.sv.loopDepth
      /\ v.scopes = Top.sv.scopes /\ v.substDepth = Top.sv.substDepth
  BY <1>1 DEF ShellState
<1>3. Segment = [Top EXCEPT !.n = Top.n + 1, !.sv = v]
  BY <1>1 DEF Segment, FrameState
<1> HIDE DEF v
<1>4. Segment \in FrameState /\ Segment.k = Top.k /\ Segment.sv = v
  BY <1>1, <1>2, <1>3 DEF FrameState
<1> QED  BY <1>2, <1>4

\* A pipeline starts a command that enters some depth.
LEMMA Starts ==
  ASSUME IInv, Running({"pipe"}), NEW f \in FrameState, Start(f),
         Enters(f, sh, sh'), sh' \in ShellState
  PROVE  IInv'
<1>1. stack # <<>> /\ Top.k \in Neutral
  BY DEF Running, Neutral
<1>2. stack' = Append(Update(Segment), f) /\ ctl' \in ControlState
  BY ResultsTyped DEF Start, CallFrom
<1> QED  BY <1>1, <1>2, SegmentTyped, NeutralUpdateAndPush

\* A pipeline starts a command that counts for no depth.
LEMMA NeutralStarts ==
  ASSUME IInv, Running({"pipe"}), NEW f \in FrameState, f.k \in Neutral, Start(f),
         SameDepths(sh, sh'), sh' \in ShellState
  PROVE  IInv'
  BY Starts, NeutralEnters

\* The actions of statements and pipelines keep the invariant.
LEMMA StatementsKeep ==
  ASSUME IInv, Statements
  PROVE  IInv'
<1>1. CASE NextPipeline
  <2>1. stack # <<>> /\ Top.k \in Neutral /\ sh' = sh
    BY Zenon, <1>1 DEF NextPipeline, Running, Neutral
  <2>2. Top \in FrameState /\ Top.n + 1 \in Nat /\ sh \in ShellState
    BY <2>1, Typed DEF IInv
  <2>3. CASE Stay([Top EXCEPT !.n = @ + 1])
    <3>1. /\ [Top EXCEPT !.n = @ + 1] \in FrameState
          /\ [Top EXCEPT !.n = @ + 1].k = Top.k /\ [Top EXCEPT !.n = @ + 1].sv = Top.sv
      BY <2>2 DEF FrameState
    <3> QED  BY <2>1, <2>2, <2>3, <3>1, NeutralStay DEF SameDepths
  <2>4. ASSUME NEW negated \in BOOLEAN, NEW commands \in Nat,
               CallFrom([Top EXCEPT !.n = @ + 1, !.flag = negated],
                        [Frame("pipe", "") EXCEPT !.m = commands, !.flag = negated])
        PROVE  IInv'
    <3> DEFINE g == [Top EXCEPT !.n = @ + 1, !.flag = negated]
               f == [Frame("pipe", "") EXCEPT !.m = commands, !.flag = negated]
    <3>1. g \in FrameState /\ g.k = Top.k /\ g.sv = Top.sv
      BY <2>2 DEF FrameState
    <3>2. Frame("pipe", "") \in FrameState /\ Frame("pipe", "").k = "pipe"
      BY Zenon, PushedTyped, FrameFields
    <3>3. f \in FrameState /\ f.k \in Neutral
      BY Zenon, <3>2 DEF FrameState, Neutral
    <3>4. CallFrom(g, f)
      BY <2>4
    <3> HIDE DEF g, f
    <3>5. Enters(f, sh, sh')
      BY <2>1, <3>3, NeutralEnters DEF SameDepths
    <3> QED  BY <2>1, <2>2, <3>1, <3>3, <3>4, <3>5, NeutralCallFrom
  <2>5. \A c \in 1 .. (IF "pipe" \in Forms THEN MaxSegments ELSE 1) : c \in Nat
    BY BoundsAssumption
  <2>6. \A n \in {FALSE} \cup (IF "not" \in Forms THEN {TRUE} ELSE {}) : n \in BOOLEAN
    OBVIOUS
  <2> QED  BY Zenon, <1>1, <2>3, <2>4, <2>5, <2>6 DEF NextPipeline
<1>2. CASE PipelineReturned
  <2>1. stack # <<>> /\ Top.k \in Neutral
    BY <1>2 DEF PipelineReturned, Returned, Neutral
  <2>2. /\ Top \in FrameState /\ Top.n \in Nat /\ sh \in ShellState /\ ctl.code \in Status
        /\ ctl.by \in Phases /\ "mixed" \in Phases
    BY Zenon, <2>1, Typed DEF IInv, Phases, Makers
  <2>3. SameDepths(sh, sh') /\ sh' \in ShellState
    BY <1>2, <2>2 DEF PipelineReturned, SameDepths, ShellState
  <2> DEFINE p == IF Top.ph = "own" \/ ctl.by # "own" THEN ctl.by ELSE "mixed"
             g == [Top EXCEPT !.code = ctl.code, !.aux = Top.n, !.ph = p]
  <2>4. p \in Phases
    BY <2>2
  <2>5. Stay(g)
    BY <1>2 DEF PipelineReturned
  <2> HIDE DEF p
  <2>6. g \in FrameState /\ g.k = Top.k /\ g.sv = Top.sv
    BY <2>2, <2>4 DEF FrameState
  <2> QED  BY <2>1, <2>3, <2>5, <2>6, NeutralStay
<1>3. CASE StatementEnds
  <2>1. stack # <<>> /\ Top.k \in Neutral /\ stack' = Below
    BY <1>3 DEF StatementEnds, Running, Neutral, Throw, Return
  <2>2. sh \in ShellState /\ Top.code \in Status /\ Top.flag \in BOOLEAN
    BY <2>1, Typed DEF IInv
  <2>3. ctl' \in ControlState
    BY <1>3, <2>2, OutcomesTyped DEF StatementEnds, Throw, Return
  <2>4. \E b \in BOOLEAN : sh' = [sh EXCEPT !.errexitSafe = b]
    <3>1. sh.errexitSafe \in BOOLEAN
      BY <2>2 DEF ShellState
    <3>2. ((Top.aux < Top.n) \/ Top.flag \/ sh.errexitSafe) \in BOOLEAN
      OBVIOUS
    <3>3. sh' = [sh EXCEPT !.errexitSafe = ((Top.aux < Top.n) \/ Top.flag \/ @)]
      BY <1>3 DEF StatementEnds
    <3> QED  BY <3>2, <3>3
  <2>5. SameDepths(sh, sh') /\ sh' \in ShellState
    BY <2>2, <2>4 DEF SameDepths, ShellState
  <2> QED  BY <2>1, <2>3, <2>5, NeutralPop
<1>4. CASE StatementThrows
  <2>1. stack # <<>> /\ Top.k \in Neutral /\ Rethrow /\ sh' = sh
    BY <1>4 DEF StatementThrows, Throwing, Neutral
  <2> QED  BY <2>1, Typed, NeutralRethrow DEF SameDepths, IInv
<1>5. ASSUME NEW c \in Status, stack # <<>>, Top.k = "pipe", CollectSegment(c)
      PROVE  IInv'
  <2>1. /\ Top \in FrameState /\ Top.code \in Status /\ sh \in ShellState
        /\ Top.sv.env \in Values /\ ctl.by \in Makers
    BY <1>5, Typed DEF IInv, ShellState
  <2>2. SameDepths(sh, sh') /\ sh' \in ShellState
    BY <1>5, <2>1 DEF CollectSegment, SameDepths, ShellState
  <2> DEFINE pf   == IF c # 0 THEN c ELSE Top.code
             last == IF sh.pipefail /\ pf # 0 THEN pf ELSE c
             neg  == IF Top.flag THEN 1 - last ELSE last
  <2>3. pf \in Status
    BY <2>1 DEF Status
  <2>4. last \in Status
    BY <2>3
  <2>5. neg \in Status
    BY <2>4 DEF Status
  <2>6. Stay([Top EXCEPT !.code = pf]) \/ Forward(neg)
    BY <1>5 DEF CollectSegment
  <2> HIDE DEF pf, last, neg
  <2>7. CASE Stay([Top EXCEPT !.code = pf])
    <3>1. /\ [Top EXCEPT !.code = pf] \in FrameState
          /\ [Top EXCEPT !.code = pf].k = Top.k /\ [Top EXCEPT !.code = pf].sv = Top.sv
      BY <2>1, <2>3 DEF FrameState
    <3> QED  BY <1>5, <2>2, <2>7, <3>1, NeutralStay DEF Neutral
  <2>8. CASE Forward(neg)
    <3>1. \E by \in Makers : stack' = Below /\ ctl' = Result(neg, by)
      BY <2>1, <2>8 DEF Forward, Makers
    <3>2. ctl' \in ControlState
      BY <2>5, <3>1, OutcomesTyped
    <3> QED  BY <1>5, <2>2, <3>1, <3>2, NeutralPop DEF Neutral
  <2> QED  BY <2>6, <2>7, <2>8
<1>6. CASE SegmentReturned
  <2>1. stack # <<>> /\ Top.k = "pipe" /\ CollectSegment(ctl.code)
    BY <1>6 DEF SegmentReturned, Returned
  <2> QED  BY <1>5, <2>1, Typed DEF IInv
<1>7. CASE SegmentThrows
  <2>1. stack # <<>> /\ Top.k = "pipe"
    BY <1>7 DEF SegmentThrows, Throwing
  <2>2. sh \in ShellState /\ Top.sv.env \in Values /\ ctl.code \in Status /\ 1 \in Status
    BY <2>1, Typed DEF IInv, ShellState, Status
  <2>3. CASE CollectSegment(1) \/ CollectSegment(ctl.code)
    BY <1>5, <2>1, <2>2, <2>3
  <2>4. CASE /\ Rethrow
             /\ sh' = IF RunsInSubshell(Top) THEN [sh EXCEPT !.env = Top.sv.env] ELSE sh
    <3>1. SameDepths(sh, sh') /\ sh' \in ShellState
      BY <2>2, <2>4 DEF SameDepths, ShellState
    <3> QED  BY <2>1, <2>4, <3>1, NeutralRethrow DEF Neutral
  <2> QED  BY <1>7, <2>3, <2>4 DEF SegmentThrows
<1> QED  BY <1>1, <1>2, <1>3, <1>4, <1>6, <1>7 DEF Statements
\* The frames that save a part of the state, and the state inside them.
LEMMA ConditionEntered ==
  ASSUME IInv, stack # <<>>, sh' = [sh EXCEPT !.inCondition = TRUE]
  PROVE  Condition \in FrameState /\ Enters(Condition, sh, sh') /\ sh' \in ShellState
<1>1. sh \in ShellState /\ sh.inCondition \in BOOLEAN
  BY Typed DEF IInv, ShellState
<1> DEFINE v == [Fresh EXCEPT !.inCondition = sh.inCondition]
<1>2. v \in ShellState /\ v.inCondition = sh.inCondition
  BY <1>1, FreshTyped DEF ShellState
<1>3. /\ Frame("cond", "") \in FrameState /\ Frame("cond", "").k = "cond"
      /\ Frame("cond", "").sv = Fresh
  BY Zenon, PushedTyped, FrameFields
<1>4. Condition = [Frame("cond", "") EXCEPT !.sv = v]
  BY Zenon, <1>3 DEF Condition, FrameState
<1> HIDE DEF v
<1>5. Condition \in FrameState /\ Condition.k = "cond" /\ Condition.sv = v
  BY Zenon, <1>2, <1>3, <1>4 DEF FrameState
<1>6. sh' \in ShellState
  BY <1>1 DEF ShellState
<1>7. /\ sh'.loopDepth = sh.loopDepth /\ sh'.callDepth = sh.callDepth
      /\ sh'.scopes = sh.scopes /\ sh'.sourceDepth = sh.sourceDepth
      /\ sh'.substDepth = sh.substDepth /\ sh'.inCondition = TRUE
  BY <1>1 DEF ShellState
<1>8. Enters(Condition, sh, sh')
  BY <1>2, <1>5, <1>7 DEF Enters, LoopKinds, BoundaryKinds
<1> QED  BY <1>5, <1>6, <1>8

\* A subshell saves loopDepth and the scopes, and begins with loopDepth 0.
LEMMA SubshellEntered ==
  ASSUME IInv, stack # <<>>, sh' = InSubshell
  PROVE  /\ EnterSubshell \in FrameState /\ EnterSubshell.k = "subshell"
         /\ EnterSubshell.sv \in ShellState
         /\ EnterSubshell.sv.loopDepth = sh.loopDepth
         /\ Enters(EnterSubshell, sh, sh') /\ sh' \in ShellState
<1>1. sh \in ShellState /\ (sh.loopDepth > 0) \in BOOLEAN
  BY Typed DEF IInv
<1> DEFINE v == [sh EXCEPT !.count = Fresh.count,
     !.lastExit = 0, !.errexitSafe = FALSE, !.callDepth = 0,
     !.sourceDepth = 0, !.substDepth = 0, !.inCondition = FALSE]
<1>2. Fresh.count \in Nat /\ 0 \in Status
  BY FreshTyped DEF ShellState, Status
<1>3. v \in ShellState /\ v.loopDepth = sh.loopDepth /\ v.scopes = sh.scopes
  BY <1>1, <1>2 DEF ShellState
<1>4. Frame("subshell", "") \in FrameState /\ Frame("subshell", "").k = "subshell"
  BY Zenon, PushedTyped, FrameFields
<1>5. EnterSubshell = [Frame("subshell", "") EXCEPT !.sv = v]
  BY DEF EnterSubshell
<1> HIDE DEF v
<1>6. EnterSubshell \in FrameState /\ EnterSubshell.k = "subshell" /\ EnterSubshell.sv = v
  BY Zenon, <1>3, <1>4, <1>5 DEF FrameState
<1>7. /\ sh' \in ShellState /\ sh'.loopDepth = 0 /\ sh'.callDepth = sh.callDepth
      /\ sh'.scopes = sh.scopes /\ sh'.sourceDepth = sh.sourceDepth
      /\ sh'.substDepth = sh.substDepth /\ sh'.inCondition = sh.inCondition
  BY <1>1 DEF InSubshell, ShellState
<1>8. Enters(EnterSubshell, sh, sh')
  BY <1>3, <1>6, <1>7 DEF Enters, LoopKinds, BoundaryKinds
<1> QED  BY <1>3, <1>6, <1>7, <1>8

\* What a subshell restores has its type.
LEMMA Restored ==
  ASSUME NEW v \in ShellState, sh \in ShellState
  PROVE  /\ RestoreFrom(v) \in ShellState
         /\ RestoreFrom(v).loopDepth = v.loopDepth /\ RestoreFrom(v).scopes = v.scopes
         /\ RestoreFrom(v).callDepth = sh.callDepth
         /\ RestoreFrom(v).sourceDepth = sh.sourceDepth
         /\ RestoreFrom(v).substDepth = sh.substDepth
         /\ RestoreFrom(v).inCondition = sh.inCondition
  BY DEF RestoreFrom, ShellState

\* A subshell gives back the depths that it saved.
LEMMA SubshellLeft ==
  ASSUME IInv, stack # <<>>, Top.k = "subshell", stack' = Below,
         sh' = RestoreFrom(Top.sv), ctl' \in ControlState
  PROVE  IInv'
<1>1. sh \in ShellState /\ Top.sv \in ShellState
  BY Typed DEF IInv
<1>2. Leaves(Top, sh, sh')
  BY <1>1, Restored DEF Leaves, LoopKinds, BoundaryKinds, TestsCondition
<1> QED  BY <1>1, <1>2, Restored, Pops

\* The commands of a pipeline, and the words that fail before they start.
LEMMA CompoundsStart ==
  ASSUME IInv,
         EnterIf \/ EnterCase \/ EnterGroup \/ DefineFunction \/ CompoundFails \/ RunSubshell
  PROVE  IInv'
<1>0. Running({"pipe"}) /\ stack # <<>> /\ Top.k = "pipe"
  BY Zenon DEF EnterIf, EnterCase, EnterGroup, DefineFunction, CompoundFails, RunSubshell,
         Command, Running
<1>1. sh \in ShellState
  BY <1>0, Typed DEF IInv
<1>2. ASSUME NEW f \in FrameState, f.k \in Neutral, Start(f), sh' = sh
      PROVE  IInv'
  BY <1>0, <1>1, <1>2, NeutralStarts DEF SameDepths
<1>3. CASE EnterIf
  <2>1. Frame("if", "cond") \in FrameState /\ Frame("if", "cond").k \in Neutral
    BY Zenon, NeutralPushed
  <2> QED  BY <1>2, <1>3, <2>1 DEF EnterIf
<1>4. CASE EnterCase
  <2>1. Frame("case", "next") \in FrameState /\ Frame("case", "next").k \in Neutral
    BY Zenon, NeutralPushed
  <2> QED  BY <1>2, <1>4, <2>1 DEF EnterCase
<1>5. CASE EnterGroup
  <2>1. Frame("group", "") \in FrameState /\ Frame("group", "").k \in Neutral
    BY Zenon, NeutralPushed
  <2> QED  BY Zenon, <1>2, <1>5, <2>1 DEF EnterGroup
<1>6. ASSUME stack' = Update(Segment), ctl' \in ControlState, SameDepths(sh, sh'),
             sh' \in ShellState
      PROVE  IInv'
  BY <1>0, <1>6, SegmentTyped, NeutralUpdate DEF Neutral
<1>7. CASE DefineFunction
  <2>1. SameDepths(sh, sh') /\ sh' \in ShellState
    BY <1>1, <1>7 DEF DefineFunction, SameDepths, ShellState
  <2>2. ctl' \in ControlState
    BY <1>7, OutcomesTyped DEF DefineFunction, Status, Makers
  <2> QED  BY <1>6, <1>7, <2>1, <2>2 DEF DefineFunction
<1>8. CASE CompoundFails
  <2>1. ctl' \in ControlState
    BY <1>8, OutcomesTyped DEF CompoundFails, Status, Makers
  <2> QED  BY <1>1, <1>6, <1>8, <2>1 DEF CompoundFails, SameDepths
<1>9. CASE RunSubshell
  BY <1>0, <1>9, SubshellEntered, Starts DEF RunSubshell
<1> QED  BY <1>3, <1>4, <1>5, <1>7, <1>8, <1>9

\* The actions of compound commands keep the invariant.
LEMMA CompoundsKeep ==
  ASSUME IInv, Compounds
  PROVE  IInv'
<1>0. stack # <<>> /\ sh \in ShellState /\ Top.code \in Status /\ ctl.code \in Status
      /\ Top \in FrameState /\ ctl \in ControlState /\ 0 \in Status /\ 1 \in Status
  <2>1. stack # <<>>
    BY Zenon DEF Compounds, EnterIf, EnterCase, EnterGroup, DefineFunction, CompoundFails,
      EvaluateIfCondition, IfReturned, CaseItem, CaseReturned, BranchThrows, GroupEnds,
      GroupCatches, RunSubshell, SubshellEnds, SubshellCatches, Command, Running,
      Returned, Throwing
  <2> QED  BY <2>1, Typed DEF IInv, Status
<1>1. CASE EnterIf \/ EnterCase \/ EnterGroup \/ DefineFunction \/ CompoundFails \/ RunSubshell
  BY <1>1, CompoundsStart
<1>2. ASSUME Top.k \in Neutral, sh' = sh, NEW c \in Status, Return(c)
      PROVE  IInv'
  BY <1>0, <1>2, NeutralReturn DEF SameDepths
<1>3. ASSUME Top.k \in Neutral, sh' = sh, Rethrow
      PROVE  IInv'
  BY <1>0, <1>3, NeutralRethrow DEF SameDepths
<1>4. ASSUME Top.k \in Neutral, sh' = sh, Call(Frame("list", ""))
      PROVE  IInv'
  <2>1. Frame("list", "") \in FrameState /\ Frame("list", "").k \in Neutral
    BY Zenon, NeutralPushed
  <2>2. stack' = Append(stack, Frame("list", "")) /\ ctl' \in ControlState
    BY Zenon, <1>4, ResultsTyped DEF Call
  <2> QED  BY Zenon, <1>0, <1>4, <2>1, <2>2, NeutralPush DEF SameDepths
<1>5. CASE EvaluateIfCondition
  <2>1. stack' = Append(stack, Condition) /\ ctl' \in ControlState
    BY <1>5, ResultsTyped DEF EvaluateIfCondition, Call
  <2> QED  BY <1>0, <1>5, <2>1, ConditionEntered, Pushes DEF EvaluateIfCondition
<1>6. CASE IfReturned
  <2>1. Top.k \in Neutral /\ sh' = sh
    BY Zenon, <1>6 DEF IfReturned, Returned, Neutral
  <2>2. CASE Return(ctl.code) \/ Return(0)
    BY <1>0, <1>2, <2>1, <2>2
  <2>3. CASE Stay(Top)
    BY <1>0, <2>1, <2>3, NeutralStay DEF SameDepths
  <2>4. CASE CallFrom([Top EXCEPT !.ph = "body"], Frame("list", ""))
    <3> DEFINE g == [Top EXCEPT !.ph = "body"]
    <3>1. g \in FrameState /\ g.k = Top.k /\ g.sv = Top.sv
      BY Zenon, <1>0 DEF FrameState, Phases
    <3>2. Frame("list", "") \in FrameState /\ Frame("list", "").k \in Neutral
      BY Zenon, NeutralPushed
    <3>3. CallFrom(g, Frame("list", ""))
      BY Zenon, <2>4
    <3> HIDE DEF g
    <3>4. Enters(Frame("list", ""), sh, sh')
      BY Zenon, <2>1, <3>2, NeutralEnters DEF SameDepths
    <3> QED  BY Zenon, <1>0, <2>1, <3>1, <3>2, <3>3, <3>4, NeutralCallFrom
  <2> QED  BY Zenon, <1>6, <2>2, <2>3, <2>4 DEF IfReturned
<1>7. CASE CaseItem
  <2>1. Top.k \in Neutral /\ sh' = sh
    BY Zenon, <1>7 DEF CaseItem, Running, Neutral
  <2> QED  BY Zenon, <1>0, <1>2, <1>4, <1>7, <2>1 DEF CaseItem
<1>8. CASE CaseReturned
  <2>1. Top.k \in Neutral /\ sh' = sh
    BY <1>8 DEF CaseReturned, Returned, Neutral
  <2>2. CASE Return(ctl.code)
    BY <1>0, <1>2, <2>1, <2>2
  <2>3. CASE Stay([Top EXCEPT !.code = ctl.code])
    <3>1. /\ [Top EXCEPT !.code = ctl.code] \in FrameState
          /\ [Top EXCEPT !.code = ctl.code].k = Top.k
          /\ [Top EXCEPT !.code = ctl.code].sv = Top.sv
      BY <1>0 DEF FrameState
    <3> QED  BY <1>0, <2>1, <2>3, <3>1, NeutralStay DEF SameDepths
  <2> QED  BY <1>8, <2>2, <2>3 DEF CaseReturned
<1>9. CASE BranchThrows
  BY <1>3, <1>9 DEF BranchThrows, Throwing, Neutral
<1>10. CASE GroupEnds
  BY <1>0, <1>2, <1>10 DEF GroupEnds, Running, Neutral
<1>11. CASE GroupCatches
  <2>1. Top.k \in Neutral /\ sh' = sh /\ (Rethrow \/ Return(1))
    BY <1>11 DEF GroupCatches, Throwing, Neutral
  <2> QED  BY <1>0, <1>2, <1>3, <2>1
<1>12. CASE SubshellEnds \/ SubshellCatches
  <2>1. Top.k = "subshell" /\ stack' = Below /\ sh' = RestoreFrom(Top.sv)
    BY <1>12 DEF SubshellEnds, SubshellCatches, Running, Throwing, Return, Rethrow
  <2>2. ctl' \in ControlState
    BY <1>0, <1>12, OutcomesTyped DEF SubshellEnds, SubshellCatches, Return, Rethrow
  <2> QED  BY <1>0, <2>1, <2>2, SubshellLeft
<1> QED  BY <1>1, <1>5, <1>6, <1>7, <1>8, <1>9, <1>10, <1>11, <1>12 DEF Compounds
\* Loops: leaving one, with and without a condition in progress, and going on.
LEMMA LoopLeft ==
  ASSUME IInv, stack # <<>>, Top.k \in LoopKinds, ~TestsCondition(Top),
         stack' = Below, sh' = OutOfLoop, ctl' \in ControlState
  PROVE  IInv'
<1>1. sh \in ShellState /\ sh.loopDepth - 1 \in Nat
  BY Typed, Positive DEF IInv
<1>2. sh' \in ShellState /\ Leaves(Top, sh, sh')
  BY <1>1 DEF OutOfLoop, ShellState, Leaves, LoopKinds
<1> QED  BY <1>2, Pops

\* A while loop that ends in its condition leaves both.
LEMMA LoopLeftInCondition ==
  ASSUME IInv, stack # <<>>, Top.k = "while", Top.ph = "cond", stack' = Below,
         sh' = [[sh EXCEPT !.inCondition = Top.sv.inCondition] EXCEPT !.loopDepth = @ - 1],
         ctl' \in ControlState
  PROVE  IInv'
<1>1. sh \in ShellState /\ Top.sv.inCondition \in BOOLEAN
  BY Typed DEF IInv, ShellState
<1>2. sh.loopDepth - 1 \in Nat
  BY Positive DEF LoopKinds
<1> DEFINE d == [sh EXCEPT !.inCondition = Top.sv.inCondition]
<1>3. /\ d \in ShellState /\ d.loopDepth = sh.loopDepth /\ d.callDepth = sh.callDepth
      /\ d.scopes = sh.scopes /\ d.sourceDepth = sh.sourceDepth
      /\ d.substDepth = sh.substDepth /\ d.inCondition = Top.sv.inCondition
  BY <1>1 DEF ShellState
<1>4. sh' = [d EXCEPT !.loopDepth = @ - 1]
  OBVIOUS
<1> HIDE DEF d
<1>5. sh' \in ShellState /\ Leaves(Top, sh, sh')
  BY <1>2, <1>3, <1>4 DEF ShellState, Leaves, LoopKinds, TestsCondition
<1> QED  BY <1>5, Pops

\* A loop goes from its body to its next iteration.
LEMMA LoopGoesOn ==
  ASSUME IInv, stack # <<>>, Top.k \in LoopKinds, ~TestsCondition(Top),
         NEW g \in FrameState, g.k = Top.k, g.sv = Top.sv, ~TestsCondition(g),
         Stay(g), sh' = sh
  PROVE  IInv'
<1>1. stack' = Update(g) /\ ctl' \in ControlState /\ sh' \in ShellState
  BY Typed, ResultsTyped DEF Stay, IInv
<1>2. Becomes(Top, g, sh, sh')
  BY DEF Becomes
<1> QED  BY <1>1, <1>2, Updates

\* A while loop leaves its condition for its body or its next iteration.
LEMMA WhileIsTested ==
  ASSUME IInv, stack # <<>>, Top.k = "while", Top.ph = "cond",
         NEW g \in FrameState, g.k = Top.k, g.sv = Top.sv, ~TestsCondition(g),
         Stay(g), sh' = [sh EXCEPT !.inCondition = Top.sv.inCondition]
  PROVE  IInv'
<1>1. sh \in ShellState /\ Top.sv.inCondition \in BOOLEAN
  BY Typed DEF IInv, ShellState
<1>2. /\ sh' \in ShellState /\ sh'.loopDepth = sh.loopDepth /\ sh'.callDepth = sh.callDepth
      /\ sh'.scopes = sh.scopes /\ sh'.sourceDepth = sh.sourceDepth
      /\ sh'.substDepth = sh.substDepth /\ sh'.inCondition = Top.sv.inCondition
  BY <1>1 DEF ShellState
<1>3. Becomes(Top, g, sh, sh')
  BY <1>2 DEF Becomes, TestsCondition
<1>4. stack' = Update(g) /\ ctl' \in ControlState
  BY ResultsTyped DEF Stay
<1> QED  BY <1>2, <1>3, <1>4, Updates

\* An iteration starts: the next word, or the condition.
LEMMA IterationStarts ==
  ASSUME IInv, NextIteration
  PROVE  IInv'
<1>1. stack # <<>> /\ Top.k \in LoopKinds /\ Top.ph = "next" /\ ~TestsCondition(Top)
  BY DEF NextIteration, Running, TestsCondition, LoopKinds
<1>2. Top \in FrameState /\ Top.n + 1 \in Nat /\ sh \in ShellState /\ Top.sv \in ShellState
  BY <1>1, Typed DEF IInv
<1>3. CASE Throw("limit", 1) /\ sh' = OutOfLoop
  <2>1. stack' = Below /\ ctl' \in ControlState
    BY <1>3, OutcomesTyped DEF Throw
  <2> QED  BY <1>1, <1>3, <2>1, LoopLeft
<1> DEFINE f == [Top EXCEPT !.n = @ + 1, !.flag = FALSE]
<1>4. f \in FrameState /\ f.k = Top.k /\ f.sv = Top.sv /\ f.n = Top.n + 1
  BY <1>2 DEF FrameState
<1>5. \/ Throw("limit", 1) /\ sh' = OutOfLoop
      \/ Top.k = "for" /\ Stay([f EXCEPT !.ph = "body"]) /\ sh' = sh
      \/ /\ Top.k = "while"
         /\ Stay([f EXCEPT !.ph = "cond", !.sv.inCondition = sh.inCondition])
         /\ sh' = [sh EXCEPT !.inCondition = TRUE]
      \/ /\ Top.k = "until"
         /\ CallFrom([f EXCEPT !.ph = "cond"], Condition)
         /\ sh' = [sh EXCEPT !.inCondition = TRUE]
  BY DEF NextIteration
<1> HIDE DEF f
<1>6. CASE Top.k = "for" /\ Stay([f EXCEPT !.ph = "body"]) /\ sh' = sh
  <2> DEFINE g == [f EXCEPT !.ph = "body"]
  <2>1. g \in FrameState /\ g.k = Top.k /\ g.sv = Top.sv
    BY Zenon, <1>4, Listed DEF FrameState
  <2>2. Stay(g) /\ sh' = sh
    BY <1>6
  <2> HIDE DEF g
  <2>3. ~TestsCondition(g)
    BY <1>6, <2>1 DEF TestsCondition
  <2> QED  BY <1>1, <2>1, <2>2, <2>3, LoopGoesOn
<1>7. CASE /\ Top.k = "while"
           /\ Stay([f EXCEPT !.ph = "cond", !.sv.inCondition = sh.inCondition])
           /\ sh' = [sh EXCEPT !.inCondition = TRUE]
  <2> DEFINE v == [f.sv EXCEPT !.inCondition = sh.inCondition]
             g == [f EXCEPT !.ph = "cond", !.sv.inCondition = sh.inCondition]
  <2>0. sh.inCondition \in BOOLEAN
    BY <1>2 DEF ShellState
  <2>1. /\ v \in ShellState /\ v.loopDepth = Top.sv.loopDepth /\ v.scopes = Top.sv.scopes
        /\ v.substDepth = Top.sv.substDepth /\ v.inCondition = sh.inCondition
    BY <1>2, <1>4, <2>0 DEF ShellState
  <2>2. g = [f EXCEPT !.ph = "cond", !.sv = v]
    BY <1>4 DEF FrameState
  <2>3. Stay(g)
    BY <1>7
  <2> HIDE DEF g, v
  <2>4. g \in FrameState /\ g.k = Top.k /\ g.sv = v /\ g.ph = "cond"
    BY Zenon, <1>4, <2>1, <2>2, Listed DEF FrameState
  <2>5. /\ sh' \in ShellState /\ sh'.loopDepth = sh.loopDepth
        /\ sh'.callDepth = sh.callDepth /\ sh'.scopes = sh.scopes
        /\ sh'.sourceDepth = sh.sourceDepth /\ sh'.substDepth = sh.substDepth
        /\ sh'.inCondition = TRUE
    BY <1>2, <1>7 DEF ShellState
  <2>6. Becomes(Top, g, sh, sh')
    BY <1>1, <1>7, <2>1, <2>4, <2>5 DEF Becomes, TestsCondition
  <2>7. stack' = Update(g) /\ ctl' \in ControlState
    BY <2>3, ResultsTyped DEF Stay
  <2> QED  BY <1>1, <2>4, <2>5, <2>6, <2>7, Updates
<1>8. CASE /\ Top.k = "until"
           /\ CallFrom([f EXCEPT !.ph = "cond"], Condition)
           /\ sh' = [sh EXCEPT !.inCondition = TRUE]
  <2> DEFINE g == [f EXCEPT !.ph = "cond"]
  <2>1. g \in FrameState /\ g.k = Top.k /\ g.sv = Top.sv
    BY Zenon, <1>4, Listed DEF FrameState
  <2>2. CallFrom(g, Condition)
    BY <1>8
  <2> HIDE DEF g
  <2>3. Becomes(Top, g, sh, sh)
    BY <1>8, <2>1 DEF Becomes, TestsCondition
  <2>4. stack' = Append(Update(g), Condition) /\ ctl' \in ControlState
    BY <2>2, ResultsTyped DEF CallFrom
  <2>5. Condition \in FrameState /\ Enters(Condition, sh, sh') /\ sh' \in ShellState
    BY <1>1, <1>8, ConditionEntered
  <2> QED  BY <1>1, <2>1, <2>3, <2>4, <2>5, UpdatesAndPushes
<1> QED  BY <1>3, <1>5, <1>6, <1>7, <1>8

\* The actions of loops keep the invariant.
LEMMA LoopsKeep ==
  ASSUME IInv, Loops
  PROVE  IInv'
<1>1. ASSUME NEW k \in LoopKinds, EnterLoop(k)
      PROVE  IInv'
  <2>1. Running({"pipe"}) /\ stack # <<>> /\ Start(Frame(k, "next"))
    BY <1>1 DEF EnterLoop, Command, Running
  <2>2. k \in Kinds /\ "next" \in Phases /\ k \notin BoundaryKinds
        /\ k \notin {"call", "source", "subst", "cond", "subshell"}
    BY Zenon, Listed DEF Kinds, LoopKinds, BoundaryKinds
  <2>3. Frame(k, "next") \in FrameState
    BY <2>2, FrameTyped
  <2>a. sh \in ShellState
    BY DEF IInv, TypeOK
  <2>4. sh \in ShellState /\ sh.loopDepth + 1 \in Nat
    BY <2>a DEF ShellState
  <2>5. /\ sh' \in ShellState /\ sh'.loopDepth = sh.loopDepth + 1
        /\ sh'.callDepth = sh.callDepth /\ sh'.scopes = sh.scopes
        /\ sh'.sourceDepth = sh.sourceDepth /\ sh'.substDepth = sh.substDepth
        /\ sh'.inCondition = sh.inCondition
    BY <1>1, <2>4 DEF EnterLoop, ShellState
  <2>6. Frame(k, "next").k = k /\ Frame(k, "next").ph = "next"
    BY FrameFields
  <2> DEFINE f == Frame(k, "next")
  <2>7. f \in FrameState /\ f.k = k /\ f.ph = "next" /\ Start(f)
    BY <2>1, <2>3, <2>6
  <2> HIDE DEF f
  <2>8. Enters(f, sh, sh')
    BY <1>1, <2>2, <2>5, <2>7 DEF Enters
  <2> QED  BY <2>1, <2>5, <2>7, <2>8, Starts
<1>2. CASE NextIteration
  BY <1>2, IterationStarts
<1>3. CASE ForEnds \/ ForHeaderThrows \/ WhileTested \/ UntilTested \/ LoopBodyEnds
             \/ WhileConditionThrows \/ UntilConditionThrows \/ LoopBodyThrows
  <2>0. stack # <<>> /\ Top.k \in LoopKinds
    BY <1>3 DEF ForEnds, ForHeaderThrows, WhileTested, UntilTested, LoopBodyEnds, WhileConditionThrows,
         UntilConditionThrows, LoopBodyThrows, Running, Returned, Throwing, LoopKinds
  <2>1. /\ Top \in FrameState /\ Top.code \in Status /\ ctl \in ControlState
        /\ sh \in ShellState /\ ctl.code \in Status /\ ctl.lv \in Nat /\ 1 \in Status
    BY <2>0, Typed DEF IInv, Status
  <2>2. ASSUME ~TestsCondition(Top), sh' = OutOfLoop,
               Rethrow \/ (\E c \in Status : Return(c))
                 \/ (ctl.lv > 1 /\ stack' = Below /\ ctl' = [ctl EXCEPT !.lv = @ - 1])
        PROVE  IInv'
    <3>1. stack' = Below
      BY <2>2 DEF Rethrow, Return
    <3>2. ctl' \in ControlState
      BY <2>1, <2>2, OutcomesTyped DEF Rethrow, Return, ControlState
    <3> QED  BY <2>0, <2>2, <3>1, <3>2, LoopLeft
  <2>3. ASSUME NEW p \in {"next", "body"}, NEW b \in BOOLEAN,
               Stay([Top EXCEPT !.ph = p, !.flag = b])
        PROVE  /\ sh' = sh /\ ~TestsCondition(Top) => IInv'
               /\ /\ Top.k = "while" /\ Top.ph = "cond"
                  /\ sh' = [sh EXCEPT !.inCondition = Top.sv.inCondition]
                  => IInv'
    <3> DEFINE g == [Top EXCEPT !.ph = p, !.flag = b]
    <3>1. g \in FrameState /\ g.k = Top.k /\ g.sv = Top.sv /\ g.ph = p
      BY Zenon, <2>1, Listed DEF FrameState
    <3>2. Stay(g)
      BY <2>3
    <3> HIDE DEF g
    <3>3. ~TestsCondition(g)
      BY <2>0, <3>1 DEF TestsCondition, LoopKinds
    <3> QED  BY <2>0, <3>1, <3>2, <3>3, LoopGoesOn, WhileIsTested
  <2>4. \A p : [Top EXCEPT !.ph = p] = [Top EXCEPT !.ph = p, !.flag = Top.flag]
    BY <2>1 DEF FrameState
  <2>5. ASSUME NEW p \in {"next", "body"}, Stay([Top EXCEPT !.ph = p])
        PROVE  /\ sh' = sh /\ ~TestsCondition(Top) => IInv'
               /\ /\ Top.k = "while" /\ Top.ph = "cond"
                  /\ sh' = [sh EXCEPT !.inCondition = Top.sv.inCondition]
                  => IInv'
    <3>1. Top.flag \in BOOLEAN /\ Stay([Top EXCEPT !.ph = p, !.flag = Top.flag])
      BY Zenon, <2>1, <2>4, <2>5 DEF FrameState
    <3> QED  BY Zenon, <2>3, <3>1
  <2>6. CASE ForEnds
    <3>1. ~TestsCondition(Top)
      BY <2>6 DEF ForEnds, Running, TestsCondition
    <3> QED  BY <2>1, <2>2, <2>6, <3>1 DEF ForEnds
  <2>7. CASE WhileTested
    <3>1. Top.k = "while" /\ Top.ph = "cond"
      BY <2>7 DEF WhileTested, Running
    <3>2. CASE /\ Stay([Top EXCEPT !.ph = "body", !.flag = FALSE])
               /\ sh' = [sh EXCEPT !.inCondition = Top.sv.inCondition]
      BY Zenon, <2>3, <3>1, <3>2
    <3>3. CASE /\ Return(Top.code)
               /\ sh' = [[sh EXCEPT !.inCondition = Top.sv.inCondition]
                           EXCEPT !.loopDepth = @ - 1]
      <4>1. stack' = Below /\ ctl' \in ControlState
        BY <2>1, <3>3, OutcomesTyped DEF Return
      <4> QED  BY <2>0, <3>1, <3>3, <4>1, LoopLeftInCondition
    <3> QED  BY <2>7, <3>2, <3>3 DEF WhileTested
  <2>8. CASE UntilTested
    <3>1. ~TestsCondition(Top)
      BY <2>8 DEF UntilTested, Returned, TestsCondition
    <3> QED  BY <2>1, <2>2, <2>5, <2>8, <3>1 DEF UntilTested
  <2>9. CASE LoopBodyEnds
    <3>1. ~TestsCondition(Top)
      BY <2>9 DEF LoopBodyEnds, Running, TestsCondition, LoopKinds
    <3> QED  BY <2>5, <2>9, <3>1 DEF LoopBodyEnds
  <2>10. CASE WhileConditionThrows
    <3>1. Top.k = "while" /\ Top.ph = "cond"
      BY <2>10 DEF WhileConditionThrows, Throwing
    <3>2. CASE /\ ctl.e = "continue" /\ Stay([Top EXCEPT !.ph = "next"])
               /\ sh' = [sh EXCEPT !.inCondition = Top.sv.inCondition]
      BY <2>5, <3>1, <3>2
    <3>3. CASE /\ \/ ctl.lv > 1 /\ stack' = Below /\ ctl' = [ctl EXCEPT !.lv = @ - 1]
                  \/ Return(Top.code)
                  \/ Rethrow
               /\ sh' = [[sh EXCEPT !.inCondition = Top.sv.inCondition]
                           EXCEPT !.loopDepth = @ - 1]
      <4>1. stack' = Below
        BY <3>3 DEF Return, Rethrow
      <4>2. ctl' \in ControlState
        BY <2>1, <3>3, OutcomesTyped DEF Return, Rethrow, ControlState
      <4> QED  BY <2>0, <3>1, <3>3, <4>1, <4>2, LoopLeftInCondition
    <3> QED  BY <2>10, <3>2, <3>3 DEF WhileConditionThrows
  <2>11. CASE UntilConditionThrows
    <3>1. ~TestsCondition(Top)
      BY <2>11 DEF UntilConditionThrows, Throwing, TestsCondition
    <3> QED  BY <2>2, <2>11, <3>1 DEF UntilConditionThrows
  <2>12. CASE LoopBodyThrows
    <3>1. ~TestsCondition(Top)
      BY <2>12 DEF LoopBodyThrows, Throwing, TestsCondition, LoopKinds
    <3>2. CASE Stay([Top EXCEPT !.ph = "next"]) /\ sh' = sh
      BY <2>5, <3>1, <3>2
    <3>3. CASE /\ \/ Rethrow \/ Return(1) \/ Return(Top.code)
                  \/ ctl.lv > 1 /\ stack' = Below /\ ctl' = [ctl EXCEPT !.lv = @ - 1]
               /\ sh' = OutOfLoop
      BY <2>1, <2>2, <3>1, <3>3
    <3> QED  BY <2>12, <3>2, <3>3 DEF LoopBodyThrows
  <2>13. CASE ForHeaderThrows
    <3>1. ~TestsCondition(Top) /\ Top.k \in LoopKinds
      BY <2>13 DEF ForHeaderThrows, Running, TestsCondition, LoopKinds
    <3>2. stack' = Below /\ ctl' \in ControlState /\ sh' = OutOfLoop
      BY <2>13, OutcomesTyped DEF ForHeaderThrows, Throw
    <3> QED  BY <2>0, <3>1, <3>2, LoopLeft
  <2> QED  BY <1>3, <2>6, <2>7, <2>8, <2>9, <2>10, <2>11, <2>12, <2>13
<1> QED  BY <1>1, <1>2, <1>3 DEF Loops
\* Simple commands: a frame that ends, goes on, or hands over to runCommand.
LEMMA FinishTyped ==
  ASSUME IInv, stack # <<>>, Top.k \in Neutral, NEW c \in Status, Finish(c),
         SameDepths(sh, sh'), sh' \in ShellState
  PROVE  IInv'
<1>1. stack' = Below /\ \E by \in Makers : ctl' = Result(c, by)
  BY DEF Finish, Makers
<1> QED  BY <1>1, OutcomesTyped, NeutralPop

\* Undoing a prefix assignment keeps the type and every depth.
LEMMA UndoneTyped ==
  ASSUME IInv, stack # <<>>, NEW d \in ShellState, SameDepths(sh, d)
  PROVE  Undone(d) \in ShellState /\ SameDepths(sh, Undone(d))
<1>1. Top.sv.env \in Values
  BY Typed DEF IInv, ShellState
<1> QED  BY <1>1 DEF Undone, ShellState, SameDepths

\* A frame that counts for no depth throws an error.
LEMMA NeutralThrow ==
  ASSUME IInv, stack # <<>>, Top.k \in Neutral, NEW e, NEW c,
         Thrown(e, 0, c) \in ControlState, Throw(e, c), sh' = sh
  PROVE  IInv'
<1>1. stack' = Below /\ ctl' \in ControlState /\ sh' \in ShellState
  BY DEF Throw, IInv, TypeOK
<1> QED  BY <1>1, NeutralPop DEF SameDepths

\* The expansion of words and assignments keeps the invariant.
LEMMA WordsKeep ==
  ASSUME IInv, BeginAssignment \/ BeginCommand \/ Substitute \/ WordExpanded \/ WordFails
  PROVE  IInv'
<1>0. stack # <<>> /\ Top.k \in {"pipe", "simple"} /\ Top.k \in Neutral
  BY Zenon DEF BeginAssignment, BeginCommand, Substitute, WordExpanded, WordFails, Command,
         Running, Returned, Neutral
<1>1. /\ sh \in ShellState /\ Top \in FrameState /\ Top.n \in Nat /\ Top.m \in Nat
      /\ sh.env \in Values /\ sh.cwd \in Dirs /\ sh.substDepth \in Nat
  <2>1. sh \in ShellState /\ Top \in FrameState /\ Top.n \in Nat /\ Top.m \in Nat
    BY <1>0, Typed DEF IInv
  <2> QED  BY <2>1 DEF ShellState
<1>2. CASE BeginAssignment
  <2>1. ASSUME NEW n \in Nat, Start([Frame("simple", "value") EXCEPT !.n = n, !.m = n])
        PROVE  IInv'
    <3> DEFINE f == [Frame("simple", "value") EXCEPT !.n = n, !.m = n]
    <3>1. Frame("simple", "value") \in FrameState /\ Frame("simple", "value").k = "simple"
      BY Zenon, PushedTyped, FrameFields
    <3>2. f \in FrameState /\ f.k \in Neutral
      BY <3>1 DEF FrameState, Neutral
    <3>3. Start(f)
      BY <2>1
    <3>4. Running({"pipe"}) /\ sh' = sh
      BY Zenon, <1>2 DEF BeginAssignment, Command, Running
    <3> HIDE DEF f
    <3> QED  BY <1>1, <3>2, <3>3, <3>4, NeutralStarts DEF SameDepths
  <2> QED  BY Zenon, <1>2, <2>1 DEF BeginAssignment
<1>3. CASE BeginCommand
  <2>0. Running({"pipe"})
    BY Zenon, <1>3 DEF BeginCommand
  <2> DEFINE F(n) == [Frame("simple", "words") EXCEPT !.n = n, !.m = n]
             P(n) == [F(n) EXCEPT !.flag = TRUE, !.sv.env = sh.env]
  <2>1. ASSUME NEW n \in Nat
        PROVE  F(n) \in FrameState /\ F(n).k = "simple" /\ F(n).sv = Fresh
    <3>1. /\ Frame("simple", "words") \in FrameState
          /\ Frame("simple", "words").k = "simple" /\ Frame("simple", "words").sv = Fresh
      BY Zenon, PushedTyped, FrameFields
    <3> QED  BY <3>1 DEF FrameState
  <2>2. ASSUME NEW n \in Nat
        PROVE  P(n) \in FrameState /\ P(n).k = "simple"
    <3> DEFINE v == [Fresh EXCEPT !.env = sh.env]
               f == F(n)
    <3>1. v \in ShellState
      BY <1>1, FreshTyped DEF ShellState
    <3>2. f \in FrameState /\ f.k = "simple" /\ f.sv = Fresh
      BY Zenon, <2>1
    <3>3. P(n) = [f EXCEPT !.flag = TRUE, !.sv.env = sh.env]
      OBVIOUS
    <3> HIDE DEF f, F
    <3>4. P(n) = [f EXCEPT !.flag = TRUE, !.sv = v]
      BY <3>2, <3>3 DEF FrameState
    <3> HIDE DEF v, P
    <3> QED  BY <3>1, <3>2, <3>4 DEF FrameState
  <2>3. \E n \in Nat :
          \/ Start(F(n)) /\ sh' = sh
          \/ Start(P(n)) /\ \E v \in Values : sh' = [sh EXCEPT !.env = v]
    BY Zenon, <1>3 DEF BeginCommand
  <2>4. \A v \in Values : /\ [sh EXCEPT !.env = v] \in ShellState
                          /\ SameDepths(sh, [sh EXCEPT !.env = v])
    BY <1>1 DEF ShellState, SameDepths
  <2> HIDE DEF F, P
  <2>5. sh' \in ShellState /\ SameDepths(sh, sh')
    <3>1. sh' = sh \/ \E v \in Values : sh' = [sh EXCEPT !.env = v]
      BY <2>3
    <3>2. SameDepths(sh, sh)
      BY DEF SameDepths
    <3> QED  BY <1>1, <2>4, <3>1, <3>2
  <2>6. \E f \in FrameState : f.k \in Neutral /\ Start(f)
    BY <2>1, <2>2, <2>3 DEF Neutral
  <2> QED  BY <2>0, <2>5, <2>6, NeutralStarts
<1>4. CASE Substitute
  <2>1. CASE ThrowHere("limit") /\ sh' = sh
    <3>1. stack' = stack /\ ctl' \in ControlState
      BY <2>1, OutcomesTyped DEF ThrowHere
    <3> QED  BY <1>1, <2>1, <3>1, Keeps DEF SameDepths
  <2> DEFINE g == [Top EXCEPT !.n = @ - 1]
             v == [Fresh EXCEPT !.env = sh.env, !.cwd = sh.cwd, !.substDepth = sh.substDepth]
             f == [Frame("subst", "") EXCEPT !.sv.env = sh.env, !.sv.cwd = sh.cwd,
                                             !.sv.substDepth = sh.substDepth]
  <2>2. CASE CallFrom(g, f) /\ sh' = [sh EXCEPT !.substDepth = @ + 1]
    <3>1. Top.n - 1 \in Nat
      BY <1>1, <1>4 DEF Substitute
    <3>2. g \in FrameState /\ g.k = Top.k /\ g.sv = Top.sv
      BY <1>1, <3>1 DEF FrameState
    <3>3. v \in ShellState /\ v.substDepth = sh.substDepth
      BY <1>1, FreshTyped DEF ShellState
    <3>4. /\ Frame("subst", "") \in FrameState /\ Frame("subst", "").k = "subst"
          /\ Frame("subst", "").sv = Fresh
      BY Zenon, PushedTyped, FrameFields
    <3>5. f = [Frame("subst", "") EXCEPT !.sv = v]
      BY Zenon, <3>4, FreshTyped DEF FrameState, ShellState
    <3>6. CallFrom(g, f)
      BY <2>2
    <3> HIDE DEF f, g, v
    <3>7. f \in FrameState /\ f.k = "subst" /\ f.sv = v
      BY Zenon, <3>3, <3>4, <3>5 DEF FrameState
    <3>8. /\ sh' \in ShellState /\ sh'.loopDepth = sh.loopDepth
          /\ sh'.callDepth = sh.callDepth /\ sh'.scopes = sh.scopes
          /\ sh'.sourceDepth = sh.sourceDepth /\ sh'.substDepth = sh.substDepth + 1
          /\ sh'.inCondition = sh.inCondition
      BY <1>1, <2>2 DEF ShellState
    <3>9. Enters(f, sh, sh')
      BY <3>3, <3>7, <3>8 DEF Enters, LoopKinds, BoundaryKinds
    <3> QED  BY <1>0, <3>2, <3>6, <3>7, <3>8, <3>9, NeutralCallFrom
  <2> QED  BY <1>4, <2>1, <2>2 DEF Substitute
<1>5. CASE WordExpanded
  BY <1>0, <1>1, <1>5, NeutralStay DEF WordExpanded, SameDepths
<1>6. CASE WordFails
  BY <1>0, <1>6, OutcomesTyped, NeutralThrow DEF WordFails
<1> QED  BY <1>2, <1>3, <1>4, <1>5, <1>6

\* Command substitution keeps the invariant.
LEMMA SubstitutionKeeps ==
  ASSUME IInv, SubstitutionLeaves
  PROVE  IInv'
<1>1. stack # <<>> /\ Top.k = "subst" /\ stack' = Below
  BY DEF SubstitutionLeaves, Returned, Throwing, Return, Rethrow
<1>2. /\ sh \in ShellState /\ Top.sv \in ShellState /\ ctl \in ControlState
      /\ ctl.code \in Status
  BY <1>1, Typed DEF IInv
<1>3. ctl' \in ControlState
  BY <1>2, OutcomesTyped DEF SubstitutionLeaves, Return, Rethrow
<1> DEFINE d == [sh EXCEPT !.env = Top.sv.env, !.cwd = Top.sv.cwd,
                           !.substDepth = Top.sv.substDepth]
<1>4. /\ d \in ShellState /\ d.loopDepth = sh.loopDepth
      /\ d.callDepth = sh.callDepth /\ d.scopes = sh.scopes
      /\ d.sourceDepth = sh.sourceDepth /\ d.substDepth = Top.sv.substDepth
      /\ d.inCondition = sh.inCondition
  BY <1>2 DEF ShellState
<1>5. sh' = d \/ sh' = [d EXCEPT !.lastExit = ctl.code]
  BY DEF SubstitutionLeaves
<1> HIDE DEF d
<1>6. /\ sh' \in ShellState /\ sh'.loopDepth = sh.loopDepth
      /\ sh'.callDepth = sh.callDepth /\ sh'.scopes = sh.scopes
      /\ sh'.sourceDepth = sh.sourceDepth /\ sh'.substDepth = Top.sv.substDepth
      /\ sh'.inCondition = sh.inCondition
  BY <1>2, <1>4, <1>5 DEF ShellState
<1>7. Leaves(Top, sh, sh')
  BY <1>1, <1>6 DEF Leaves, LoopKinds, BoundaryKinds, TestsCondition
<1> QED  BY <1>1, <1>3, <1>6, <1>7, Pops

\* The actions of simple commands keep the invariant.
LEMMA SimplesKeep ==
  ASSUME IInv, Simples
  PROVE  IInv'
<1>1. CASE BeginAssignment \/ BeginCommand \/ Substitute \/ WordExpanded \/ WordFails
  BY <1>1, WordsKeep
<1>2. CASE SubstitutionLeaves
  BY <1>2, SubstitutionKeeps
<1>3. ASSUME stack # <<>>, Top.k \in Neutral
      PROVE  /\ sh \in ShellState /\ SameDepths(sh, sh) /\ ctl.code \in Status
             /\ 0 \in Status /\ 1 \in Status
             /\ Undone(sh) \in ShellState /\ SameDepths(sh, Undone(sh))
  <2>1. sh \in ShellState /\ ctl.code \in Status /\ SameDepths(sh, sh)
    BY <1>3, Typed DEF IInv, SameDepths
  <2> QED  BY <1>3, <2>1, UndoneTyped DEF Status
<1>4. CASE Assign
  <2>1. stack # <<>> /\ Top.k \in Neutral
    BY <1>4 DEF Assign, Running, Neutral
  <2>2. sh \in ShellState /\ sh.lastExit \in Status
    BY <1>3, <2>1 DEF ShellState
  <2>3. SameDepths(sh, sh') /\ sh' \in ShellState
    BY <1>4, <2>2 DEF Assign, SameDepths, ShellState
  <2> QED  BY <1>4, <2>1, <2>2, <2>3, FinishTyped DEF Assign
<1>5. CASE Builtin
  <2>1. stack # <<>> /\ Top.k \in Neutral /\ sh' = Undone(sh)
    BY <1>5 DEF Builtin, Ready, Running, Neutral
  <2> QED  BY <1>3, <1>5, <2>1, FinishTyped DEF Builtin
<1>6. CASE ChangeDir
  <2>1. stack # <<>> /\ Top.k \in Neutral
    BY <1>6 DEF ChangeDir, Ready, Running, Neutral
  <2>2. ASSUME NEW d \in Dirs
        PROVE  [sh EXCEPT !.cwd = d] \in ShellState /\ SameDepths(sh, [sh EXCEPT !.cwd = d])
    BY <1>3, <2>1 DEF ShellState, SameDepths
  <2>3. sh' \in ShellState /\ SameDepths(sh, sh')
    BY <1>6, <2>1, <2>2, UndoneTyped DEF ChangeDir
  <2> QED  BY <1>3, <1>6, <2>1, <2>3, FinishTyped DEF ChangeDir
<1>7. CASE SetOption
  <2>1. stack # <<>> /\ Top.k \in Neutral
    BY <1>7 DEF SetOption, Ready, Running, Neutral
  <2>2. ASSUME NEW on \in BOOLEAN
        PROVE  /\ [sh EXCEPT !.errexit = on] \in ShellState
               /\ SameDepths(sh, [sh EXCEPT !.errexit = on])
               /\ [sh EXCEPT !.pipefail = on] \in ShellState
               /\ SameDepths(sh, [sh EXCEPT !.pipefail = on])
    BY <1>3, <2>1 DEF ShellState, SameDepths
  <2>3. sh' \in ShellState /\ SameDepths(sh, sh')
    BY <1>7, <2>1, <2>2, UndoneTyped DEF SetOption
  <2> QED  BY <1>3, <1>7, <2>1, <2>3, FinishTyped DEF SetOption
<1>8. ASSUME NEW e \in {"break", "continue"}, LoopExit(e)
      PROVE  IInv'
  <2>1. stack # <<>> /\ Top.k \in Neutral
    BY <1>8 DEF LoopExit, Ready, Running, Neutral
  <2>2. CASE Throw("subexit", 0) /\ sh' = sh
    BY <2>1, <2>2, OutcomesTyped, NeutralThrow
  <2>3. CASE Finish(0) /\ sh' = Undone(sh)
    BY <1>3, <2>1, <2>3, FinishTyped
  <2>4. ASSUME stack' = Below, sh' = sh,
               (\E n \in 1 .. MaxLevel : ctl' = Thrown(e, n, 0)) \/ ctl' = Thrown("exit", 0, 1)
        PROVE  IInv'
    <3>1. e \in Errors /\ 0 \in Status
      BY DEF Errors, ScopeExits, Status
    <3>2. \A n \in 1 .. MaxLevel : n \in Nat
      BY BoundsAssumption
    <3>3. ctl' \in ControlState
      BY <2>4, <3>1, <3>2, ResultsTyped, OutcomesTyped
    <3> QED  BY <1>3, <2>1, <2>4, <3>3, NeutralPop
  <2> QED  BY <1>8, <2>2, <2>3, <2>4 DEF LoopExit
<1>9. CASE ReturnBuiltin
  <2>1. stack # <<>> /\ Top.k \in Neutral
    BY <1>9 DEF ReturnBuiltin, Ready, Running, Neutral
  <2>2. CASE Finish(1) /\ sh' = Undone(sh)
    BY <1>3, <2>1, <2>2, FinishTyped
  <2>3. ASSUME NEW c \in Status, Throw("return", c), sh' = sh
        PROVE  IInv'
    BY <2>1, <2>3, OutcomesTyped, NeutralThrow
  <2> QED  BY <1>9, <2>2, <2>3 DEF ReturnBuiltin
<1>10. CASE ExitBuiltin
  <2>1. stack # <<>> /\ Top.k \in Neutral
    BY <1>10 DEF ExitBuiltin, Ready, Running, Neutral
  <2>2. ASSUME NEW c \in Status, Throw("exit", c), sh' = sh
        PROVE  IInv'
    BY <2>1, <2>2, OutcomesTyped, NeutralThrow
  <2> QED  BY <1>10, <2>2 DEF ExitBuiltin
<1>11. CASE CommandReturned
  <2>1. stack # <<>> /\ Top.k \in Neutral /\ Return(ctl.code) /\ sh' = Undone(sh)
    BY <1>11 DEF CommandReturned, Returned, Neutral
  <2> QED  BY <1>3, <2>1, NeutralReturn
<1>12. CASE CommandThrows
  <2>1. stack # <<>> /\ Top.k \in Neutral /\ Rethrow /\ sh' = sh
    BY <1>12 DEF CommandThrows, Throwing, Neutral
  <2> QED  BY <1>3, <2>1, NeutralRethrow
<1> QED  BY <1>1, <1>2, <1>4, <1>5, <1>6, <1>7, <1>8, <1>9, <1>10, <1>11, <1>12 DEF Simples
\* runCommand enters a function, eval, source or a script file, and leaves it.
LEMMA DispatchedTyped ==
  ASSUME IInv, Running({"simple"})
  PROVE  /\ stack # <<>> /\ Top.k \in Neutral /\ sh \in ShellState
         /\ Dispatched \in FrameState /\ Dispatched.k = Top.k /\ Dispatched.sv = Top.sv
<1>1. stack # <<>> /\ Top.k \in Neutral
  BY DEF Running, Neutral
<1>2. Top \in FrameState /\ sh \in ShellState
  BY <1>1, Typed DEF IInv
<1> QED  BY Zenon, <1>1, <1>2, Listed DEF Dispatched, FrameState

\* Entering a function, eval, source or a script file keeps the invariant.
LEMMA DispatchesKeep ==
  ASSUME IInv, CallFunction \/ Evaluate \/ Source \/ RunUserScript
  PROVE  IInv'
<1>0. Running({"simple"})
  BY Zenon DEF CallFunction, Evaluate, Source, RunUserScript, Ready
<1>1. /\ stack # <<>> /\ Top.k \in Neutral /\ sh \in ShellState
      /\ Dispatched \in FrameState /\ Dispatched.k = Top.k /\ Dispatched.sv = Top.sv
  BY <1>0, DispatchedTyped
<1>2. CASE CallFunction
  <2>1. CASE stack' = Update(Dispatched) /\ ctl' = Thrown("limit", 0, 1) /\ sh' = sh
    <3>1. ctl' \in ControlState /\ SameDepths(sh, sh')
      BY <2>1, OutcomesTyped DEF SameDepths
    <3>2. Top.k # "while"
      BY <1>1 DEF Neutral
    <3> QED  BY <1>1, <2>1, <3>1, <3>2, NeutralUpdate
  <2>2. CASE /\ CallFrom(Dispatched, Frame("call", ""))
             /\ sh' = [sh EXCEPT !.callDepth = @ + 1, !.scopes = @ + 1]
    <3> DEFINE f == Frame("call", "")
    <3>1. f \in FrameState /\ f.k = "call" /\ CallFrom(Dispatched, f)
      BY Zenon, <2>2, PushedTyped, FrameFields
    <3> HIDE DEF f
    <3>a. sh.callDepth + 1 \in Nat /\ sh.scopes + 1 \in Nat
      BY <1>1 DEF ShellState
    <3>2. /\ sh' \in ShellState /\ sh'.loopDepth = sh.loopDepth
          /\ sh'.callDepth = sh.callDepth + 1 /\ sh'.scopes = sh.scopes + 1
          /\ sh'.sourceDepth = sh.sourceDepth /\ sh'.substDepth = sh.substDepth
          /\ sh'.inCondition = sh.inCondition
      BY Zenon, <1>1, <2>2, <3>a DEF ShellState
    <3>3. Enters(f, sh, sh')
      BY <3>1, <3>2 DEF Enters, LoopKinds, BoundaryKinds
    <3> QED  BY <1>1, <3>1, <3>2, <3>3, NeutralCallFrom
  <2> QED  BY Zenon, <1>2, <2>1, <2>2 DEF CallFunction
<1>3. CASE Evaluate
  <2> DEFINE f == Frame("eval", "")
  <2>1. f \in FrameState /\ f.k = "eval" /\ CallFrom(Dispatched, f) /\ sh' = sh
    BY Zenon, <1>3, PushedTyped, FrameFields DEF Evaluate
  <2> HIDE DEF f
  <2>2. Enters(f, sh, sh')
    BY <2>1, NeutralEnters DEF Neutral, SameDepths
  <2> QED  BY <1>1, <2>1, <2>2, NeutralCallFrom
<1>4. CASE Source
  <2> DEFINE f == Frame("source", "")
  <2>1. f \in FrameState /\ f.k = "source" /\ CallFrom(Dispatched, f)
    BY Zenon, <1>4, PushedTyped, FrameFields DEF Source
  <2> HIDE DEF f
  <2>a. sh.sourceDepth + 1 \in Nat
    BY <1>1 DEF ShellState
  <2>2. /\ sh' \in ShellState /\ sh'.loopDepth = sh.loopDepth
        /\ sh'.callDepth = sh.callDepth /\ sh'.scopes = sh.scopes
        /\ sh'.sourceDepth = sh.sourceDepth + 1 /\ sh'.substDepth = sh.substDepth
        /\ sh'.inCondition = sh.inCondition
    BY Zenon, <1>1, <1>4, <2>a DEF Source, ShellState
  <2>3. Enters(f, sh, sh')
    BY <2>1, <2>2 DEF Enters, LoopKinds, BoundaryKinds
  <2> QED  BY <1>1, <2>1, <2>2, <2>3, NeutralCallFrom
<1>5. CASE RunUserScript
  <2> DEFINE o == EnterSubshell
             v == [o.sv EXCEPT !.fns = FALSE, !.scopes = 0]
             f == [o EXCEPT !.k = "ush", !.sv.fns = FALSE, !.sv.scopes = 0]
  <2>1. /\ o \in FrameState /\ o.k = "subshell" /\ o.sv \in ShellState
        /\ o.sv.loopDepth = sh.loopDepth
        /\ Enters(o, sh, sh') /\ sh' \in ShellState
    BY <1>1, <1>5, SubshellEntered DEF RunUserScript
  <2>2. CallFrom(Dispatched, f)
    BY <1>5 DEF RunUserScript
  <2> HIDE DEF o
  <2>3. v \in ShellState /\ v.loopDepth = sh.loopDepth
    BY <2>1 DEF ShellState
  <2>4. f = [o EXCEPT !.k = "ush", !.sv = v]
    BY <2>1 DEF FrameState, ShellState
  <2> HIDE DEF v, f
  <2>5. f \in FrameState /\ f.k = "ush" /\ f.sv = v
    BY Zenon, <2>1, <2>3, <2>4, Listed DEF FrameState
  <2>6. Enters(f, sh, sh')
    BY <2>1, <2>3, <2>5 DEF Enters, LoopKinds, BoundaryKinds
  <2> QED  BY <1>1, <2>1, <2>2, <2>5, <2>6, NeutralCallFrom
<1> QED  BY <1>2, <1>3, <1>4, <1>5

\* Running and leaving them keeps the invariant.
LEMMA CallersKeep ==
  ASSUME IInv, Callers
  PROVE  IInv'
<1>1. CASE CallFunction \/ Evaluate \/ Source \/ RunUserScript
  BY <1>1, DispatchesKeep
<1>2. ASSUME stack # <<>>
      PROVE  /\ sh \in ShellState /\ ctl \in ControlState /\ ctl.code \in Status
             /\ Top.sv \in ShellState /\ 0 \in Status /\ 1 \in Status
  BY <1>2, Typed DEF IInv, Status
<1>3. CASE RunFunctionBody
  <2>1. stack # <<>>
    BY Zenon, <1>3 DEF RunFunctionBody, Running
  <2>2. CASE Call(Frame("group", "")) /\ sh' = sh
    <3>1. Frame("group", "") \in FrameState /\ Frame("group", "").k \in Neutral
      BY Zenon, NeutralPushed
    <3>2. stack' = Append(stack, Frame("group", "")) /\ ctl' \in ControlState
      BY Zenon, <2>2, ResultsTyped DEF Call
    <3> QED  BY Zenon, <1>2, <2>1, <2>2, <3>1, <3>2, NeutralPush DEF SameDepths
  <2>3. CASE Call(EnterSubshell) /\ sh' = InSubshell
    <3>1. stack' = Append(stack, EnterSubshell) /\ ctl' \in ControlState
      BY <2>3, ResultsTyped DEF Call
    <3> QED  BY <2>1, <2>3, <3>1, SubshellEntered, Pushes
  <2> QED  BY Zenon, <1>3, <2>2, <2>3 DEF RunFunctionBody
<1>4. CASE FunctionLeaves
  <2>1. stack # <<>> /\ Top.k = "call" /\ stack' = Below
    BY <1>4 DEF FunctionLeaves, Returned, Throwing, Return, Rethrow
  <2>2. ctl' \in ControlState
    BY <1>2, <1>4, <2>1, OutcomesTyped DEF FunctionLeaves, Return, Rethrow
  <2>3. sh.callDepth - 1 \in Nat /\ sh.scopes - 1 \in Nat
    BY <2>1, Positive
  <2>4. /\ sh' \in ShellState /\ sh'.loopDepth = sh.loopDepth
        /\ sh'.callDepth = sh.callDepth - 1 /\ sh'.scopes = sh.scopes - 1
        /\ sh'.sourceDepth = sh.sourceDepth /\ sh'.substDepth = sh.substDepth
        /\ sh'.inCondition = sh.inCondition
    BY <1>2, <1>4, <2>1, <2>3 DEF FunctionLeaves, OutOfFunction, ShellState
  <2>5. Leaves(Top, sh, sh')
    BY <2>1, <2>4 DEF Leaves, LoopKinds, BoundaryKinds, TestsCondition
  <2> QED  BY <2>1, <2>2, <2>4, <2>5, Pops
<1>5. CASE RunScript
  <2>1. stack # <<>> /\ sh' = sh
    BY Zenon, <1>5 DEF RunScript, Running
  <2>2. Frame("script", "") \in FrameState /\ Frame("script", "").k \in Neutral
    BY Zenon, NeutralPushed
  <2>3. stack' = Append(stack, Frame("script", "")) /\ ctl' \in ControlState
    BY Zenon, <1>5, ResultsTyped DEF RunScript, Call
  <2> QED  BY Zenon, <1>2, <2>1, <2>2, <2>3, NeutralPush DEF SameDepths
<1>6. CASE EvalLeaves
  <2>1. stack # <<>> /\ Top.k \in Neutral /\ stack' = Below /\ sh' = sh
    BY <1>6 DEF EvalLeaves, Returned, Throwing, Return, Rethrow, Neutral
  <2>2. ctl' \in ControlState
    BY <1>2, <1>6, <2>1, OutcomesTyped DEF EvalLeaves, Return, Rethrow
  <2> QED  BY <1>2, <2>1, <2>2, NeutralPop DEF SameDepths
<1>7. CASE SourceLeaves
  <2>1. stack # <<>> /\ Top.k = "source" /\ stack' = Below
    BY <1>7 DEF SourceLeaves, Returned, Throwing, Return, Rethrow
  <2>2. ctl' \in ControlState
    BY <1>2, <1>7, <2>1, OutcomesTyped DEF SourceLeaves, Return, Rethrow
  <2>3. sh.sourceDepth - 1 \in Nat
    BY <2>1, Positive
  <2>4. /\ sh' \in ShellState /\ sh'.loopDepth = sh.loopDepth
        /\ sh'.callDepth = sh.callDepth /\ sh'.scopes = sh.scopes
        /\ sh'.sourceDepth = sh.sourceDepth - 1 /\ sh'.substDepth = sh.substDepth
        /\ sh'.inCondition = sh.inCondition
    BY <1>2, <1>7, <2>1, <2>3 DEF SourceLeaves, ShellState
  <2>5. Leaves(Top, sh, sh')
    BY <2>1, <2>4 DEF Leaves, LoopKinds, BoundaryKinds, TestsCondition
  <2> QED  BY <2>1, <2>2, <2>4, <2>5, Pops
<1>8. CASE UserScriptLeaves
  <2>1. stack # <<>> /\ Top.k = "ush" /\ stack' = Below
    BY <1>8 DEF UserScriptLeaves, Returned, Throwing, Return, Rethrow
  <2>2. ctl' \in ControlState
    BY <1>2, <1>8, <2>1, OutcomesTyped DEF UserScriptLeaves, Return, Rethrow
  <2> DEFINE d == RestoreFrom(Top.sv)
  <2>3. /\ d \in ShellState /\ d.loopDepth = Top.sv.loopDepth
        /\ d.callDepth = sh.callDepth /\ d.sourceDepth = sh.sourceDepth
        /\ d.substDepth = sh.substDepth /\ d.inCondition = sh.inCondition
    BY <1>2, <2>1, Restored
  <2>4. sh' = [d EXCEPT !.fns = sh.fns, !.scopes = sh.scopes]
    BY <1>8 DEF UserScriptLeaves
  <2>5. sh.fns \in BOOLEAN /\ sh.scopes \in Nat
    BY <1>2, <2>1 DEF ShellState
  <2> HIDE DEF d
  <2>6. /\ sh' \in ShellState /\ sh'.loopDepth = Top.sv.loopDepth
        /\ sh'.callDepth = sh.callDepth /\ sh'.scopes = sh.scopes
        /\ sh'.sourceDepth = sh.sourceDepth /\ sh'.substDepth = sh.substDepth
        /\ sh'.inCondition = sh.inCondition
    BY <2>3, <2>4, <2>5 DEF ShellState
  <2>7. Leaves(Top, sh, sh')
    BY <2>1, <2>6 DEF Leaves, LoopKinds, BoundaryKinds, TestsCondition
  <2> QED  BY <2>1, <2>2, <2>6, <2>7, Pops
<1>9. CASE FunctionRedirectFails
  <2>1. stack # <<>> /\ Top.k = "call" /\ stack' = Below /\ "fredir" \in Forms
    BY <1>9 DEF FunctionRedirectFails, Running, Return, Throw
  <2>2. ctl' \in ControlState
    BY <1>9, OutcomesTyped DEF FunctionRedirectFails, Return, Throw
  <2>3. sh.callDepth - 1 \in Nat /\ sh.scopes - 1 \in Nat
    BY <2>1, Positive
  <2>4. CASE sh' = OutOfFunction
    <3>1. /\ sh' \in ShellState /\ sh'.loopDepth = sh.loopDepth
          /\ sh'.callDepth = sh.callDepth - 1 /\ sh'.scopes = sh.scopes - 1
          /\ sh'.sourceDepth = sh.sourceDepth /\ sh'.substDepth = sh.substDepth
          /\ sh'.inCondition = sh.inCondition
      BY <1>2, <2>1, <2>3, <2>4 DEF OutOfFunction, ShellState
    <3>2. Leaves(Top, sh, sh')
      BY <2>1, <3>1 DEF Leaves, LoopKinds, BoundaryKinds, TestsCondition
    <3> QED  BY <2>1, <2>2, <3>1, <3>2, Pops
  <2>5. CASE sh' = sh
    <3>1. sh' \in ShellState
      BY <1>2, <2>1, <2>5
    <3>2. Leaves(Top, sh, sh')
      BY <2>1, <2>5 DEF Leaves, LoopKinds, BoundaryKinds, TestsCondition
    <3> QED  BY <2>1, <2>2, <3>1, <3>2, Pops
  <2> QED  BY <1>9, <2>4, <2>5 DEF FunctionRedirectFails
<1> QED  BY <1>1, <1>3, <1>4, <1>5, <1>6, <1>7, <1>8, <1>9 DEF Callers

-----------------------------------------------------------------------------
(* The theorems.                                                           *)

\* A script begins with every depth at 0 and a stack of one frame.
LEMMA FirstFrame ==
  /\ <<Frame("script", "")>> \in Seq(FrameState)
  /\ Counts(<<Frame("script", "")>>, Fresh)
<1> DEFINE f == Frame("script", "")
           s == <<>>
<1>1. f \in FrameState /\ f.k = "script"
  BY Zenon, PushedTyped, FrameFields
<1> HIDE DEF f
<1>2. s \in Seq(FrameState) /\ Len(s) = 0 /\ Append(s, f) = <<f>>
  OBVIOUS
<1> HIDE DEF s
<1>3. Cardinality(LoopsIn(s, 0)) = 0
  BY LoopsCount
<1>4. \A K : Cardinality(FramesOf(s, K, 0)) = 0
  BY FramesCount
<1>5. ConditionFrames(s, 0) = {}
  BY DEF ConditionFrames
<1>6. Counts(s, Fresh)
  BY <1>2, <1>3, <1>4, <1>5 DEF Counts, Tracks, CallsHold, Fresh
<1>7. Enters(f, Fresh, Fresh)
  BY <1>1 DEF Enters, LoopKinds, BoundaryKinds
<1>8. Counts(Append(s, f), Fresh)
  BY <1>1, <1>2, <1>6, <1>7, Pushed
<1>9. <<f>> \in Seq(FrameState)
  BY <1>1
<1>10. Counts(<<f>>, Fresh)
  BY <1>2, <1>8
<1> QED  BY Zenon, <1>9, <1>10 DEF f

\* The first state of a call satisfies the invariant.
LEMMA StartsIn ==
  ASSUME Init
  PROVE  IInv
  BY Zenon, FirstFrame, FreshTyped, ResultsTyped DEF Init, IInv, TypeOK

\* So does the first state of the next call.
LEMMA StartsAgain ==
  ASSUME ExecAgain
  PROVE  IInv'
<1>1. stack' \in Seq(FrameState) /\ Counts(stack', sh')
  BY Zenon, FirstFrame DEF ExecAgain
<1>2. Counts(stack, sh)'
  BY <1>1, CountsNext
<1> QED  BY Zenon, <1>1, <1>2, FreshTyped, ResultsTyped DEF ExecAgain, IInv, TypeOK

\* The invariant is inductive.
LEMMA Inductive ==
  ASSUME IInv, [Next]_vars
  PROVE  IInv'
<1>1. CASE Lists       BY <1>1, ListsKeep
<1>2. CASE Statements  BY <1>2, StatementsKeep
<1>3. CASE Compounds   BY <1>3, CompoundsKeep
<1>4. CASE Loops       BY <1>4, LoopsKeep
<1>5. CASE Simples     BY <1>5, SimplesKeep
<1>6. CASE Callers     BY <1>6, CallersKeep
<1>7. CASE ExecSettles
  <2>1. ctl' \in ControlState /\ stack' = stack /\ sh' = sh /\ sh' \in ShellState
    BY <1>7, ResultsTyped DEF ExecSettles, IInv, TypeOK
  <2> QED  BY <2>1, Keeps DEF SameDepths
<1>8. CASE ExecAgain   BY <1>8, StartsAgain
<1>9. CASE UNCHANGED vars
  <2>1. stack' = stack /\ sh' = sh /\ ctl' \in ControlState /\ sh' \in ShellState
    BY <1>9 DEF vars, IInv, TypeOK
  <2> QED  BY <2>1, Keeps DEF SameDepths
<1> QED  BY <1>1, <1>2, <1>3, <1>4, <1>5, <1>6, <1>7, <1>8, <1>9 DEF Next, Step

\* Every reachable state satisfies the inductive invariant: the types, the
\* depths that ControlFlowState holds, and the depths that frames saved of it.
THEOREM Invariance == Spec => []IInv
<1>1. Init => IInv
  BY StartsIn
<1>2. IInv /\ [Next]_vars => IInv'
  BY Inductive
<1> QED  BY <1>1, <1>2, PTL DEF Spec
\* Whatever the script and the limits, every variable keeps its type: no depth of
\* ControlFlowState is ever taken off twice, which would leave the naturals.
THEOREM TypeCorrect == Spec => []TypeOK
<1>1. IInv => TypeOK
  BY DEF IInv
<1> QED  BY <1>1, Invariance, PTL

\* Whatever the limits and the script, loopDepth, callDepth, sourceDepth,
\* substitution depth and inCondition always tell which constructs are in progress,
\* if no function of the script is defined with a redirection.
THEOREM DepthsCorrect ==
  ASSUME "fredir" \notin Forms
  PROVE  Spec => []DepthsMatchStack
<1>1. IInv => DepthsMatchStack
  <2>1. \A depth, n : CallsHold(depth, n) => depth = n
    BY DEF CallsHold
  <2> QED  BY <2>1 DEF IInv, Counts, Tracks, DepthsMatchStack, LoopDepthMatches,
      CallDepthMatches, SourceDepthMatches, SubstDepthMatches, ConditionMatches
<1> QED  BY <1>1, Invariance, PTL

\* And if one is, still all of them but callDepth do.
THEOREM OtherDepthsCorrect ==
  Spec => [](/\ LoopDepthMatches /\ SourceDepthMatches
             /\ SubstDepthMatches /\ ConditionMatches)
<1>1. IInv => /\ LoopDepthMatches /\ SourceDepthMatches
              /\ SubstDepthMatches /\ ConditionMatches
  BY DEF IInv, Counts, Tracks, LoopDepthMatches, SourceDepthMatches,
         SubstDepthMatches, ConditionMatches
<1> QED  BY <1>1, Invariance, PTL

\* An ErrexitError comes from the end of a statement or from the frame above.
LEMMA ErrexitOrigin ==
  ASSUME IInv, [Next]_vars, ctl'.t = "throw", ctl'.e = "errexit"
  PROVE  \/ StatementEnds
         \/ ctl' = ctl /\ stack' = stack
         \/ ctl' = ctl /\ stack # <<>> /\ stack' = Below
<1>a. /\ Run.t = "run" /\ \A c, by : Result(c, by).t = "ret"
      /\ \A e, lv, c : Thrown(e, lv, c).e = e
      /\ \A t : Finished(t).t = t
  BY DEF Run, Result, Thrown, Finished
<1>b. /\ \A f : ~Call(f) /\ ~Stay(f) /\ ~Start(f)
      /\ \A g, f : ~CallFrom(g, f)
      /\ \A c : ~Return(c) /\ ~Forward(c) /\ ~Finish(c)
      /\ \A e, c : Throw(e, c) => e = "errexit"
      /\ \A e : ThrowHere(e) => e = "errexit"
      /\ Rethrow => ctl' = ctl /\ stack' = Below
  BY <1>a DEF Call, Stay, Start, CallFrom, Return, Forward, Finish, Throw, ThrowHere, Rethrow
<1>c. ctl \in ControlState
  BY DEF IInv, TypeOK
<1>d. "errexit" \notin Expansion
  BY DEF Expansion
<1>1. CASE Lists
  BY <1>1, <1>b DEF Lists, ExecuteStatement, StatementReturned, ScriptEnds, ScriptCatches,
              ListEnds, ListCatches, ConditionLeaves, Running, Throwing
<1>2. CASE Statements
  <2>1. \A c : ~CollectSegment(c)
    BY <1>b DEF CollectSegment
  <2> QED  BY Zenon, <1>2, <1>b, <2>1 DEF Statements, NextPipeline, PipelineReturned,
              StatementThrows, SegmentReturned, SegmentThrows, Throwing
<1>3. CASE Compounds
  <2>1. ~DefineFunction /\ ~CompoundFails
    BY <1>a, <1>d DEF DefineFunction, CompoundFails
  <2> QED  BY Zenon, <1>3, <1>b, <2>1 DEF Compounds, EnterIf, EnterCase, EnterGroup,
      EvaluateIfCondition, IfReturned, CaseItem, CaseReturned, BranchThrows, GroupEnds,
      GroupCatches, RunSubshell, SubshellEnds, SubshellCatches, Throwing
<1>4. CASE Loops
  <2>1. \A l : [ctl EXCEPT !.lv = l].e = ctl.e
    BY <1>c DEF ControlState
  <2> QED  BY <1>4, <1>b, <1>d, <2>1 DEF Loops, EnterLoop, NextIteration, ForEnds, ForHeaderThrows, WhileTested,
      UntilTested, LoopBodyEnds, WhileConditionThrows, UntilConditionThrows,
      LoopBodyThrows, Throwing
<1>5. CASE Simples
  <2>1. ~\E e \in {"break", "continue"} : LoopExit(e)
    BY <1>a, <1>b DEF LoopExit
  <2> QED  BY Zenon, <1>5, <1>b, <1>d, <2>1 DEF Simples, BeginAssignment, BeginCommand, Substitute,
      SubstitutionLeaves, WordExpanded, WordFails, Assign, Builtin, ChangeDir, SetOption,
      ReturnBuiltin, ExitBuiltin, CommandReturned, CommandThrows, Throwing
<1>6. CASE Callers
  <2>a. ctl' # Thrown("limit", 0, 1)
    BY <1>a
  <2>b. ~CallFunction
    BY Zenon, <1>b, <2>a DEF CallFunction
  <2>1. ~CallFunction /\ ~Evaluate /\ ~Source /\ ~RunUserScript
    BY Zenon, <1>b, <2>b DEF Evaluate, Source, RunUserScript
  <2>2. ~RunFunctionBody /\ ~RunScript /\ ~FunctionRedirectFails
    BY Zenon, <1>b, <1>d DEF RunFunctionBody, RunScript, FunctionRedirectFails
  <2>3. CASE FunctionLeaves \/ EvalLeaves \/ SourceLeaves \/ UserScriptLeaves
    <3>1. Throwing({"call", "eval", "source", "ush"}) /\ Rethrow
      BY <1>b, <2>3 DEF FunctionLeaves, EvalLeaves, SourceLeaves, UserScriptLeaves, Throwing
    <3> QED  BY <1>b, <3>1 DEF Throwing
  <2> QED  BY <1>6, <2>1, <2>2, <2>3 DEF Callers
<1>7. CASE ExecSettles \/ ExecAgain \/ UNCHANGED vars
  BY ZenonT(60), <1>7, <1>a DEF ExecSettles, ExecAgain, vars
<1> QED  BY <1>1, <1>2, <1>3, <1>4, <1>5, <1>6, <1>7 DEF Next, Step

\* Fewer frames have fewer conditions among them.
LEMMA ConditionsBelow ==
  ASSUME IInv, stack # <<>>, ConditionFrames(stack, Len(stack)) = {}
  PROVE  ConditionFrames(Below, Len(Below)) = {}
<1> DEFINE n == Len(stack)
<1>1. n \in Nat /\ n > 0 /\ Len(Below) = n - 1 /\ \A i \in 1 .. n - 1 : Below[i] = stack[i]
  BY Typed DEF IInv
<1> HIDE DEF n
<1>2. ConditionFrames(Below, n - 1) = ConditionFrames(stack, n - 1)
  <2>1. n - 1 \in Nat /\ \A i \in 1 .. (n - 1) : Below[i] = stack[i]
    BY <1>1
  <2> QED  BY <2>1 DEF ConditionFrames
<1>3. ConditionFrames(stack, n - 1) = {}
  BY <1>1, ConditionFramesStep DEF n
<1> QED  BY <1>1, <1>2, <1>3

\* The conditions in progress in the next state are those of the next stack.
LEMMA ConditionFramesNext ==
  (ConditionFrames(stack, Len(stack)) = {})' <=> ConditionFrames(stack', Len(stack')) = {}
  BY DEF ConditionFrames, TestsCondition

\* With set -e, no ErrexitError ever arises or passes under a condition, however
\* deep the functions, groups, subshells and substitutions in it nest.
THEOREM ErrexitCorrect == Spec => []ErrexitOutsideConditions
<1>1. Init => ErrexitOutsideConditions
  <2>1. Run.t # "throw"
    BY DEF Run
  <2> QED  BY Zenon, <2>1 DEF Init, ErrexitOutsideConditions
<1>2. ASSUME IInv, [Next]_vars, ErrexitOutsideConditions
      PROVE  ErrexitOutsideConditions'
  <2> SUFFICES ASSUME ctl'.t = "throw", ctl'.e = "errexit"
               PROVE  ConditionFrames(stack', Len(stack')) = {}
    BY ConditionFramesNext DEF ErrexitOutsideConditions
  <2>1. CASE StatementEnds
    <3>1. stack # <<>> /\ stack' = Below /\ ~sh.inCondition
      BY <2>1 DEF StatementEnds, Running, Throw, Return, Result, Thrown
    <3>2. ConditionFrames(stack, Len(stack)) = {}
      BY <1>2, <3>1 DEF IInv, Counts, Tracks
    <3> QED  BY <1>2, <3>1, <3>2, ConditionsBelow
  <2>2. CASE ctl' = ctl /\ stack' = stack
    BY <1>2, <2>2 DEF ErrexitOutsideConditions
  <2>3. CASE ctl' = ctl /\ stack # <<>> /\ stack' = Below
    BY <1>2, <2>3, ConditionsBelow DEF ErrexitOutsideConditions
  <2> QED  BY <1>2, <2>1, <2>2, <2>3, ErrexitOrigin
<1> QED  BY <1>1, <1>2, Invariance, PTL DEF Spec

-----------------------------------------------------------------------------
(* What one step does to the stack.                                        *)

\* The frames that keep what they saved on entry until they are left.
Savers == {"subshell", "subst", "ush"}

\* The frame on top goes on as g.
GoesOnAs(g) == g.k = Top.k /\ (g.k \in Savers => g.sv = Top.sv)

\* f is on top of the frames of before, of which the last may have gone on.
Entered(f) ==
  /\ stack # <<>> /\ Len(stack') = Len(stack) + 1
  /\ \A i \in 1 .. Len(stack) - 1 : stack'[i] = stack[i]
  /\ GoesOnAs(stack'[Len(stack)])
  /\ stack'[Len(stack) + 1] = f

\* What f saves, and what entering f may change.
Saves(f) ==
  /\ f.k = "subshell" =>
       Visible(f.sv) = Visible(sh) /\ f.sv.parentHasLoop = sh.parentHasLoop
  /\ f.k \in Savers => f.sv.env = sh.env
  /\ f.k = "ush" => "ush" \in Forms
  /\ f.k \notin BoundaryKinds => sh'.parentHasLoop = sh.parentHasLoop

Enter == \E f \in FrameState : Entered(f) /\ Saves(f)

\* The frame on top is left, and gives back what it saved.
GivesBack ==
  /\ Top.k = "subshell" =>
       Visible(sh') = Visible(Top.sv) /\ sh'.parentHasLoop = Top.sv.parentHasLoop
  /\ Isolates(Top) => sh'.env = Top.sv.env
  /\ Top.k \notin BoundaryKinds => sh'.parentHasLoop = sh.parentHasLoop

Leave == stack # <<>> /\ stack' = Below /\ GivesBack

\* No frame is entered or left.
Remain ==
  /\ stack # <<>> /\ Len(stack') = Len(stack)
  /\ \A i \in 1 .. Len(stack) - 1 : stack'[i] = stack[i]
  /\ GoesOnAs(stack'[Len(stack)])
  /\ sh'.parentHasLoop = sh.parentHasLoop

Moves == Enter \/ Leave \/ Remain

\* The stack after each way to move it.
LEMMA MovesOfStack ==
  ASSUME TypeOK, stack # <<>>
  PROVE  /\ \A f : Call(f) => Entered(f)
         /\ \A g, f : CallFrom(g, f) /\ g \in FrameState /\ GoesOnAs(g) => Entered(f)
         /\ \A g : stack' = Update(g) /\ g \in FrameState /\ GoesOnAs(g)
                     /\ sh'.parentHasLoop = sh.parentHasLoop => Remain
         /\ stack' = stack /\ sh'.parentHasLoop = sh.parentHasLoop => Remain
<1> DEFINE n == Len(stack)
<1>1. stack \in Seq(FrameState) /\ n \in Nat \ {0} /\ Top = stack[n]
  BY Typed DEF Top
<1>2. GoesOnAs(Top)
  BY DEF GoesOnAs
<1>3. ASSUME NEW f, Call(f)
      PROVE  Entered(f)
  <2>1. stack' = Append(stack, f)
    BY <1>3 DEF Call
  <2>2. /\ Len(stack') = n + 1 /\ stack'[n + 1] = f
        /\ \A i \in 1 .. n : stack'[i] = stack[i]
    BY <1>1, <2>1
  <2> QED
    BY <1>1, <1>2, <2>2 DEF Entered
<1>4. ASSUME NEW g \in FrameState, GoesOnAs(g)
      PROVE  /\ Update(g) \in Seq(FrameState) /\ Len(Update(g)) = n /\ Update(g)[n] = g
             /\ \A i \in 1 .. n - 1 : Update(g)[i] = stack[i]
  BY <1>1, <1>4 DEF Update
<1>5. ASSUME NEW g \in FrameState, GoesOnAs(g), NEW f, CallFrom(g, f)
      PROVE  Entered(f)
  <2>1. stack' = Append(Update(g), f)
    BY <1>5 DEF CallFrom
  <2>2. /\ Len(stack') = n + 1 /\ stack'[n + 1] = f
        /\ \A i \in 1 .. n : stack'[i] = Update(g)[i]
    BY <1>1, <1>4, <1>5, <2>1
  <2> QED
    BY <1>1, <1>4, <1>5, <2>2 DEF Entered
<1>6. ASSUME NEW g \in FrameState, GoesOnAs(g), stack' = Update(g),
             sh'.parentHasLoop = sh.parentHasLoop
      PROVE  Remain
  BY <1>1, <1>4, <1>6 DEF Remain
<1>7. ASSUME stack' = stack, sh'.parentHasLoop = sh.parentHasLoop
      PROVE  Remain
  BY <1>1, <1>2, <1>7 DEF Remain
<1> QED
  BY <1>3, <1>5, <1>6, <1>7

\* Every way to leave the frame on top.
LEMMA MovesDown ==
  /\ \A c : Return(c) => stack' = Below
  /\ \A c : Forward(c) => stack' = Below
  /\ \A c : Finish(c) => stack' = Below
  /\ \A e, c : Throw(e, c) => stack' = Below
  /\ Rethrow => stack' = Below
BY DEF Return, Forward, Finish, Throw, Rethrow

\* Frames that save nothing for the parent, and leave it alone.
Transparent ==
  {"script", "list", "cond", "if", "case", "group", "call", "simple", "stmt", "eval", "source"}
    \cup LoopKinds

\* Leaving such a frame.
LEMMA TransparentLeft ==
  ASSUME stack # <<>>, stack' = Below, Top.k \in Transparent,
         sh'.parentHasLoop = sh.parentHasLoop
  PROVE  Leave
BY DEF Leave, GivesBack, Isolates, Transparent, BoundaryKinds, LoopKinds

\* Going on in a frame.
LEMMA Stays ==
  ASSUME TypeOK, stack # <<>>, NEW g \in FrameState, GoesOnAs(g), Stay(g),
         sh'.parentHasLoop = sh.parentHasLoop
  PROVE  Remain
BY MovesOfStack DEF Stay

\* Entering a frame that saves nothing.
LEMMA TransparentEntered ==
  ASSUME NEW f \in FrameState, Entered(f), f.k \in Transparent \cup {"pipe"},
         sh'.parentHasLoop = sh.parentHasLoop
  PROVE  Enter
<1>1. f.k \notin Savers /\ f.k # "subshell" /\ f.k # "ush"
  BY DEF Savers, Transparent, LoopKinds
<1> QED
  BY <1>1 DEF Enter, Saves


\* A change of the state that leaves parentHasLoop and the environment as they are.
LEMMA StateFields ==
  ASSUME TypeOK
  PROVE  /\ sh \in ShellState
         /\ \A x : [sh EXCEPT !.count = x].parentHasLoop = sh.parentHasLoop
         /\ \A x, y : [sh EXCEPT !.count = x, !.errexitSafe = y].parentHasLoop = sh.parentHasLoop
         /\ \A x : [sh EXCEPT !.errexitSafe = x].parentHasLoop = sh.parentHasLoop
         /\ \A x : [sh EXCEPT !.lastExit = x].parentHasLoop = sh.parentHasLoop
         /\ \A x : [sh EXCEPT !.inCondition = x].parentHasLoop = sh.parentHasLoop
         /\ \A x : [sh EXCEPT !.loopDepth = x].parentHasLoop = sh.parentHasLoop
         /\ \A x : [sh EXCEPT !.env = x].parentHasLoop = sh.parentHasLoop
         /\ \A x : [sh EXCEPT !.fns = x].parentHasLoop = sh.parentHasLoop
         /\ \A x : [sh EXCEPT !.sourceDepth = x].parentHasLoop = sh.parentHasLoop
         /\ \A x : [sh EXCEPT !.substDepth = x].parentHasLoop = sh.parentHasLoop
         /\ \A x, y : [sh EXCEPT !.callDepth = x, !.scopes = y].parentHasLoop = sh.parentHasLoop
BY DEF TypeOK, ShellState

\* The frame on top goes on with other counters, another phase, another flag.
LEMMA TopFields ==
  ASSUME TypeOK, stack # <<>>,
         NEW n \in Nat, NEW c \in Status, NEW a \in Nat, NEW b \in BOOLEAN, NEW ph \in Phases
  PROVE  /\ [Top EXCEPT !.aux = a, !.flag = b] \in FrameState
         /\ GoesOnAs([Top EXCEPT !.aux = a, !.flag = b])
         /\ [Top EXCEPT !.code = c, !.flag = b] \in FrameState
         /\ GoesOnAs([Top EXCEPT !.code = c, !.flag = b])
         /\ [Top EXCEPT !.code = c] \in FrameState /\ GoesOnAs([Top EXCEPT !.code = c])
         /\ [Top EXCEPT !.n = n] \in FrameState /\ GoesOnAs([Top EXCEPT !.n = n])
         /\ [Top EXCEPT !.n = n, !.flag = b] \in FrameState
         /\ GoesOnAs([Top EXCEPT !.n = n, !.flag = b])
         /\ [Top EXCEPT !.code = c, !.aux = a, !.ph = ph] \in FrameState
         /\ GoesOnAs([Top EXCEPT !.code = c, !.aux = a, !.ph = ph])
         /\ [Top EXCEPT !.ph = ph] \in FrameState /\ GoesOnAs([Top EXCEPT !.ph = ph])
         /\ [Top EXCEPT !.ph = ph, !.flag = b] \in FrameState
         /\ GoesOnAs([Top EXCEPT !.ph = ph, !.flag = b])
         /\ Top \in FrameState /\ GoesOnAs(Top)
<1>1. Top \in FrameState
  BY Typed
<1> QED
  BY <1>1 DEF FrameState, GoesOnAs

-----------------------------------------------------------------------------
(* The moves of the actions.                                               *)

LEMMA ListsMove ==
  ASSUME TypeOK, Lists
  PROVE  Moves
<1>1. CASE ExecuteStatement
  <2>1. stack # <<>> /\ sh'.parentHasLoop = sh.parentHasLoop
    <3>1. \/ sh' = [sh EXCEPT !.count = Counted]
          \/ sh' = [sh EXCEPT !.count = Counted, !.errexitSafe = FALSE]
      BY <1>1 DEF ExecuteStatement
    <3>2. stack # <<>>
      BY <1>1 DEF ExecuteStatement
    <3>3. sh \in ShellState
      BY StateFields
    <3> QED
      BY <3>1, <3>2, <3>3 DEF ShellState
  <2>2. CASE stack' = stack
    BY <2>1, <2>2, MovesOfStack DEF Moves
  <2>3. CASE Call(Frame("stmt", "own"))
    <3>1. Frame("stmt", "own") \in FrameState /\ Frame("stmt", "own").k = "stmt"
      BY Zenon, PushedTyped, FrameFields
    <3>2. Entered(Frame("stmt", "own"))
      BY <2>1, <2>3, MovesOfStack
    <3> QED
      BY <2>1, <3>1, <3>2, TransparentEntered DEF Moves, Transparent
  <2> QED
    BY <1>1, <2>2, <2>3 DEF ExecuteStatement, ThrowHere
<1>2. CASE StatementReturned
  <2>1. stack # <<>> /\ sh'.parentHasLoop = sh.parentHasLoop /\ ctl.code \in Status /\ ctl.code \in Nat
    BY <1>2, StateFields, Typed DEF StatementReturned, Status
  <2> DEFINE g == [Top EXCEPT !.aux = ctl.code, !.flag = TRUE]
             h == [Top EXCEPT !.code = ctl.code, !.flag = TRUE]
  <2>2. g \in FrameState /\ GoesOnAs(g) /\ h \in FrameState /\ GoesOnAs(h)
    BY ZenonT(60), <2>1, TopFields, Typed
  <2>3. Stay(g) \/ Stay(h)
    BY <1>2 DEF StatementReturned
  <2> HIDE DEF g, h
  <2> QED
    BY <2>1, <2>2, <2>3, Stays DEF Moves
<1>3. CASE ScriptCatches
  <2>1. stack # <<>> /\ Top.k = "script" /\ sh'.parentHasLoop = sh.parentHasLoop
    BY ZenonT(60), <1>3, StateFields DEF ScriptCatches, Throwing
  <2>2. CASE stack' = Below
    BY <2>1, <2>2, TransparentLeft DEF Moves, Transparent
  <2>3. CASE Stay(Top) \/ Stay([Top EXCEPT !.code = 1])
    <3>1. /\ [Top EXCEPT !.code = 1] \in FrameState /\ GoesOnAs([Top EXCEPT !.code = 1])
          /\ Top \in FrameState /\ GoesOnAs(Top)
      BY Zenon, <2>1, TopFields, Typed DEF Status
    <3> QED
      BY <2>1, <2>3, <3>1, Stays DEF Moves
  <2> QED
    BY <1>3, <2>2, <2>3, MovesDown DEF ScriptCatches
<1>4. CASE ScriptEnds \/ ListEnds \/ ListCatches \/ ConditionLeaves
  <2>1. /\ stack # <<>> /\ Top.k \in Transparent /\ stack' = Below
        /\ sh'.parentHasLoop = sh.parentHasLoop
    <3>1. sh' = sh \/ sh' = [sh EXCEPT !.inCondition = Top.sv.inCondition]
      BY <1>4 DEF ScriptEnds, ListEnds, ListCatches, ConditionLeaves
    <3>2. stack # <<>> /\ Top.k \in {"script", "list", "cond"} /\ stack' = Below
      BY <1>4, MovesDown DEF ScriptEnds, ListEnds, ListCatches, ConditionLeaves, Running, Throwing
    <3> QED
      BY <3>1, <3>2, StateFields DEF Transparent
  <2> QED
    BY <2>1, TransparentLeft DEF Moves
<1> QED
  BY <1>1, <1>2, <1>3, <1>4 DEF Lists

\* The pipeline frame on top remembers the environment of its next command.
LEMMA SegmentGoesOn ==
  ASSUME TypeOK, stack # <<>>, Top.k = "pipe"
  PROVE  Segment \in FrameState /\ GoesOnAs(Segment)
<1>0. Top \in FrameState /\ Top.sv \in ShellState /\ Top.n \in Nat /\ sh \in ShellState
  BY Typed
<1>1. Top \in FrameState /\ Top.sv \in ShellState /\ Top.n + 1 \in Nat /\ sh.env \in Values
  BY SMTT(30), <1>0 DEF ShellState
<1> DEFINE v == [Top.sv EXCEPT !.env = sh.env]
<1>2. v \in ShellState
  BY <1>1 DEF ShellState
<1>3. Segment = [Top EXCEPT !.n = Top.n + 1, !.sv = v]
  BY <1>1 DEF Segment, FrameState
<1> HIDE DEF v
<1>4. Segment \in FrameState /\ Segment.k = Top.k
  BY <1>1, <1>2, <1>3 DEF FrameState
<1> QED
  BY <1>4 DEF GoesOnAs, Savers

LEMMA StatementsMove ==
  ASSUME TypeOK, Statements
  PROVE  Moves
<1>1. CASE NextPipeline
  <2>1. stack # <<>> /\ sh'.parentHasLoop = sh.parentHasLoop /\ Top.n + 1 \in Nat
    <3>1. stack # <<>> /\ sh' = sh
      BY Zenon, <1>1 DEF NextPipeline, Running
    <3>2. Top.n \in Nat
      BY <3>1, Typed
    <3> QED
      BY <3>1, <3>2
  <2>2. CASE Stay([Top EXCEPT !.n = @ + 1])
    <3>1. [Top EXCEPT !.n = Top.n + 1] \in FrameState /\ GoesOnAs([Top EXCEPT !.n = Top.n + 1])
      BY Zenon, <2>1, TopFields, Typed
    <3> QED
      BY <2>1, <2>2, <3>1, Stays DEF Moves
  <2>3. ASSUME NEW negated \in BOOLEAN, NEW commands \in Nat,
               CallFrom([Top EXCEPT !.n = @ + 1, !.flag = negated],
                        [Frame("pipe", "") EXCEPT !.m = commands, !.flag = negated])
        PROVE  Moves
    <3> DEFINE g == [Top EXCEPT !.n = Top.n + 1, !.flag = negated]
               f == [Frame("pipe", "") EXCEPT !.m = commands, !.flag = negated]
    <3>1. g \in FrameState /\ GoesOnAs(g)
      BY ZenonT(60), <2>1, TopFields, Typed
    <3>2. Frame("pipe", "") \in FrameState /\ Frame("pipe", "").k = "pipe"
      BY Zenon, PushedTyped, FrameFields
    <3>3. f \in FrameState /\ f.k = "pipe"
      BY Zenon, <3>2 DEF FrameState
    <3>4. CallFrom(g, f)
      BY <2>3
    <3> HIDE DEF g, f
    <3>5. Entered(f)
      BY <2>1, <3>1, <3>4, MovesOfStack
    <3> QED
      BY <2>1, <3>3, <3>5, TransparentEntered DEF Moves
  <2>4. \A c \in 1 .. (IF "pipe" \in Forms THEN MaxSegments ELSE 1) : c \in Nat
    BY BoundsAssumption
  <2>5. \A n \in {FALSE} \cup (IF "not" \in Forms THEN {TRUE} ELSE {}) : n \in BOOLEAN
    OBVIOUS
  <2> QED
    BY Zenon, <1>1, <2>2, <2>3, <2>4, <2>5 DEF NextPipeline
<1>2. CASE PipelineReturned
  <2>1. /\ stack # <<>> /\ sh'.parentHasLoop = sh.parentHasLoop
        /\ ctl.code \in Status /\ Top.n \in Nat /\ ctl.by \in Makers
    BY <1>2, StateFields, Typed DEF PipelineReturned, Returned
  <2> DEFINE ph == IF Top.ph = "own" \/ ctl.by # "own" THEN ctl.by ELSE "mixed"
             g == [Top EXCEPT !.code = ctl.code, !.aux = Top.n, !.ph = ph]
  <2>2. ph \in Phases
    BY Zenon, <2>1 DEF Phases, Makers
  <2>3. Stay(g)
    BY <1>2 DEF PipelineReturned
  <2> HIDE DEF ph
  <2>4. g \in FrameState /\ GoesOnAs(g)
    BY Zenon, <2>1, <2>2, TopFields, Typed
  <2> HIDE DEF g
  <2> QED
    BY <2>1, <2>3, <2>4, Stays DEF Moves
<1>3. CASE StatementEnds \/ StatementThrows
  <2>1. /\ stack # <<>> /\ Top.k \in Transparent /\ stack' = Below
        /\ sh'.parentHasLoop = sh.parentHasLoop
    <3>1. sh' = sh \/ \E x : sh' = [sh EXCEPT !.errexitSafe = x]
      BY <1>3 DEF StatementEnds, StatementThrows
    <3>2. stack # <<>> /\ Top.k = "stmt" /\ stack' = Below
      BY <1>3, MovesDown DEF StatementEnds, StatementThrows, Running, Throwing
    <3> QED
      BY <3>1, <3>2, StateFields DEF Transparent
  <2> QED
    BY <2>1, TransparentLeft DEF Moves
<1>4. ASSUME stack # <<>>, Top.k = "pipe", NEW c \in Status, CollectSegment(c)
      PROVE  Moves
  <2>1. /\ sh' = IF RunsInSubshell(Top) THEN [sh EXCEPT !.env = Top.sv.env] ELSE sh
        /\ sh'.parentHasLoop = sh.parentHasLoop
    BY <1>4, StateFields DEF CollectSegment
  <2> DEFINE pf == IF c # 0 THEN c ELSE Top.code
  <2>2. pf \in Status
    BY <1>4, Typed
  <2> HIDE DEF pf
  <2>3. CASE Stay([Top EXCEPT !.code = pf])
    <3>1. [Top EXCEPT !.code = pf] \in FrameState /\ GoesOnAs([Top EXCEPT !.code = pf])
      BY Zenon, <1>4, <2>2, TopFields, Typed
    <3> QED
      BY <1>4, <2>1, <2>3, <3>1, Stays DEF Moves
  <2>4. CASE stack' = Below
    <3>1. Isolates(Top) => sh'.env = Top.sv.env
      BY <1>4, <2>1, StateFields DEF Isolates, ShellState
    <3> QED
      BY <1>4, <2>1, <2>4, <3>1 DEF Moves, Leave, GivesBack
  <2>5. Stay([Top EXCEPT !.code = pf]) \/ stack' = Below
    BY <1>4, MovesDown DEF CollectSegment, pf
  <2> QED
    BY <2>3, <2>4, <2>5
<1>5. CASE SegmentReturned
  <2>1. stack # <<>> /\ Top.k = "pipe" /\ ctl.code \in Status
    BY <1>5, Typed DEF SegmentReturned, Returned
  <2> QED
    BY <1>4, <1>5, <2>1 DEF SegmentReturned
<1>6. CASE SegmentThrows
  <2>1. stack # <<>> /\ Top.k = "pipe" /\ ctl.code \in Status /\ 1 \in Status
    BY <1>6, Typed DEF SegmentThrows, Throwing, Status
  <2>2. CASE \E c \in {1, ctl.code} : CollectSegment(c)
    BY <1>4, <2>1, <2>2
  <2>3. CASE Rethrow /\ sh' = IF RunsInSubshell(Top) THEN [sh EXCEPT !.env = Top.sv.env] ELSE sh
    <3>1. stack' = Below /\ sh'.parentHasLoop = sh.parentHasLoop
      BY <2>3, StateFields, MovesDown
    <3>2. Isolates(Top) => sh'.env = Top.sv.env
      BY <2>1, <2>3, StateFields DEF Isolates, ShellState
    <3> QED
      BY <2>1, <3>1, <3>2 DEF Moves, Leave, GivesBack
  <2> QED
    BY <1>6, <2>2, <2>3 DEF SegmentThrows
<1> QED
  BY <1>1, <1>2, <1>3, <1>5, <1>6 DEF Statements

\* The frames just entered that save nothing.
LEMMA TransparentFrames ==
  /\ Frame("case", "next") \in FrameState /\ Frame("case", "next").k \in Transparent
  /\ Frame("group", "") \in FrameState /\ Frame("group", "").k \in Transparent
  /\ Frame("if", "cond") \in FrameState /\ Frame("if", "cond").k \in Transparent
  /\ Frame("list", "") \in FrameState /\ Frame("list", "").k \in Transparent
  /\ Frame("script", "") \in FrameState /\ Frame("script", "").k \in Transparent
  /\ Frame("call", "") \in FrameState /\ Frame("call", "").k \in Transparent
  /\ Frame("eval", "") \in FrameState /\ Frame("eval", "").k \in Transparent
  /\ Frame("source", "") \in FrameState /\ Frame("source", "").k \in Transparent
  /\ \A k \in LoopKinds : Frame(k, "next") \in FrameState /\ Frame(k, "next").k \in Transparent
<1>1. /\ Frame("case", "next").k = "case"
      /\ Frame("group", "").k = "group"
      /\ Frame("if", "cond").k = "if"
      /\ Frame("list", "").k = "list"
      /\ Frame("script", "").k = "script"
      /\ Frame("call", "").k = "call"
      /\ Frame("eval", "").k = "eval"
      /\ Frame("source", "").k = "source"
      /\ \A k \in LoopKinds : Frame(k, "next").k = k
  BY Zenon, FrameFields
<1>2. {"case", "group", "if", "list", "script", "call", "eval", "source"} \cup LoopKinds
        \subseteq Transparent
  BY DEF Transparent
<1>3. \A k \in LoopKinds : Frame(k, "next") \in FrameState
  BY Zenon, PushedTyped DEF LoopKinds
<1> QED
  BY Zenon, <1>1, <1>2, <1>3, PushedTyped

\* The frame of a condition, which has nothing to give back to the parent shell.
LEMMA ConditionTyped ==
  ASSUME TypeOK
  PROVE  Condition \in FrameState /\ Condition.k = "cond"
<1>1. sh \in ShellState /\ sh.inCondition \in BOOLEAN
  BY DEF TypeOK, ShellState
<1> DEFINE v == [Fresh EXCEPT !.inCondition = sh.inCondition]
<1>2. v \in ShellState
  BY <1>1, FreshTyped DEF ShellState
<1>3. /\ Frame("cond", "") \in FrameState /\ Frame("cond", "").k = "cond"
      /\ Frame("cond", "").sv = Fresh
  BY Zenon, PushedTyped, FrameFields
<1>4. Condition = [Frame("cond", "") EXCEPT !.sv = v]
  BY Zenon, <1>3 DEF Condition, FrameState
<1> HIDE DEF v
<1> QED
  BY Zenon, <1>2, <1>3, <1>4 DEF FrameState

\* The frame of a subshell saves what the parent must get back.
LEMMA SubshellSaves ==
  ASSUME TypeOK
  PROVE  /\ EnterSubshell \in FrameState /\ EnterSubshell.k = "subshell"
         /\ EnterSubshell.sv \in ShellState
         /\ Visible(EnterSubshell.sv) = Visible(sh)
         /\ EnterSubshell.sv.parentHasLoop = sh.parentHasLoop
         /\ EnterSubshell.sv.env = sh.env
<1> DEFINE v == [sh EXCEPT !.count = Fresh.count, !.lastExit = 0, !.errexitSafe = FALSE,
                           !.callDepth = 0, !.sourceDepth = 0, !.substDepth = 0,
                           !.inCondition = FALSE]
<1>1. sh \in ShellState /\ Fresh.count \in Nat
  BY FreshTyped DEF TypeOK, ShellState
<1>2. /\ v \in ShellState /\ v.parentHasLoop = sh.parentHasLoop /\ v.env = sh.env
      /\ v.cwd = sh.cwd /\ v.errexit = sh.errexit /\ v.pipefail = sh.pipefail /\ v.fns = sh.fns
  BY <1>1 DEF ShellState, Status
<1>3. Frame("subshell", "") \in FrameState /\ Frame("subshell", "").k = "subshell"
  BY Zenon, PushedTyped, FrameFields
<1>4. EnterSubshell = [Frame("subshell", "") EXCEPT !.sv = v]
  BY DEF EnterSubshell
<1> HIDE DEF v
<1>5. EnterSubshell \in FrameState /\ EnterSubshell.k = "subshell" /\ EnterSubshell.sv = v
  BY Zenon, <1>2, <1>3, <1>4 DEF FrameState
<1> QED
  BY <1>2, <1>5 DEF Visible

\* What RestoreFrom gives back of a saved state.
LEMMA Restores ==
  ASSUME TypeOK, NEW sv \in ShellState
  PROVE  /\ Visible(RestoreFrom(sv)) = Visible(sv)
         /\ RestoreFrom(sv).parentHasLoop = sv.parentHasLoop
         /\ RestoreFrom(sv).env = sv.env
         /\ RestoreFrom(sv) \in ShellState
<1>1. sh \in ShellState
  BY DEF TypeOK
<1> QED
  BY <1>1 DEF RestoreFrom, Visible, ShellState

\* A pipeline starts a command that saves nothing.
LEMMA StartsTransparent ==
  ASSUME TypeOK, stack # <<>>, Top.k = "pipe", NEW f \in FrameState, Start(f),
         f.k \in Transparent, sh'.parentHasLoop = sh.parentHasLoop
  PROVE  Moves
<1>1. Entered(f)
  BY SegmentGoesOn, MovesOfStack DEF Start
<1> QED
  BY <1>1, TransparentEntered DEF Moves

LEMMA CompoundsMove ==
  ASSUME TypeOK, Compounds
  PROVE  Moves
<1>1. CASE EnterIf \/ EnterCase \/ EnterGroup
  <2>1. stack # <<>> /\ Top.k = "pipe" /\ sh' = sh
    BY Zenon, <1>1 DEF EnterIf, EnterCase, EnterGroup, Command, Running
  <2>2. Start(Frame("if", "cond")) \/ Start(Frame("case", "next")) \/ Start(Frame("group", ""))
    BY Zenon, <1>1 DEF EnterIf, EnterCase, EnterGroup
  <2>3. /\ Frame("if", "cond") \in FrameState /\ Frame("if", "cond").k \in Transparent
        /\ Frame("case", "next") \in FrameState /\ Frame("case", "next").k \in Transparent
        /\ Frame("group", "") \in FrameState /\ Frame("group", "").k \in Transparent
    BY Zenon, TransparentFrames
  <2> QED
    BY Zenon, <2>1, <2>2, <2>3, StartsTransparent
<1>2. CASE DefineFunction \/ CompoundFails
  <2>1. /\ stack # <<>> /\ Top.k = "pipe" /\ stack' = Update(Segment)
    BY <1>2 DEF DefineFunction, CompoundFails, Command, Running
  <2>2. sh'.parentHasLoop = sh.parentHasLoop
    <3>1. sh' = sh \/ sh' = [sh EXCEPT !.fns = TRUE]
      BY <1>2 DEF DefineFunction, CompoundFails
    <3>2. sh \in ShellState
      BY StateFields
    <3> QED
      BY <3>1, <3>2 DEF ShellState
  <2> QED
    BY <2>1, <2>2, SegmentGoesOn, MovesOfStack DEF Moves
<1>3. CASE EvaluateIfCondition
  <2>1. stack # <<>> /\ sh'.parentHasLoop = sh.parentHasLoop /\ Call(Condition)
    BY <1>3, StateFields DEF EvaluateIfCondition, Running
  <2>2. Condition \in FrameState /\ Condition.k = "cond"
    BY <2>1, ConditionTyped
  <2>3. Entered(Condition)
    BY <2>1, MovesOfStack
  <2> QED
    BY <2>1, <2>2, <2>3, TransparentEntered DEF Moves, Transparent
<1>4. CASE IfReturned \/ CaseItem \/ CaseReturned
  <2>1. stack # <<>> /\ Top.k \in {"if", "case"} /\ sh' = sh
    BY Zenon, <1>4 DEF IfReturned, CaseItem, CaseReturned, Running, Returned
  <2>c. ctl.code \in Status
    BY <2>1, Typed
  <2>2. CASE stack' = Below
    BY <2>1, <2>2, TransparentLeft DEF Moves, Transparent
  <2>3. CASE Stay(Top) \/ Stay([Top EXCEPT !.code = ctl.code])
    <3>1. /\ [Top EXCEPT !.code = ctl.code] \in FrameState /\ GoesOnAs([Top EXCEPT !.code = ctl.code])
          /\ Top \in FrameState /\ GoesOnAs(Top)
      BY ZenonT(60), <2>1, <2>c, TopFields, Typed
    <3> QED
      BY <2>1, <2>3, <3>1, Stays DEF Moves
  <2>4. CASE CallFrom([Top EXCEPT !.ph = "body"], Frame("list", "")) \/ Call(Frame("list", ""))
    <3>1. [Top EXCEPT !.ph = "body"] \in FrameState /\ GoesOnAs([Top EXCEPT !.ph = "body"])
      BY Zenon, <2>1, TopFields, Typed, Listed
    <3>2. Frame("list", "") \in FrameState /\ Frame("list", "").k \in Transparent
      BY Zenon, TransparentFrames
    <3>3. Entered(Frame("list", ""))
      BY Zenon, <2>1, <2>4, <3>1, MovesOfStack
    <3> QED
      BY Zenon, <2>1, <3>2, <3>3, TransparentEntered DEF Moves
  <2> QED
    BY Zenon, <1>4, <2>2, <2>3, <2>4, MovesDown DEF IfReturned, CaseItem, CaseReturned
<1>5. CASE BranchThrows \/ GroupEnds \/ GroupCatches
  <2>1. stack # <<>> /\ Top.k \in Transparent /\ stack' = Below /\ sh' = sh
    BY <1>5, MovesDown DEF BranchThrows, GroupEnds, GroupCatches, Running, Throwing, Transparent
  <2> QED
    BY <2>1, TransparentLeft DEF Moves
<1>6. CASE RunSubshell
  <2>1. stack # <<>> /\ Top.k = "pipe" /\ CallFrom(Segment, EnterSubshell)
    BY <1>6 DEF RunSubshell, Command, Running, Start
  <2>2. Entered(EnterSubshell)
    BY <2>1, SegmentGoesOn, MovesOfStack
  <2> QED
    BY <2>2, SubshellSaves DEF Moves, Enter, Saves, BoundaryKinds
<1>7. CASE SubshellEnds \/ SubshellCatches
  <2>1. stack # <<>> /\ Top.k = "subshell" /\ stack' = Below /\ sh' = RestoreFrom(Top.sv)
    BY <1>7, MovesDown DEF SubshellEnds, SubshellCatches, Running, Throwing
  <2>2. Top.sv \in ShellState
    BY <2>1, Typed
  <2>3. Isolates(Top) => sh'.env = Top.sv.env
    BY <2>1, <2>2, Restores
  <2> QED
    BY <2>1, <2>2, <2>3, Restores DEF Moves, Leave, GivesBack, BoundaryKinds
<1> QED
  BY <1>1, <1>2, <1>3, <1>4, <1>5, <1>6, <1>7 DEF Compounds

\* A loop's frame goes on in another phase, with its counters and what it saved changed.
LEMMA LoopFields ==
  ASSUME TypeOK, stack # <<>>, Top.k \in LoopKinds, NEW n \in Nat, NEW ph \in Phases
  PROVE  /\ [Top EXCEPT !.n = n, !.flag = FALSE, !.ph = ph] \in FrameState
         /\ GoesOnAs([Top EXCEPT !.n = n, !.flag = FALSE, !.ph = ph])
         /\ [Top EXCEPT !.n = n, !.flag = FALSE, !.ph = ph, !.sv.inCondition = sh.inCondition]
              \in FrameState
         /\ GoesOnAs([Top EXCEPT !.n = n, !.flag = FALSE, !.ph = ph,
                                 !.sv.inCondition = sh.inCondition])
<1>0. Top \in FrameState /\ Top.sv \in ShellState /\ sh \in ShellState
  BY Typed
<1> DEFINE v == [Top.sv EXCEPT !.inCondition = sh.inCondition]
<1>1. v \in ShellState
  BY <1>0 DEF ShellState
<1>2. [Top EXCEPT !.n = n, !.flag = FALSE, !.ph = ph, !.sv.inCondition = sh.inCondition]
        = [Top EXCEPT !.n = n, !.flag = FALSE, !.ph = ph, !.sv = v]
  BY <1>0 DEF FrameState
<1> HIDE DEF v
<1>3. /\ [Top EXCEPT !.n = n, !.flag = FALSE, !.ph = ph, !.sv = v] \in FrameState
      /\ [Top EXCEPT !.n = n, !.flag = FALSE, !.ph = ph, !.sv = v].k = Top.k
      /\ [Top EXCEPT !.n = n, !.flag = FALSE, !.ph = ph] \in FrameState
      /\ [Top EXCEPT !.n = n, !.flag = FALSE, !.ph = ph].k = Top.k
  BY <1>0, <1>1 DEF FrameState
<1> QED
  BY <1>2, <1>3 DEF GoesOnAs, Savers, LoopKinds

\* What the loops do to the state leaves parentHasLoop alone.
LEMMA LoopState ==
  ASSUME TypeOK
  PROVE  /\ OutOfLoop.parentHasLoop = sh.parentHasLoop
         /\ \A x, y : [[sh EXCEPT !.inCondition = x] EXCEPT !.loopDepth = y].parentHasLoop
                        = sh.parentHasLoop
<1>1. sh \in ShellState
  BY DEF TypeOK
<1> QED
  BY <1>1 DEF OutOfLoop, ShellState

LEMMA LoopsMove ==
  ASSUME TypeOK, Loops
  PROVE  Moves
<1>1. ASSUME NEW k \in LoopKinds, EnterLoop(k)
      PROVE  Moves
  <2>1. stack # <<>> /\ Top.k = "pipe" /\ Start(Frame(k, "next"))
    BY <1>1 DEF EnterLoop, Command, Running
  <2>2. sh'.parentHasLoop = sh.parentHasLoop
    BY <1>1, StateFields DEF EnterLoop
  <2> QED
    BY Zenon, <2>1, <2>2, TransparentFrames, StartsTransparent
<1>2. ASSUME stack # <<>>, Top.k \in LoopKinds, stack' = Below,
             sh'.parentHasLoop = sh.parentHasLoop
      PROVE  Moves
  BY <1>2, TransparentLeft DEF Moves, Transparent
<1>3. CASE NextIteration
  <2>1. stack # <<>> /\ Top.k \in LoopKinds
    BY <1>3 DEF NextIteration, Running
  <2>2. Top.n + 1 \in Nat /\ "body" \in Phases /\ "cond" \in Phases
    <3>1. Top.n \in Nat
      BY <2>1, Typed
    <3>2. Top.n + 1 \in Nat
      BY <3>1
    <3> QED
      BY Zenon, <3>2, Listed
  <2>3. sh'.parentHasLoop = sh.parentHasLoop
    <3>1. sh' = sh \/ sh' = OutOfLoop \/ sh' = [sh EXCEPT !.inCondition = TRUE]
      BY <1>3 DEF NextIteration
    <3>2. sh \in ShellState
      BY StateFields
    <3> QED
      BY <3>1, <3>2 DEF OutOfLoop, ShellState
  <2> DEFINE f == [Top EXCEPT !.n = Top.n + 1, !.flag = FALSE]
  <2>4. /\ [f EXCEPT !.ph = "body"] \in FrameState /\ GoesOnAs([f EXCEPT !.ph = "body"])
        /\ [f EXCEPT !.ph = "cond"] \in FrameState /\ GoesOnAs([f EXCEPT !.ph = "cond"])
        /\ [f EXCEPT !.ph = "cond", !.sv.inCondition = sh.inCondition] \in FrameState
        /\ GoesOnAs([f EXCEPT !.ph = "cond", !.sv.inCondition = sh.inCondition])
    BY Zenon, <2>1, <2>2, LoopFields
  <2>5. \/ Throw("limit", 1)
        \/ Stay([f EXCEPT !.ph = "body"])
        \/ Stay([f EXCEPT !.ph = "cond", !.sv.inCondition = sh.inCondition])
        \/ CallFrom([f EXCEPT !.ph = "cond"], Condition)
    BY <1>3 DEF NextIteration
  <2>6. CASE Throw("limit", 1)
    BY <1>2, <2>1, <2>3, <2>6, MovesDown
  <2>7. CASE CallFrom([f EXCEPT !.ph = "cond"], Condition)
    <3>1. Condition \in FrameState /\ Condition.k = "cond"
      BY ConditionTyped
    <3>2. Entered(Condition)
      BY <2>1, <2>4, <2>7, MovesOfStack
    <3> QED
      BY <2>3, <3>1, <3>2, TransparentEntered DEF Moves, Transparent
  <2> HIDE DEF f
  <2>8. CASE \/ Stay([f EXCEPT !.ph = "body"])
             \/ Stay([f EXCEPT !.ph = "cond", !.sv.inCondition = sh.inCondition])
    BY <2>1, <2>3, <2>4, <2>8, Stays DEF Moves
  <2> QED
    BY <2>5, <2>6, <2>7, <2>8
<1>4. CASE ForEnds \/ ForHeaderThrows \/ UntilConditionThrows
  <2>1. stack # <<>> /\ Top.k \in LoopKinds /\ stack' = Below /\ sh' = OutOfLoop
    BY <1>4, MovesDown DEF ForEnds, ForHeaderThrows, UntilConditionThrows, Running, Throwing,
       LoopKinds
  <2> QED
    BY <1>2, <2>1, LoopState
<1>5. CASE WhileTested \/ UntilTested \/ LoopBodyEnds
  <2>1. stack # <<>> /\ Top.k \in LoopKinds
    BY <1>5 DEF WhileTested, UntilTested, LoopBodyEnds, Running, Returned, LoopKinds
  <2>2. sh'.parentHasLoop = sh.parentHasLoop
    <3>1. \/ sh' = sh \/ sh' = OutOfLoop
          \/ \E x : sh' = [sh EXCEPT !.inCondition = x]
          \/ \E x : sh' = [[sh EXCEPT !.inCondition = x] EXCEPT
                             !.loopDepth = [sh EXCEPT !.inCondition = x].loopDepth - 1]
      BY Zenon, <1>5 DEF WhileTested, UntilTested, LoopBodyEnds
    <3>2. sh \in ShellState
      BY StateFields
    <3> QED
      BY Zenon, <3>1, <3>2 DEF OutOfLoop, ShellState
  <2>3. /\ [Top EXCEPT !.ph = "body", !.flag = FALSE] \in FrameState
        /\ GoesOnAs([Top EXCEPT !.ph = "body", !.flag = FALSE])
        /\ [Top EXCEPT !.ph = "body"] \in FrameState /\ GoesOnAs([Top EXCEPT !.ph = "body"])
        /\ [Top EXCEPT !.ph = "next"] \in FrameState /\ GoesOnAs([Top EXCEPT !.ph = "next"])
    BY ZenonT(60), <2>1, TopFields, Typed, Listed
  <2>4. \/ stack' = Below
        \/ Stay([Top EXCEPT !.ph = "body", !.flag = FALSE])
        \/ Stay([Top EXCEPT !.ph = "body"]) \/ Stay([Top EXCEPT !.ph = "next"])
    BY <1>5, MovesDown DEF WhileTested, UntilTested, LoopBodyEnds
  <2> QED
    BY <1>2, <2>1, <2>2, <2>3, <2>4, Stays DEF Moves
<1>6. CASE WhileConditionThrows \/ LoopBodyThrows
  <2>1. stack # <<>> /\ Top.k \in LoopKinds
    BY <1>6 DEF WhileConditionThrows, LoopBodyThrows, Throwing, LoopKinds
  <2>2. sh'.parentHasLoop = sh.parentHasLoop
    <3>1. \/ sh' = sh \/ sh' = OutOfLoop
          \/ \E x : sh' = [sh EXCEPT !.inCondition = x]
          \/ \E x : sh' = [[sh EXCEPT !.inCondition = x] EXCEPT
                             !.loopDepth = [sh EXCEPT !.inCondition = x].loopDepth - 1]
      BY Zenon, <1>6 DEF WhileConditionThrows, LoopBodyThrows
    <3>2. sh \in ShellState
      BY StateFields
    <3> QED
      BY Zenon, <3>1, <3>2 DEF OutOfLoop, ShellState
  <2>3. [Top EXCEPT !.ph = "next"] \in FrameState /\ GoesOnAs([Top EXCEPT !.ph = "next"])
    BY Zenon, <2>1, TopFields, Typed, Listed
  <2>4. stack' = Below \/ Stay([Top EXCEPT !.ph = "next"])
    BY <1>6, MovesDown DEF WhileConditionThrows, LoopBodyThrows
  <2> QED
    BY <1>2, <2>1, <2>2, <2>3, <2>4, Stays DEF Moves
<1> QED
  BY <1>1, <1>3, <1>4, <1>5, <1>6 DEF Loops


\* Undoing a prefix assignment leaves parentHasLoop alone.
LEMMA UndoneParent ==
  ASSUME NEW d \in ShellState
  PROVE  Undone(d).parentHasLoop = d.parentHasLoop
BY DEF Undone, ShellState

LEMMA WordsMove ==
  ASSUME TypeOK, BeginAssignment \/ BeginCommand \/ Substitute
  PROVE  Moves
<1>0. stack # <<>> /\ sh \in ShellState /\ Top \in FrameState
  BY Zenon, Typed DEF BeginAssignment, BeginCommand, Substitute, Command, Running
<1>v. /\ sh.env \in Values /\ sh.cwd \in Dirs /\ sh.substDepth \in Nat
      /\ \A v : [sh EXCEPT !.env = v].parentHasLoop = sh.parentHasLoop
  BY <1>0 DEF ShellState
<1>1. CASE BeginAssignment
  <2>1. Top.k = "pipe" /\ sh' = sh
    BY Zenon, <1>1 DEF BeginAssignment, Command, Running
  <2>2. ASSUME NEW n \in Nat, Start([Frame("simple", "value") EXCEPT !.n = n, !.m = n])
        PROVE  Moves
    <3> DEFINE f == [Frame("simple", "value") EXCEPT !.n = n, !.m = n]
    <3>1. Frame("simple", "value") \in FrameState /\ Frame("simple", "value").k = "simple"
      BY Zenon, PushedTyped, FrameFields
    <3>2. f \in FrameState /\ f.k \in Transparent
      BY <3>1 DEF FrameState, Transparent
    <3>3. Start(f)
      BY <2>2
    <3> HIDE DEF f
    <3> QED
      BY <1>0, <2>1, <3>2, <3>3, StartsTransparent
  <2> QED
    BY Zenon, <1>1, <2>2 DEF BeginAssignment
<1>2. CASE BeginCommand
  <2>1. Top.k = "pipe"
    BY Zenon, <1>2 DEF BeginCommand, Running
  <2> DEFINE F(n) == [Frame("simple", "words") EXCEPT !.n = n, !.m = n]
             P(n) == [F(n) EXCEPT !.flag = TRUE, !.sv.env = sh.env]
  <2>2. ASSUME NEW n \in Nat
        PROVE  F(n) \in FrameState /\ F(n).k = "simple" /\ F(n).sv = Fresh
    <3>1. /\ Frame("simple", "words") \in FrameState
          /\ Frame("simple", "words").k = "simple" /\ Frame("simple", "words").sv = Fresh
      BY Zenon, PushedTyped, FrameFields
    <3> QED
      BY <3>1 DEF FrameState
  <2>3. ASSUME NEW n \in Nat
        PROVE  P(n) \in FrameState /\ P(n).k = "simple"
    <3> DEFINE v == [Fresh EXCEPT !.env = sh.env]
               f == F(n)
    <3>1. v \in ShellState
      BY <1>v, FreshTyped DEF ShellState
    <3>2. f \in FrameState /\ f.k = "simple" /\ f.sv = Fresh
      BY Zenon, <2>2
    <3>3. P(n) = [f EXCEPT !.flag = TRUE, !.sv.env = sh.env]
      OBVIOUS
    <3> HIDE DEF f, F
    <3>4. P(n) = [f EXCEPT !.flag = TRUE, !.sv = v]
      BY <3>2, <3>3 DEF FrameState
    <3> HIDE DEF v, P
    <3> QED
      BY <3>1, <3>2, <3>4 DEF FrameState
  <2>4. \E n \in Nat :
          \/ Start(F(n)) /\ sh' = sh
          \/ Start(P(n)) /\ \E v \in Values : sh' = [sh EXCEPT !.env = v]
    BY Zenon, <1>2 DEF BeginCommand
  <2> HIDE DEF F, P
  <2>5. sh'.parentHasLoop = sh.parentHasLoop
    BY <1>v, <2>4
  <2>6. \E f \in FrameState : f.k \in Transparent /\ Start(f)
    BY <2>2, <2>3, <2>4 DEF Transparent
  <2> QED
    BY <1>0, <2>1, <2>5, <2>6, StartsTransparent
<1>3. CASE Substitute
  <2>1. CASE ThrowHere("limit") /\ sh' = sh
    BY <1>0, <2>1, MovesOfStack DEF ThrowHere, Moves
  <2> DEFINE g == [Top EXCEPT !.n = Top.n - 1]
             v == [Fresh EXCEPT !.env = sh.env, !.cwd = sh.cwd, !.substDepth = sh.substDepth]
             f == [Frame("subst", "") EXCEPT !.sv.env = sh.env, !.sv.cwd = sh.cwd,
                                             !.sv.substDepth = sh.substDepth]
  <2>2. CASE CallFrom(g, f) /\ sh' = [sh EXCEPT !.substDepth = sh.substDepth + 1]
    <3>1. Top.n - 1 \in Nat
      <4>1. Top.n \in Nat /\ Top.n > 0
        BY <1>0, <1>3, Typed DEF Substitute
      <4> QED
        BY <4>1
    <3>2. g \in FrameState /\ GoesOnAs(g)
      BY Zenon, <1>0, <3>1, TopFields, Typed
    <3>3. v \in ShellState /\ v.env = sh.env
      BY <1>v, FreshTyped DEF ShellState
    <3>4. /\ Frame("subst", "") \in FrameState /\ Frame("subst", "").k = "subst"
          /\ Frame("subst", "").sv = Fresh
      BY Zenon, PushedTyped, FrameFields
    <3>5. f = [Frame("subst", "") EXCEPT !.sv = v]
      BY Zenon, <3>4, FreshTyped DEF FrameState, ShellState
    <3>6. CallFrom(g, f) /\ sh'.parentHasLoop = sh.parentHasLoop
      BY <1>0, <2>2 DEF ShellState
    <3> HIDE DEF f, g, v
    <3>7. f \in FrameState /\ f.k = "subst" /\ f.sv = v
      BY Zenon, <3>3, <3>4, <3>5 DEF FrameState
    <3>8. Entered(f)
      BY <1>0, <3>2, <3>6, MovesOfStack
    <3> QED
      BY <3>3, <3>6, <3>7, <3>8 DEF Moves, Enter, Saves
  <2> QED
    BY <1>3, <2>1, <2>2 DEF Substitute
<1> QED
  BY <1>1, <1>2, <1>3

LEMMA SimplesMove ==
  ASSUME TypeOK, Simples
  PROVE  Moves
<1>1. CASE BeginAssignment \/ BeginCommand \/ Substitute
  BY <1>1, WordsMove
<1>2. CASE SubstitutionLeaves
  <2>1. stack # <<>> /\ Top.k = "subst" /\ stack' = Below
    BY <1>2 DEF SubstitutionLeaves, Returned, Throwing, Return, Rethrow
  <2>2. sh \in ShellState /\ Top.sv \in ShellState
    BY <2>1, Typed
  <2> DEFINE d == [sh EXCEPT !.env = Top.sv.env, !.cwd = Top.sv.cwd,
                             !.substDepth = Top.sv.substDepth]
  <2>3. d \in ShellState /\ d.env = Top.sv.env /\ d.parentHasLoop = sh.parentHasLoop
    BY <2>2 DEF ShellState
  <2>4. sh' = d \/ sh' = [d EXCEPT !.lastExit = ctl.code]
    BY <1>2 DEF SubstitutionLeaves
  <2> HIDE DEF d
  <2>5. sh'.env = Top.sv.env /\ sh'.parentHasLoop = sh.parentHasLoop
    BY <2>3, <2>4 DEF ShellState
  <2> QED
    BY <2>1, <2>5 DEF Moves, Leave, GivesBack
<1>3. CASE WordExpanded
  BY Zenon, <1>3, Stays, TopFields, Listed, Typed DEF WordExpanded, Returned, Moves
<1>4. ASSUME stack # <<>>, Top.k = "simple", stack' = Below,
             \/ sh' = sh \/ sh' = Undone(sh)
             \/ \E v : sh' = [sh EXCEPT !.env = v]
             \/ \E d \in Dirs : sh' = Undone([sh EXCEPT !.cwd = d])
             \/ \E on \in BOOLEAN : \/ sh' = Undone([sh EXCEPT !.errexit = on])
                                    \/ sh' = Undone([sh EXCEPT !.pipefail = on])
      PROVE  Moves
  <2>1. sh \in ShellState
    BY DEF TypeOK
  <2>2. /\ \A d \in Dirs : /\ [sh EXCEPT !.cwd = d] \in ShellState
                           /\ [sh EXCEPT !.cwd = d].parentHasLoop = sh.parentHasLoop
        /\ \A on \in BOOLEAN :
             /\ [sh EXCEPT !.errexit = on] \in ShellState
             /\ [sh EXCEPT !.errexit = on].parentHasLoop = sh.parentHasLoop
             /\ [sh EXCEPT !.pipefail = on] \in ShellState
             /\ [sh EXCEPT !.pipefail = on].parentHasLoop = sh.parentHasLoop
        /\ \A v : [sh EXCEPT !.env = v].parentHasLoop = sh.parentHasLoop
    BY <2>1 DEF ShellState
  <2>3. sh'.parentHasLoop = sh.parentHasLoop
    <3>1. CASE sh' = sh \/ \E v : sh' = [sh EXCEPT !.env = v]
      BY ZenonT(60), <2>2, <3>1
    <3>2. ASSUME NEW d \in Dirs, sh' = Undone([sh EXCEPT !.cwd = d])
          PROVE  sh'.parentHasLoop = sh.parentHasLoop
      <4> DEFINE w == [sh EXCEPT !.cwd = d]
      <4>1. w \in ShellState /\ w.parentHasLoop = sh.parentHasLoop /\ sh' = Undone(w)
        BY <2>2, <3>2
      <4> HIDE DEF w
      <4> QED
        BY <4>1, UndoneParent
    <3>3. ASSUME NEW on \in BOOLEAN, NEW w \in ShellState, w.parentHasLoop = sh.parentHasLoop,
                 sh' = Undone(w)
          PROVE  sh'.parentHasLoop = sh.parentHasLoop
      BY <3>3, UndoneParent
    <3> QED
      BY <1>4, <2>1, <2>2, <3>1, <3>2, <3>3
  <2> QED
    BY <1>4, <2>3, TransparentLeft DEF Moves, Transparent
<1>5. CASE WordFails \/ Assign \/ Builtin \/ ReturnBuiltin \/ ExitBuiltin \/ CommandReturned
             \/ CommandThrows
  <2>1. stack # <<>> /\ Top.k = "simple" /\ stack' = Below
    BY <1>5, MovesDown DEF WordFails, Assign, Builtin, ReturnBuiltin, ExitBuiltin,
       CommandReturned, CommandThrows, Ready, Running, Returned, Throwing
  <2>2. sh' = sh \/ sh' = Undone(sh) \/ \E v : sh' = [sh EXCEPT !.env = v]
    BY <1>5 DEF WordFails, Assign, Builtin, ReturnBuiltin, ExitBuiltin,
       CommandReturned, CommandThrows
  <2> QED
    BY <1>4, <2>1, <2>2
<1>6. CASE ChangeDir
  BY <1>4, <1>6, MovesDown DEF ChangeDir, Ready, Running
<1>7. CASE SetOption
  BY <1>4, <1>7, MovesDown DEF SetOption, Ready, Running
<1>8. ASSUME NEW e, LoopExit(e)
      PROVE  Moves
  BY <1>4, <1>8, MovesDown DEF LoopExit, Ready, Running
<1> QED
  BY <1>1, <1>2, <1>3, <1>5, <1>6, <1>7, <1>8 DEF Simples


LEMMA DispatchesMove ==
  ASSUME TypeOK, CallFunction \/ Evaluate \/ Source \/ RunUserScript
  PROVE  Moves
<1>1. stack # <<>> /\ Top.k = "simple"
  BY Zenon DEF CallFunction, Evaluate, Source, RunUserScript, Ready, Running
<1>2. /\ sh \in ShellState /\ Dispatched \in FrameState /\ GoesOnAs(Dispatched)
  BY Zenon, <1>1, Typed, TopFields, Listed DEF Dispatched
<1>3. CASE RunUserScript
  <2> DEFINE o == EnterSubshell
             v == [o.sv EXCEPT !.fns = FALSE, !.scopes = 0]
             f == [o EXCEPT !.k = "ush", !.sv.fns = FALSE, !.sv.scopes = 0]
  <2>1. o \in FrameState /\ o.sv \in ShellState /\ o.sv.env = sh.env
    BY SubshellSaves
  <2>2. CallFrom(Dispatched, f)
    BY <1>3 DEF RunUserScript
  <2> HIDE DEF o
  <2>3. v \in ShellState /\ v.env = sh.env
    BY <2>1 DEF ShellState
  <2>4. f = [o EXCEPT !.k = "ush", !.sv = v]
    BY <2>1 DEF FrameState, ShellState
  <2> HIDE DEF v, f
  <2>5. f \in FrameState /\ f.k = "ush" /\ f.sv = v
    BY Zenon, <2>1, <2>3, <2>4, Listed DEF FrameState
  <2>6. Entered(f)
    BY <1>1, <1>2, <2>2, MovesOfStack
  <2>7. "ush" \in Forms
    BY <1>3 DEF RunUserScript, Ready
  <2> QED
    BY <2>3, <2>5, <2>6, <2>7 DEF Moves, Enter, Saves, BoundaryKinds
<1>4. CASE CallFunction \/ Evaluate \/ Source
  <2>1. sh'.parentHasLoop = sh.parentHasLoop
    <3>1. \/ sh' = sh \/ sh' = [sh EXCEPT !.sourceDepth = sh.sourceDepth + 1]
          \/ sh' = [sh EXCEPT !.callDepth = sh.callDepth + 1, !.scopes = sh.scopes + 1]
      BY Zenon, <1>4 DEF CallFunction, Evaluate, Source
    <3> QED
      BY <1>2, <3>1 DEF ShellState
  <2>2. CASE stack' = Update(Dispatched)
    BY <1>1, <1>2, <2>1, <2>2, MovesOfStack DEF Moves
  <2>3. ASSUME NEW k \in {"call", "eval", "source"}, CallFrom(Dispatched, Frame(k, ""))
        PROVE  Moves
    <3>1. Frame(k, "") \in FrameState /\ Frame(k, "").k \in Transparent
      BY Zenon, TransparentFrames
    <3>2. Entered(Frame(k, ""))
      BY Zenon, <1>1, <1>2, <2>3, MovesOfStack
    <3> QED
      BY Zenon, <2>1, <3>1, <3>2, TransparentEntered DEF Moves
  <2> QED
    BY Zenon, <1>4, <2>2, <2>3 DEF CallFunction, Evaluate, Source
<1> QED
  BY <1>3, <1>4

LEMMA CallersMove ==
  ASSUME TypeOK, Callers
  PROVE  Moves
<1>1. CASE CallFunction \/ Evaluate \/ Source \/ RunUserScript
  BY <1>1, DispatchesMove
<1>2. ASSUME stack # <<>>, sh' = sh, NEW k \in {"group", "script"}, Call(Frame(k, ""))
      PROVE  Moves
  <2>1. Frame(k, "") \in FrameState /\ Frame(k, "").k \in Transparent
    BY Zenon, TransparentFrames
  <2>2. Entered(Frame(k, ""))
    BY Zenon, <1>2, MovesOfStack
  <2> QED
    BY Zenon, <1>2, <2>1, <2>2, TransparentEntered DEF Moves
<1>3. CASE RunFunctionBody
  <2>1. stack # <<>>
    BY Zenon, <1>3 DEF RunFunctionBody, Running
  <2>2. CASE Call(EnterSubshell)
    <3>1. Entered(EnterSubshell)
      BY <2>1, <2>2, MovesOfStack
    <3> QED
      BY <3>1, SubshellSaves DEF Moves, Enter, Saves, BoundaryKinds
  <2> QED
    BY Zenon, <1>2, <1>3, <2>1, <2>2 DEF RunFunctionBody
<1>4. CASE RunScript
  BY Zenon, <1>2, <1>4 DEF RunScript, Running
<1>5. CASE FunctionLeaves \/ FunctionRedirectFails \/ EvalLeaves \/ SourceLeaves
  <2>1. stack # <<>> /\ Top.k \in {"call", "eval", "source"} /\ stack' = Below
    BY <1>5, MovesDown DEF FunctionLeaves, FunctionRedirectFails, EvalLeaves, SourceLeaves,
       Running, Returned, Throwing
  <2>2. sh'.parentHasLoop = sh.parentHasLoop
    <3>1. sh' = sh \/ sh' = OutOfFunction \/ sh' = [sh EXCEPT !.sourceDepth = sh.sourceDepth - 1]
      BY <1>5 DEF FunctionLeaves, FunctionRedirectFails, EvalLeaves, SourceLeaves
    <3>2. sh \in ShellState
      BY DEF TypeOK
    <3> QED
      BY <3>1, <3>2 DEF OutOfFunction, ShellState
  <2> QED
    BY <2>1, <2>2, TransparentLeft DEF Moves, Transparent
<1>6. CASE UserScriptLeaves
  <2>1. stack # <<>> /\ Top.k = "ush" /\ stack' = Below
    BY <1>6 DEF UserScriptLeaves, Returned, Throwing, Return, Rethrow
  <2>2. Top.sv \in ShellState
    BY <2>1, Typed
  <2> DEFINE d == RestoreFrom(Top.sv)
  <2>3. d \in ShellState /\ d.env = Top.sv.env
    BY <2>2, Restores
  <2>4. sh' = [d EXCEPT !.fns = sh.fns, !.scopes = sh.scopes]
    BY <1>6 DEF UserScriptLeaves
  <2> HIDE DEF d
  <2>5. sh'.env = Top.sv.env
    BY <2>3, <2>4 DEF ShellState
  <2> QED
    BY <2>1, <2>5 DEF Moves, Leave, GivesBack, BoundaryKinds
<1> QED
  BY <1>1, <1>3, <1>4, <1>5, <1>6 DEF Callers

\* Every step of a script that has not ended is such a move.
LEMMA EveryMove ==
  ASSUME TypeOK, stack # <<>>, Step
  PROVE  Moves
BY ListsMove, StatementsMove, CompoundsMove, LoopsMove, SimplesMove, CallersMove
   DEF Step, ExecSettles


-----------------------------------------------------------------------------
(* Subshells isolate.                                                      *)

\* Only Bash.exec itself settles its promise.
LEMMA Unsettled ==
  ASSUME TypeOK, Step, ~ExecSettles
  PROVE  ctl'.t \in {"run", "ret", "throw"}
<1> DEFINE T == {"run", "ret", "throw"}
           Going == ctl'.t \in T
<1> SUFFICES Going
  OBVIOUS
<1>a. /\ Run.t \in T /\ \A c, by : Result(c, by).t \in T
      /\ \A e, lv, c : Thrown(e, lv, c).t \in T
  BY DEF Run, Result, Thrown
<1> HIDE DEF T
<1>b. /\ \A f : Call(f) \/ Stay(f) \/ Start(f) => Going
      /\ \A g, f : CallFrom(g, f) => Going
      /\ \A c : Return(c) \/ Forward(c) \/ Finish(c) => Going
      /\ \A e, c : Throw(e, c) => Going
      /\ \A e : ThrowHere(e) => Going
      /\ ctl.t \in T /\ Rethrow => Going
  BY <1>a DEF Call, Stay, Start, CallFrom, Return, Forward, Finish, Throw, ThrowHere, Rethrow
<1>c. ctl.t = "throw" => ctl.t \in T /\ \A l : [ctl EXCEPT !.lv = l].t \in T
  BY DEF TypeOK, ControlState, T
<1>1. CASE Lists
  BY <1>1, <1>b, <1>c DEF Lists, ExecuteStatement, StatementReturned, ScriptEnds,
     ScriptCatches, ListEnds, ListCatches, ConditionLeaves, Throwing
<1>2. CASE Statements
  <2>1. \A c : CollectSegment(c) => Going
    BY <1>b DEF CollectSegment
  <2> QED
    BY Zenon, <1>2, <1>b, <1>c, <2>1 DEF Statements, NextPipeline, PipelineReturned,
       StatementEnds, StatementThrows, SegmentReturned, SegmentThrows, Throwing
<1>3. CASE Compounds
  BY Zenon, <1>3, <1>a, <1>b, <1>c DEF Compounds, EnterIf, EnterCase, EnterGroup, DefineFunction,
     CompoundFails, EvaluateIfCondition, IfReturned, CaseItem, CaseReturned, BranchThrows,
     GroupEnds, GroupCatches, RunSubshell, SubshellEnds, SubshellCatches, Throwing
<1>4. CASE Loops
  BY <1>4, <1>b, <1>c DEF Loops, EnterLoop, NextIteration, ForEnds, ForHeaderThrows,
     WhileTested, UntilTested, LoopBodyEnds, WhileConditionThrows, UntilConditionThrows,
     LoopBodyThrows, Throwing
<1>5. CASE Simples
  <2>1. \A e : LoopExit(e) => Going
    BY <1>a, <1>b DEF LoopExit
  <2> QED
    BY Zenon, <1>5, <1>b, <1>c, <2>1 DEF Simples, BeginAssignment, BeginCommand, Substitute,
       SubstitutionLeaves, WordExpanded, WordFails, Assign, Builtin, ChangeDir, SetOption,
       ReturnBuiltin, ExitBuiltin, CommandReturned, CommandThrows, Throwing
<1>6. CASE Callers
  BY Zenon, <1>6, <1>a, <1>b, <1>c DEF Callers, CallFunction, RunFunctionBody, FunctionLeaves,
     FunctionRedirectFails, Evaluate, Source, RunUserScript, RunScript, EvalLeaves,
     SourceLeaves, UserScriptLeaves, Throwing
<1> QED
  BY <1>1, <1>2, <1>3, <1>4, <1>5, <1>6 DEF Step

\* A promise that has settled leaves no function in progress.
SettledIsOver == Settled => stack = <<>>

LEMMA SettledStep ==
  ASSUME TypeOK, SettledIsOver, [Next]_vars
  PROVE  SettledIsOver'
<1>1. CASE Step /\ ~ExecSettles
  BY <1>1, Unsettled DEF SettledIsOver, Settled
<1>2. CASE ExecSettles
  BY <1>2 DEF ExecSettles, SettledIsOver
<1>3. CASE ExecAgain
  BY Zenon, <1>3 DEF ExecAgain, SettledIsOver, Settled, Run
<1>4. CASE UNCHANGED vars
  BY <1>4 DEF SettledIsOver, Settled, vars
<1> QED
  BY <1>1, <1>2, <1>3, <1>4 DEF Next

\* With no function in progress, all that is left is to settle the promise.
LEMMA EmptyStep ==
  ASSUME stack = <<>>, Step
  PROVE  ExecSettles
BY DEF Step, Lists, Statements, Compounds, Loops, Simples, Callers,
   ExecuteStatement, StatementReturned, ScriptEnds, ScriptCatches, ListEnds,
   ListCatches, ConditionLeaves, NextPipeline, PipelineReturned, StatementEnds,
   StatementThrows, SegmentReturned, SegmentThrows, EnterIf, EnterCase, EnterGroup,
   DefineFunction, CompoundFails, EvaluateIfCondition, IfReturned, CaseItem,
   CaseReturned, BranchThrows, GroupEnds, GroupCatches, RunSubshell, SubshellEnds,
   SubshellCatches, EnterLoop, NextIteration, ForEnds, ForHeaderThrows, WhileTested,
   UntilTested, LoopBodyEnds, WhileConditionThrows, UntilConditionThrows,
   LoopBodyThrows, BeginAssignment, BeginCommand, Substitute, SubstitutionLeaves,
   WordExpanded, WordFails, Assign, Builtin, ChangeDir, SetOption, LoopExit,
   ReturnBuiltin, ExitBuiltin, CommandReturned, CommandThrows, CallFunction,
   RunFunctionBody, FunctionLeaves, FunctionRedirectFails, Evaluate, Source,
   RunUserScript, RunScript, EvalLeaves, SourceLeaves, UserScriptLeaves,
   Command, Ready, Running, Returned, Throwing

\* In every step, each frame stays as it was, gives back what it saved, or is new.
LEMMA StackStep ==
  ASSUME TypeOK, SettledIsOver, [Next]_vars
  PROVE  \/ stack = <<>> /\ \A i \in 1 .. Len(stack') : stack'[i].k = "script"
         \/ stack # <<>> /\ Moves
         \/ UNCHANGED vars
<1>1. CASE stack # <<>> /\ Step
  BY <1>1, EveryMove
<1>2. CASE ExecAgain
  <2> DEFINE f == Frame("script", "")
  <2>1. stack = <<>> /\ stack' = <<f>> /\ f.k = "script"
    BY Zenon, <1>2, FrameFields DEF ExecAgain, SettledIsOver
  <2> HIDE DEF f
  <2> QED
    BY <2>1
<1>3. CASE stack = <<>> /\ Step
  <2>1. ExecSettles
    BY <1>3, EmptyStep
  <2> QED
    BY <1>3, <2>1 DEF ExecSettles
<1> QED
  BY <1>1, <1>2, <1>3 DEF Next

\* What a settled promise leaves holds of every reachable state.
LEMMA Reached == Spec => [](TypeOK /\ SettledIsOver)
<1>1. Init => TypeOK /\ SettledIsOver
  <2>1. Init => TypeOK
    BY StartsIn DEF IInv
  <2>2. Run.t = "run"
    BY DEF Run
  <2> QED
    BY Zenon, <2>1, <2>2 DEF Init, SettledIsOver, Settled
<1>2. TypeOK /\ SettledIsOver /\ [Next]_vars => SettledIsOver'
  BY SettledStep
<1> QED
  BY <1>1, <1>2, TypeCorrect, PTL DEF Spec

\* What leaving some frames gives back, for any property P of a frame.
LEMMA LeavesOnlyTop ==
  ASSUME TypeOK, SettledIsOver, [Next]_vars, NEW i \in 1 .. Len(stack), Len(stack') < i
  PROVE  i = Len(stack) /\ GivesBack
<1>1. stack # <<>> /\ Len(stack) \in Nat /\ stack' # stack
  BY DEF TypeOK
<1>2. Moves
  BY <1>1, StackStep DEF vars
<1>3. CASE Enter \/ Remain
  BY <1>1, <1>3 DEF Enter, Entered, Remain
<1>4. CASE Leave
  <2>1. Len(stack') = Len(stack) - 1
    BY <1>1, <1>4, Typed DEF Leave
  <2> QED
    BY <1>1, <1>4, <2>1 DEF Leave
<1> QED
  BY <1>2, <1>3, <1>4 DEF Moves

\* Whatever the program and the limits, when executeSubshell is left, in any of its
\* eight ways, variables, directory, options and functions are those it saved.
THEOREM SubshellsIsolate == Spec => SubshellIsolates
<1> DEFINE A == \A i \in FramesOf(stack, {"subshell"}, Len(stack)) :
                  Len(stack') < i => Visible(sh') = Visible(stack[i].sv)
<1>1. TypeOK /\ SettledIsOver /\ [Next]_vars => [A]_vars
  <2> SUFFICES ASSUME TypeOK, SettledIsOver, [Next]_vars,
                      NEW i \in 1 .. Len(stack), stack[i].k = "subshell", Len(stack') < i
               PROVE  Visible(sh') = Visible(stack[i].sv)
    BY DEF FramesOf
  <2>1. i = Len(stack) /\ GivesBack
    BY LeavesOnlyTop
  <2> QED
    BY <2>1 DEF GivesBack, Top
<1> QED
  BY <1>1, Reached, PTL DEF Spec, SubshellIsolates

\* Whatever the program, an assignment made in a subshell, a substitution, a script
\* file or a command of a pipeline does not reach the parent, however it is left.
THEOREM EnvironmentIsKept == Spec => EnvironmentKept
<1> DEFINE A == \A i \in 1 .. Len(stack) :
                  Isolates(stack[i]) /\ Len(stack') < i => sh'.env = stack[i].sv.env
<1>1. TypeOK /\ SettledIsOver /\ [Next]_vars => [A]_vars
  <2> SUFFICES ASSUME TypeOK, SettledIsOver, [Next]_vars,
                      NEW i \in 1 .. Len(stack), Isolates(stack[i]), Len(stack') < i
               PROVE  sh'.env = stack[i].sv.env
    OBVIOUS
  <2>1. i = Len(stack) /\ GivesBack
    BY LeavesOnlyTop
  <2> QED
    BY <2>1 DEF GivesBack, Top
<1> QED
  BY <1>1, Reached, PTL DEF Spec, EnvironmentKept


\* What a subshell, a substitution or a script file will give back is what held when
\* it was entered, and nothing that runs inside it changes that.
SavedOnEntry ==
  [][\A i \in 1 .. Len(stack') :
       /\ i <= Len(stack) /\ stack[i].k \in Savers =>
            stack'[i].k = stack[i].k /\ stack'[i].sv = stack[i].sv
       /\ i > Len(stack) /\ stack'[i].k \in Savers => stack'[i].sv.env = sh.env
       /\ i > Len(stack) /\ stack'[i].k = "subshell" =>
            Visible(stack'[i].sv) = Visible(sh)]_vars

\* With SubshellsIsolate: a subshell leaves behind the variables, directory, options
\* and functions it found, whatever ran in it and however it ended.
THEOREM SubshellsGiveBackWhatTheyFound == Spec => SavedOnEntry
<1> DEFINE A == \A i \in 1 .. Len(stack') :
       /\ i <= Len(stack) /\ stack[i].k \in Savers =>
            stack'[i].k = stack[i].k /\ stack'[i].sv = stack[i].sv
       /\ i > Len(stack) /\ stack'[i].k \in Savers => stack'[i].sv.env = sh.env
       /\ i > Len(stack) /\ stack'[i].k = "subshell" => Visible(stack'[i].sv) = Visible(sh)
<1>1. ASSUME TypeOK, SettledIsOver, [Next]_vars
      PROVE  [A]_vars
  <2>1. CASE UNCHANGED vars
    BY <2>1
  <2>2. CASE stack = <<>> /\ \A i \in 1 .. Len(stack') : stack'[i].k = "script"
    <3>1. Len(stack) = 0
      BY <2>2
    <3> QED
      BY <2>2, <3>1 DEF Savers
  <2>3. CASE stack # <<>> /\ Moves
    <3> DEFINE n == Len(stack)
    <3>0. /\ n \in Nat \ {0} /\ Top = stack[n]
          /\ Len(Below) = n - 1 /\ \A i \in 1 .. n - 1 : Below[i] = stack[i]
      BY <1>1, <2>3, Typed DEF Top
    <3> HIDE DEF n
    <3>1. CASE Leave
      <4>1. Len(stack') = n - 1 /\ \A i \in 1 .. n - 1 : stack'[i] = stack[i]
        BY <3>0, <3>1 DEF Leave
      <4> QED
        BY <3>0, <4>1 DEF n
    <3>2. CASE Remain
      <4>1. /\ Len(stack') = n /\ \A i \in 1 .. n - 1 : stack'[i] = stack[i]
            /\ stack'[n].k = stack[n].k
            /\ stack[n].k \in Savers => stack'[n].sv = stack[n].sv
        BY <3>0, <3>2 DEF Remain, GoesOnAs, n
      <4> QED
        BY <3>0, <4>1 DEF n
    <3>3. CASE Enter
      <4>1. /\ Len(stack') = n + 1 /\ \A i \in 1 .. n - 1 : stack'[i] = stack[i]
            /\ stack'[n].k = stack[n].k
            /\ stack[n].k \in Savers => stack'[n].sv = stack[n].sv
            /\ Saves(stack'[n + 1])
        BY <3>0, <3>3 DEF Enter, Entered, GoesOnAs, n
      <4> QED
        BY <3>0, <4>1 DEF Saves, n
    <3> QED
      BY <2>3, <3>1, <3>2, <3>3 DEF Moves
  <2> QED
    BY <1>1, <2>1, <2>2, <2>3, StackStep
<1> QED
  BY <1>1, Reached, PTL DEF Spec, SavedOnEntry


-----------------------------------------------------------------------------
(* What is thrown has a handler.                                           *)

\* A thrown error goes on past a construct that does not catch its kind.
Passes ==
  /\ ctl.t = "throw" /\ stack # <<>> /\ Rethrow
  /\ ctl.e \in {"return", "subexit"} => Top.k \notin HandlerOf(ctl.e)

\* A ReturnError or a SubshellExitError comes from its builtin or from the frame above.
LEMMA HandledOrigin ==
  ASSUME TypeOK, Step, ctl'.t = "throw", ctl'.e \in {"return", "subexit"}
  PROVE  ReturnBuiltin \/ (\E e \in {"break", "continue"} : LoopExit(e)) \/ Passes
<1>a. /\ Run.t = "run" /\ \A c, by : Result(c, by).t = "ret"
      /\ \A e, lv, c : Thrown(e, lv, c).e = e
      /\ \A t : Finished(t).t = t
  BY DEF Run, Result, Thrown, Finished
<1>b. /\ \A f : ~Call(f) /\ ~Stay(f) /\ ~Start(f)
      /\ \A g, f : ~CallFrom(g, f)
      /\ \A c : ~Return(c) /\ ~Forward(c) /\ ~Finish(c)
      /\ \A e, c : Throw(e, c) => e \in {"return", "subexit"}
      /\ \A e : ThrowHere(e) => e \in {"return", "subexit"}
  BY <1>a DEF Call, Stay, Start, CallFrom, Return, Forward, Finish, Throw, ThrowHere
<1>c. /\ Rethrow => ctl.e \in {"return", "subexit"}
      /\ Rethrow /\ ctl.t = "throw" /\ stack # <<>>
           /\ (ctl.e = "return" => Top.k # "call" /\ Top.k # "source")
           /\ (ctl.e = "subexit" => Top.k # "subshell") => Passes
  BY DEF Rethrow, Passes, HandlerOf
<1>d. ctl \in ControlState /\ "return" \notin Expansion /\ "subexit" \notin Expansion
  BY DEF TypeOK, Expansion
<1>e. /\ \A c : \A e \in Expansion : ~Throw(e, c)
      /\ \A c : ~Throw("limit", c) /\ ~Throw("exit", c)
      /\ ~ThrowHere("limit")
  BY <1>b, <1>d
<1>1. CASE Lists
  BY <1>1, <1>b, <1>c DEF Lists, ExecuteStatement, StatementReturned, ScriptEnds,
     ScriptCatches, ListEnds, ListCatches, ConditionLeaves, Running, Throwing
<1>2. CASE Statements
  <2>1. \A c : ~CollectSegment(c)
    BY <1>b DEF CollectSegment
  <2> QED
    BY Zenon, <1>2, <1>b, <1>c, <2>1 DEF Statements, NextPipeline, PipelineReturned,
       StatementEnds, StatementThrows, SegmentReturned, SegmentThrows, Throwing
<1>3. CASE Compounds
  <2>1. ~DefineFunction /\ ~CompoundFails
    BY <1>a, <1>d DEF DefineFunction, CompoundFails
  <2> QED
    BY Zenon, <1>3, <1>b, <1>c, <2>1 DEF Compounds, EnterIf, EnterCase, EnterGroup,
       EvaluateIfCondition, IfReturned, CaseItem, CaseReturned, BranchThrows, GroupEnds,
       GroupCatches, RunSubshell, SubshellEnds, SubshellCatches, Throwing
<1>4. CASE Loops
  <2>1. \A l : [ctl EXCEPT !.lv = l].e = ctl.e
    BY <1>d DEF ControlState
  <2>2. ~(\E k \in LoopKinds : EnterLoop(k)) /\ ~NextIteration /\ ~ForEnds /\ ~ForHeaderThrows
    BY <1>b, <1>e DEF EnterLoop, NextIteration, ForEnds, ForHeaderThrows
  <2>3. ~WhileTested /\ ~UntilTested /\ ~LoopBodyEnds
    BY <1>b DEF WhileTested, UntilTested, LoopBodyEnds
  <2>4. CASE WhileConditionThrows \/ UntilConditionThrows \/ LoopBodyThrows
    <3>1. stack # <<>> /\ ctl.t = "throw" /\ Top.k \in LoopKinds
      BY <2>4 DEF WhileConditionThrows, UntilConditionThrows, LoopBodyThrows, Throwing,
         LoopKinds
    <3>2. Rethrow
      <4>1. Rethrow \/ \E l : ctl' = [ctl EXCEPT !.lv = l] /\ ctl.e \in {"break", "continue"}
        BY <2>4, <1>b DEF WhileConditionThrows, UntilConditionThrows, LoopBodyThrows
      <4> QED
        BY <2>1, <4>1
    <3> QED
      BY <1>c, <3>1, <3>2 DEF LoopKinds
  <2> QED
    BY <1>4, <2>2, <2>3, <2>4 DEF Loops
<1>5. CASE Simples
  <2>1. ~BeginAssignment /\ ~BeginCommand /\ ~Substitute /\ ~WordExpanded /\ ~WordFails
    BY Zenon, <1>b, <1>e DEF BeginAssignment, BeginCommand, Substitute, WordExpanded, WordFails
  <2>2. /\ ~Assign /\ ~Builtin /\ ~ChangeDir /\ ~SetOption /\ ~ExitBuiltin
        /\ ~CommandReturned
    BY <1>b, <1>e DEF Assign, Builtin, ChangeDir, SetOption, ExitBuiltin, CommandReturned
  <2>3. SubstitutionLeaves \/ CommandThrows => Passes
    BY <1>b, <1>c DEF SubstitutionLeaves, CommandThrows, Throwing
  <2> QED
    BY <1>5, <2>1, <2>2, <2>3 DEF Simples
<1>6. CASE Callers
  <2>1. ctl' # Thrown("limit", 0, 1)
    BY <1>a
  <2>2. ~CallFunction
    BY Zenon, <1>b, <2>1 DEF CallFunction
  <2>3. ~Evaluate /\ ~Source /\ ~RunUserScript
    BY Zenon, <1>b DEF Evaluate, Source, RunUserScript
  <2>4. ~RunFunctionBody /\ ~RunScript /\ ~FunctionRedirectFails
    BY Zenon, <1>b, <1>d DEF RunFunctionBody, RunScript, FunctionRedirectFails
  <2> QED
    BY <1>6, <1>b, <1>c, <2>2, <2>3, <2>4 DEF Callers, FunctionLeaves, EvalLeaves,
       SourceLeaves, UserScriptLeaves, Throwing
<1>7. CASE ExecSettles
  BY <1>7, <1>a DEF ExecSettles
<1> QED
  BY <1>1, <1>2, <1>3, <1>4, <1>5, <1>6, <1>7 DEF Step


\* The script is the first frame, and no frame is a script file's.
Begun == stack # <<>> => stack[1].k = "script"
NoScriptFiles == \A i \in 1 .. Len(stack) : stack[i].k # "ush"

\* parentHasLoop is only set inside a subshell, now and when a subshell was entered.
ParentLoops ==
  /\ sh.parentHasLoop => FramesOf(stack, {"subshell"}, Len(stack)) # {}
  /\ \A i \in 1 .. Len(stack) :
       stack[i].k = "subshell" /\ stack[i].sv.parentHasLoop =>
         FramesOf(stack, {"subshell"}, i - 1) # {}

\* The frames that the three speak of, after a move.
LEMMA FramesMove ==
  ASSUME TypeOK, stack # <<>>, Moves
  PROVE  LET n == Len(stack) IN
         /\ n \in Nat \ {0} /\ Top = stack[n]
         /\ \A i \in 1 .. n - 1 : stack'[i] = stack[i]
         /\ \/ Leave /\ Len(stack') = n - 1
            \/ /\ Remain /\ Len(stack') = n
               /\ stack'[n].k = stack[n].k
               /\ stack[n].k = "subshell" => stack'[n].sv = stack[n].sv
            \/ /\ Len(stack') = n + 1
               /\ stack'[n].k = stack[n].k
               /\ stack[n].k = "subshell" => stack'[n].sv = stack[n].sv
               /\ Saves(stack'[n + 1])
<1> DEFINE n == Len(stack)
<1>1. /\ n \in Nat \ {0} /\ Top = stack[n]
      /\ Len(Below) = n - 1 /\ \A i \in 1 .. n - 1 : Below[i] = stack[i]
  BY Typed DEF Top
<1> HIDE DEF n
<1>2. CASE Leave
  BY <1>1, <1>2 DEF Leave, n
<1>3. CASE Remain
  BY <1>1, <1>3 DEF Remain, GoesOnAs, Savers, n
<1>4. CASE Enter
  BY <1>1, <1>4 DEF Enter, Entered, GoesOnAs, Savers, n
<1> QED
  BY <1>2, <1>3, <1>4 DEF Moves, n

\* A subshell among the frames stays among them.
LEMMA SubshellsAmong ==
  ASSUME NEW s, NEW t, NEW i \in Nat, NEW j \in Nat, i <= j,
         \A l \in 1 .. i : s[l].k = "subshell" => t[l].k = "subshell",
         FramesOf(s, {"subshell"}, i) # {}
  PROVE  FramesOf(t, {"subshell"}, j) # {}
<1>1. PICK l \in 1 .. i : s[l].k = "subshell"
  BY DEF FramesOf
<1>2. l \in 1 .. j /\ t[l].k = "subshell"
  BY <1>1
<1> QED
  BY <1>2 DEF FramesOf

LEMMA ParentLoopsMove ==
  ASSUME TypeOK, stack # <<>>, Moves, NoScriptFiles, ParentLoops, "ush" \notin Forms
  PROVE  /\ \A i \in 1 .. Len(stack') : stack'[i].k # "ush"
         /\ sh'.parentHasLoop => FramesOf(stack', {"subshell"}, Len(stack')) # {}
         /\ \A i \in 1 .. Len(stack') :
              stack'[i].k = "subshell" /\ stack'[i].sv.parentHasLoop =>
                FramesOf(stack', {"subshell"}, i - 1) # {}
<1> DEFINE n == Len(stack)
           Kept(m) == \A i \in 1 .. m : stack'[i].k = stack[i].k
           Saved(m) == \A i \in 1 .. m : stack[i].k = "subshell" => stack'[i].sv = stack[i].sv
           Among(s, i) == FramesOf(s, {"subshell"}, i) # {}
<1>1. /\ n \in Nat \ {0} /\ Top = stack[n]
      /\ \A i \in 1 .. n - 1 : stack'[i] = stack[i]
      /\ \/ Leave /\ Len(stack') = n - 1
         \/ /\ Remain /\ Len(stack') = n
            /\ stack'[n].k = stack[n].k
            /\ stack[n].k = "subshell" => stack'[n].sv = stack[n].sv
         \/ /\ Len(stack') = n + 1
            /\ stack'[n].k = stack[n].k
            /\ stack[n].k = "subshell" => stack'[n].sv = stack[n].sv
            /\ Saves(stack'[n + 1])
  BY FramesMove
<1>2. /\ \A i \in 1 .. n : stack[i].k # "ush"
      /\ sh.parentHasLoop => Among(stack, n)
      /\ \A i \in 1 .. n : stack[i].k = "subshell" /\ stack[i].sv.parentHasLoop =>
                             Among(stack, i - 1)
  BY DEF NoScriptFiles, ParentLoops
<1> HIDE DEF n
<1>3. ASSUME NEW m \in 0 .. n, Kept(m), Saved(m), NEW i \in 1 .. m
      PROVE  /\ stack'[i].k # "ush"
             /\ stack'[i].k = "subshell" /\ stack'[i].sv.parentHasLoop => Among(stack', i - 1)
  <2>1. i \in 1 .. n /\ i - 1 \in Nat /\ \A l \in 1 .. (i - 1) : stack'[l].k = stack[l].k
    BY <1>1, <1>3
  <2>2. stack'[i].k = stack[i].k
    BY <1>3
  <2>3. ASSUME stack[i].k = "subshell", stack[i].sv.parentHasLoop
        PROVE  Among(stack', i - 1)
    BY <1>2, <2>1, <2>3, SubshellsAmong
  <2> QED
    BY <1>2, <1>3, <2>1, <2>2, <2>3
<1>4. ASSUME NEW m \in Nat, NEW j \in Nat, m <= j, Kept(m), Among(stack, m)
      PROVE  Among(stack', j)
  BY <1>4, SubshellsAmong
<1>5. CASE Leave /\ Len(stack') = n - 1
  <2>1. n - 1 \in 0 .. n /\ Kept(n - 1) /\ Saved(n - 1)
    BY <1>1
  <2>2. ASSUME sh'.parentHasLoop
        PROVE  Among(stack', n - 1)
    <3>1. CASE Top.k = "subshell"
      <4>a. Top.sv.parentHasLoop
        BY <1>5, <2>2, <3>1 DEF Leave, GivesBack
      <4>0. n \in 1 .. n /\ stack[n].k = "subshell" /\ stack[n].sv.parentHasLoop
        BY <1>1, <3>1, <4>a
      <4>1. Among(stack, n - 1)
        BY <1>2, <4>0
      <4> QED
        BY <1>4, <2>1, <4>1
    <3>2. CASE Top.k # "subshell"
      <4>1. Top.k \notin BoundaryKinds
        BY <1>1, <1>2, <3>2 DEF BoundaryKinds
      <4>2. Among(stack, n)
        BY <1>2, <1>5, <2>2, <4>1 DEF Leave, GivesBack
      <4>3. Among(stack, n - 1)
        BY <1>1, <3>2, <4>2 DEF FramesOf
      <4> QED
        BY <1>4, <2>1, <4>3
    <3> QED
      BY <3>1, <3>2
  <2> QED
    BY <1>3, <1>5, <2>1, <2>2
<1>6. CASE /\ Remain /\ Len(stack') = n
           /\ stack'[n].k = stack[n].k
           /\ stack[n].k = "subshell" => stack'[n].sv = stack[n].sv
  <2>1. n \in 0 .. n /\ Kept(n) /\ Saved(n)
    BY <1>1, <1>6
  <2>2. sh'.parentHasLoop => Among(stack', n)
    BY <1>2, <1>4, <1>6, <2>1 DEF Remain
  <2> QED
    BY <1>3, <1>6, <2>1, <2>2
<1>7. CASE /\ Len(stack') = n + 1
           /\ stack'[n].k = stack[n].k
           /\ stack[n].k = "subshell" => stack'[n].sv = stack[n].sv
           /\ Saves(stack'[n + 1])
  <2>1. n \in 0 .. n /\ n + 1 \in Nat /\ n <= n + 1 /\ Kept(n) /\ Saved(n)
    BY <1>1, <1>7
  <2> DEFINE f == stack'[n + 1]
  <2>2. f.k # "ush"
    BY <1>7 DEF Saves
  <2>3. ASSUME f.k = "subshell", f.sv.parentHasLoop
        PROVE  Among(stack', n)
    <3>1. sh.parentHasLoop
      BY <1>7, <2>3 DEF Saves
    <3>2. Among(stack, n) /\ n \in Nat /\ n <= n
      BY <1>1, <1>2, <3>1
    <3> HIDE DEF Among, Kept
    <3> QED
      BY <1>4, <2>1, <3>2
  <2>4. ASSUME sh'.parentHasLoop
        PROVE  Among(stack', n + 1)
    <3>1. CASE f.k = "subshell"
      <4>1. n + 1 \in 1 .. n + 1
        BY <2>1
      <4> QED
        BY <3>1, <4>1 DEF FramesOf
    <3>2. CASE f.k # "subshell"
      <4>1. Among(stack, n)
        BY <1>2, <1>7, <2>2, <2>4, <3>2 DEF Saves, BoundaryKinds
      <4> QED
        BY <1>4, <2>1, <4>1
    <3> QED
      BY <3>1, <3>2
  <2>5. \A i \in 1 .. n + 1 : i \in 1 .. n \/ (i = n + 1 /\ i - 1 = n)
    BY <1>1
  <2> HIDE DEF f, Among, Kept, Saved
  <2> QED
    BY <1>3, <1>7, <2>1, <2>2, <2>3, <2>4, <2>5 DEF f, Among
<1> QED
  BY <1>1, <1>5, <1>6, <1>7


\* The same for what is thrown: below a frame that does not handle it, there is one.
LEMMA HandlerBelow ==
  ASSUME TypeOK, stack # <<>>, NEW K, Top.k \notin K, FramesOf(stack, K, Len(stack)) # {},
         stack' = Below
  PROVE  FramesOf(stack', K, Len(stack')) # {}
<1> DEFINE n == Len(stack)
<1>1. /\ n \in Nat \ {0} /\ Top = stack[n]
      /\ Len(Below) = n - 1 /\ \A i \in 1 .. n - 1 : Below[i] = stack[i]
  BY Typed DEF Top
<1>2. PICK l \in 1 .. n : stack[l].k \in K
  BY DEF FramesOf
<1> HIDE DEF n
<1>3. l \in 1 .. n - 1 /\ stack'[l].k \in K /\ Len(stack') = n - 1
  BY <1>1, <1>2
<1> QED
  BY <1>3 DEF FramesOf

LEMMA HandledMove ==
  ASSUME IInv, stack # <<>>, Step, ParentLoops, ThrownHasHandler, "fredir" \notin Forms,
         ctl'.t = "throw", ctl'.e \in {"return", "subexit"}
  PROVE  FramesOf(stack', HandlerOf(ctl'.e), Len(stack')) # {}
<1>1. TypeOK /\ Tracks(stack, sh) /\ Len(stack) \in Nat
  BY Typed DEF IInv, Counts
<1>2. CASE ReturnBuiltin
  <2>1. Top.k = "simple" /\ stack' = Below /\ ctl'.e = "return"
    <3>1. \A c : Result(c, "own").t = "ret" /\ Result(c, "mixed").t = "ret"
                   /\ Thrown("return", 0, c).e = "return"
      BY DEF Result, Thrown
    <3> QED
      BY <1>2, <3>1 DEF ReturnBuiltin, Ready, Running, Finish, Throw
  <2>2. sh.callDepth # 0 \/ sh.sourceDepth # 0
    <3>1. \A c : Result(c, "own").t = "ret" /\ Result(c, "mixed").t = "ret"
      BY DEF Result
    <3> QED
      BY <1>2, <3>1 DEF ReturnBuiltin, Finish
  <2>3. /\ sh.callDepth = Cardinality(FramesOf(stack, {"call"}, Len(stack)))
        /\ sh.sourceDepth = Cardinality(FramesOf(stack, {"source"}, Len(stack)))
    BY <1>1 DEF Tracks, CallsHold
  <2>4. \/ FramesOf(stack, {"call"}, Len(stack)) # {}
        \/ FramesOf(stack, {"source"}, Len(stack)) # {}
    <3>1. Cardinality({}) = 0
      BY FS_EmptySet
    <3> QED
      BY <2>2, <2>3, <3>1
  <2>5. FramesOf(stack, {"call", "source"}, Len(stack)) # {}
    BY <2>4 DEF FramesOf
  <2> QED
    BY <1>1, <2>1, <2>5, HandlerBelow DEF HandlerOf
<1>3. CASE \E e \in {"break", "continue"} : LoopExit(e)
  <2>1. /\ \A c : Result(c, "own").t = "ret" /\ Result(c, "mixed").t = "ret"
        /\ \A e, lv, c : Thrown(e, lv, c).e = e
    BY DEF Result, Thrown
  <2>2. Top.k = "simple" /\ stack' = Below /\ ctl'.e = "subexit" /\ sh.parentHasLoop
    BY <1>3, <2>1 DEF LoopExit, Ready, Running, Finish, Throw
  <2>3. FramesOf(stack, {"subshell"}, Len(stack)) # {}
    BY <2>2 DEF ParentLoops
  <2> QED
    BY <1>1, <2>2, <2>3, HandlerBelow DEF HandlerOf
<1>4. CASE Passes
  <2>1. /\ ctl.t = "throw" /\ ctl' = ctl /\ stack' = Below
        /\ Top.k \notin HandlerOf(ctl.e)
    BY <1>4 DEF Passes, Rethrow
  <2>2. FramesOf(stack, HandlerOf(ctl.e), Len(stack)) # {}
    BY <2>1 DEF ThrownHasHandler
  <2> QED
    BY <1>1, <2>1, <2>2, HandlerBelow
<1> QED
  BY <1>1, <1>2, <1>3, <1>4, HandledOrigin

-----------------------------------------------------------------------------
(* With what the script, and the promise, end.                             *)

\* What a script at the bottom of the stack does.
LEMMA ScriptSteps ==
  ASSUME stack # <<>>, Top.k = "script", Step
  PROVE  ExecuteStatement \/ StatementReturned \/ ScriptEnds \/ ScriptCatches
<1>1. ~(ListEnds \/ ListCatches \/ ConditionLeaves)
  BY DEF ListEnds, ListCatches, ConditionLeaves, Running, Throwing
<1>2. ~Statements
  BY DEF Statements, NextPipeline, PipelineReturned, StatementEnds, StatementThrows,
     SegmentReturned, SegmentThrows, Running, Returned, Throwing
<1>3. ~Compounds
  BY DEF Compounds, EnterIf, EnterCase, EnterGroup, DefineFunction, CompoundFails,
     EvaluateIfCondition, IfReturned, CaseItem, CaseReturned, BranchThrows, GroupEnds,
     GroupCatches, RunSubshell, SubshellEnds, SubshellCatches, Command, Running, Returned,
     Throwing
<1>4. ~Loops
  BY DEF Loops, EnterLoop, NextIteration, ForEnds, ForHeaderThrows, WhileTested,
     UntilTested, LoopBodyEnds, WhileConditionThrows, UntilConditionThrows,
     LoopBodyThrows, Command, Running, Returned, Throwing, LoopKinds
<1>5. ~Simples
  BY DEF Simples, BeginAssignment, BeginCommand, Substitute, SubstitutionLeaves,
     WordExpanded, WordFails, Assign, Builtin, ChangeDir, SetOption, LoopExit,
     ReturnBuiltin, ExitBuiltin, CommandReturned, CommandThrows, Command, Ready, Running,
     Returned, Throwing
<1>6. ~Callers
  BY DEF Callers, CallFunction, RunFunctionBody, FunctionLeaves, FunctionRedirectFails,
     Evaluate, Source, RunUserScript, RunScript, EvalLeaves, SourceLeaves,
     UserScriptLeaves, Ready, Running, Returned, Throwing, ScriptUsers
<1> QED
  BY <1>1, <1>2, <1>3, <1>4, <1>5, <1>6 DEF Step, Lists, ExecSettles

\* What executeScript lets through to Bash.exec.
EndsWell == stack = <<>> /\ ctl.t = "throw" => ctl.e \in {"exit", "limit", "parse"}

LEMMA EndsWellStep ==
  ASSUME IInv, stack # <<>>, Step, Begun, ParentLoops, ThrownHasHandler,
         "fredir" \notin Forms, stack' = <<>>, ctl'.t = "throw"
  PROVE  ctl'.e \in {"exit", "limit", "parse"}
<1>1. TypeOK /\ Tracks(stack, sh)
  BY DEF IInv, Counts
<1>2. Len(stack) = 1 /\ Top.k = "script" /\ stack[1] = Top
  <2>1. Len(stack') = 0
    OBVIOUS
  <2>2. /\ Len(stack) \in Nat \ {0} /\ Top = stack[Len(stack)]
        /\ Leave => Len(stack') = Len(stack) - 1
        /\ Remain => Len(stack') = Len(stack)
        /\ Enter => Len(stack') = Len(stack) + 1
    BY <1>1, Typed DEF Top, Leave, Remain, Enter, Entered
  <2>3. Moves
    BY <1>1, EveryMove
  <2>4. Len(stack) = 1
    BY <2>1, <2>2, <2>3 DEF Moves
  <2> QED
    BY <2>2, <2>4 DEF Begun
<1>3. ctl'.e \notin {"return", "subexit"}
  <2>1. Len(stack') = 0
    OBVIOUS
  <2>2. \A K : FramesOf(stack', K, Len(stack')) = {}
    BY <2>1 DEF FramesOf
  <2> QED
    BY <2>2, HandledMove
<1>4. sh.loopDepth = 0
  <2>1. Cardinality(LoopsIn(stack, 0)) = 0
    BY LoopsCount
  <2>2. Cardinality(LoopsIn(stack, 1)) = Cardinality(LoopsIn(stack, 1 - 1))
    BY <1>2, LoopsCount DEF LoopKinds, BoundaryKinds
  <2> QED
    BY <1>1, <1>2, <2>1, <2>2 DEF Tracks
<1>5. CASE ExecuteStatement
  <2>1. stack' # <<>>
    <3> DEFINE f == Frame("stmt", "own")
    <3>1. stack' = stack \/ stack' = Append(stack, f)
      BY <1>5 DEF ExecuteStatement, ThrowHere, Call
    <3>2. stack \in Seq(FrameState) /\ f \in FrameState /\ Len(<<>>) = 0
      BY Zenon, <1>1, PushedTyped DEF TypeOK
    <3> HIDE DEF f
    <3>3. Len(Append(stack, f)) = 2
      BY <1>2, <3>2
    <3> QED
      BY <3>1, <3>2, <3>3
  <2> QED
    BY <2>1
<1>6. CASE StatementReturned \/ ScriptEnds
  <2>1. \A c : Result(c, "inner").t = "ret" /\ Run.t = "run"
    BY DEF Result, Run
  <2> QED
    BY <1>6, <2>1 DEF StatementReturned, ScriptEnds, Stay, Return
<1>7. CASE ScriptCatches
  <2>1. \A c : Result(c, "inner").t = "ret" /\ Run.t = "run"
    BY DEF Result, Run
  <2>2. ctl' = ctl /\ ctl.e \in {"exit", "limit", "return", "subexit", "parse"}
    BY <1>4, <1>7, <2>1 DEF ScriptCatches, Return, Stay, Rethrow
  <2> QED
    BY <1>3, <2>2
<1> QED
  BY <1>2, <1>5, <1>6, <1>7, ScriptSteps


\* What holds of every reachable state of a program without script files and
\* redirected functions, and leaves Bash.exec nothing to reject with.
Outcome ==
  /\ SettledIsOver /\ Begun /\ NoScriptFiles
  /\ ParentLoops /\ ThrownHasHandler /\ EndsWell
  /\ ctl.t # "rejected"

\* A stack of one frame.
LEMMA OnlyOne == \A i \in 1 .. 1 : i = 1
  OBVIOUS

LEMMA OutcomeBegins ==
  ASSUME stack' = <<Frame("script", "")>>, ctl' = Run, sh' = Fresh
  PROVE  Outcome'
<1> DEFINE f == Frame("script", "")
<1>1. f.k = "script" /\ stack' = <<f>>
  BY Zenon, FrameFields
<1> HIDE DEF f
<1>2. Len(stack') = 1 /\ stack'[1].k = "script" /\ stack' # <<>>
  <2>1. PICK g : g.k = "script" /\ stack' = <<g>>
    BY Zenon, <1>1
  <2>2. Len(<<g>>) = 1 /\ <<g>>[1] = g /\ <<g>> # <<>>
    OBVIOUS
  <2> QED
    BY Zenon, <2>1, <2>2
<1>r. Run.t = "run" /\ ~Fresh.parentHasLoop
  BY Zenon DEF Run, Fresh
<1>p. ~sh'.parentHasLoop /\ ctl'.t = "run"
  BY Zenon, <1>r
<1>i. \A i \in 1 .. Len(stack') : stack'[i].k = "script"
  BY Zenon, <1>2, OnlyOne
<1>3. ParentLoops'
  BY Zenon, <1>p, <1>i DEF ParentLoops
<1> QED
  BY Zenon, <1>2, <1>3, <1>p, <1>i DEF Outcome, SettledIsOver, Settled, Begun, NoScriptFiles,
     ThrownHasHandler, EndsWell

LEMMA OutcomeStep ==
  ASSUME IInv, Outcome, [Next]_vars, "ush" \notin Forms, "fredir" \notin Forms
  PROVE  Outcome'
<1>0. TypeOK
  BY DEF IInv
<1>1. CASE stack # <<>> /\ Step
  <2>1. Moves
    BY <1>0, <1>1, EveryMove
  <2>2. SettledIsOver'
    BY <1>0, <1>1, SettledStep DEF Outcome, Next
  <2>3. Begun'
    <3>1. stack' # <<>> => stack'[1].k = "script"
      <4>1. stack[1].k = "script" /\ Len(<<>>) = 0
        BY <1>1 DEF Outcome, Begun
      <4> QED
        BY <1>0, <1>1, <2>1, <4>1, FramesMove
    <3> QED
      BY <3>1 DEF Begun
  <2>4. NoScriptFiles' /\ ParentLoops'
    BY <1>0, <1>1, <2>1, ParentLoopsMove DEF Outcome, NoScriptFiles, ParentLoops, FramesOf
  <2>5. ThrownHasHandler'
    <3>1. ctl'.t = "throw" /\ ctl'.e \in {"return", "subexit"} =>
            FramesOf(stack', HandlerOf(ctl'.e), Len(stack')) # {}
      BY <1>1, HandledMove DEF Outcome
    <3> QED
      BY <3>1 DEF ThrownHasHandler, FramesOf, HandlerOf
  <2>6. EndsWell'
    BY <1>1, EndsWellStep DEF Outcome, EndsWell
  <2>7. ctl'.t # "rejected"
    BY <1>0, <1>1, Unsettled DEF ExecSettles
  <2> QED
    BY <2>2, <2>3, <2>4, <2>5, <2>6, <2>7 DEF Outcome
<1>2. CASE stack = <<>> /\ Step
  <2>1. ExecSettles
    BY <1>0, <1>2, EmptyStep
  <2>2. ctl' = Finished("resolved") /\ stack' = stack /\ sh' = sh
    BY <2>1 DEF ExecSettles, Outcome, EndsWell
  <2>3. ctl'.t = "resolved"
    BY <2>2 DEF Finished
  <2> QED
    BY <1>2, <2>2, <2>3 DEF Outcome, SettledIsOver, Settled, Begun, NoScriptFiles,
       ParentLoops, ThrownHasHandler, EndsWell, FramesOf
<1>3. CASE ExecAgain
  BY Zenon, <1>3, OutcomeBegins DEF ExecAgain
<1>4. CASE UNCHANGED vars
  BY <1>4 DEF vars, Outcome, SettledIsOver, Settled, Begun, NoScriptFiles,
     ParentLoops, ThrownHasHandler, EndsWell, FramesOf, HandlerOf
<1> QED
  BY <1>1, <1>2, <1>3, <1>4 DEF Next

LEMMA OutcomeHolds ==
  ASSUME "ush" \notin Forms, "fredir" \notin Forms
  PROVE  Spec => [](IInv /\ Outcome)
<1>1. ASSUME Init
      PROVE  Outcome
  <2> DEFINE f == Frame("script", "")
  <2>1. stack = <<f>> /\ ctl = Run /\ sh = Fresh
    BY Zenon, <1>1 DEF Init
  <2>2. f.k = "script"
    BY Zenon, FrameFields
  <2>3. Run.t = "run" /\ ~Fresh.parentHasLoop
    BY DEF Run, Fresh
  <2>4. ctl.t = "run" /\ ~sh.parentHasLoop
    BY Zenon, <2>1, <2>3
  <2> HIDE DEF f
  <2>5. Len(stack) = 1 /\ stack[1].k = "script" /\ stack # <<>>
    BY <2>1, <2>2
  <2>6. \A i \in 1 .. Len(stack) : stack[i].k = "script"
    BY <2>5
  <2>7. ParentLoops
    BY <2>4, <2>6 DEF ParentLoops
  <2> QED
    BY <2>4, <2>5, <2>6, <2>7 DEF Outcome, SettledIsOver, Settled, Begun, NoScriptFiles,
       ThrownHasHandler, EndsWell
<1>2. IInv /\ Outcome /\ [Next]_vars => Outcome'
  BY OutcomeStep
<1> QED
  BY <1>1, <1>2, Invariance, PTL DEF Spec

\* Whatever the program, if it runs no script file and redirects no function, a
\* ReturnError is only thrown inside a function or a sourced file, and a
\* SubshellExitError only inside a subshell, which catch them.
THEOREM ThrownIsHandled ==
  ASSUME "ush" \notin Forms, "fredir" \notin Forms
  PROVE  Spec => []ThrownHasHandler
<1>1. Outcome => ThrownHasHandler
  BY DEF Outcome
<1> QED
  BY <1>1, OutcomeHolds, PTL

\* And no exception of the interpreter's own control flow is left for Bash.exec to
\* reject its promise with.
NeverRejects == ctl.t # "rejected"
THEOREM NeverRejected ==
  ASSUME "ush" \notin Forms, "fredir" \notin Forms
  PROVE  Spec => []NeverRejects
<1>1. Outcome => NeverRejects
  BY DEF Outcome, NeverRejects
<1> QED
  BY <1>1, OutcomeHolds, PTL


-----------------------------------------------------------------------------
(* The safety half of the promise.                                         *)

\* No catch clause swallows an ExecutionLimitError.
LEMMA LimitPasses ==
  ASSUME Step, stack # <<>>, ctl.t = "throw", ctl.e = "limit"
  PROVE  Rethrow
<1>1. \A K : ~Running(K) /\ ~Returned(K)
  BY DEF Running, Returned
<1>2. \A form : ~Command(form) /\ ~Ready(form)
  BY <1>1 DEF Command, Ready
<1>3. CASE Lists
  BY <1>3, <1>1 DEF Lists, ExecuteStatement, StatementReturned, ScriptEnds, ScriptCatches,
     ListEnds, ListCatches, ConditionLeaves, Expansion
<1>4. CASE Statements
  BY Zenon, <1>4, <1>1 DEF Statements, NextPipeline, PipelineReturned, StatementEnds,
     StatementThrows, SegmentReturned, SegmentThrows
<1>5. CASE Compounds
  BY Zenon, <1>5, <1>1, <1>2 DEF Compounds, EnterIf, EnterCase, EnterGroup, DefineFunction,
     CompoundFails, EvaluateIfCondition, IfReturned, CaseItem, CaseReturned, BranchThrows,
     GroupEnds, GroupCatches, RunSubshell, SubshellEnds, SubshellCatches, Expansion
<1>6. CASE Loops
  BY <1>6, <1>1, <1>2 DEF Loops, EnterLoop, NextIteration, ForEnds, ForHeaderThrows,
     WhileTested, UntilTested, LoopBodyEnds, WhileConditionThrows, UntilConditionThrows,
     LoopBodyThrows, Expansion
<1>7. CASE Simples
  <2>1. ~BeginAssignment /\ ~BeginCommand /\ ~Substitute /\ ~WordExpanded /\ ~WordFails
    BY Zenon, <1>1, <1>2 DEF BeginAssignment, BeginCommand, Substitute, WordExpanded, WordFails
  <2>2. /\ ~Assign /\ ~Builtin /\ ~ChangeDir /\ ~SetOption /\ ~(\E e : LoopExit(e))
        /\ ~ReturnBuiltin /\ ~ExitBuiltin /\ ~CommandReturned
    BY <1>1, <1>2 DEF Assign, Builtin, ChangeDir, SetOption, LoopExit, ReturnBuiltin,
       ExitBuiltin, CommandReturned
  <2>3. SubstitutionLeaves \/ CommandThrows => Rethrow
    BY <1>1 DEF SubstitutionLeaves, CommandThrows
  <2> QED
    BY <1>7, <2>1, <2>2, <2>3 DEF Simples
<1>8. CASE Callers
  BY Zenon, <1>8, <1>1, <1>2 DEF Callers, CallFunction, RunFunctionBody, FunctionLeaves,
     FunctionRedirectFails, Evaluate, Source, RunUserScript, RunScript, EvalLeaves,
     SourceLeaves, UserScriptLeaves
<1> QED
  BY <1>3, <1>4, <1>5, <1>6, <1>7, <1>8 DEF Step, ExecSettles

\* Only executeStatement counts commands.
LEMMA CountKept ==
  ASSUME TypeOK, Step, ~ExecuteStatement
  PROVE  sh'.count = sh.count
<1>0. sh \in ShellState
  BY DEF TypeOK
<1>1. CASE Lists
  <2>1. sh' = sh \/ (\E x : sh' = [sh EXCEPT !.lastExit = x])
          \/ (\E x : sh' = [sh EXCEPT !.inCondition = x])
    BY <1>1 DEF Lists, StatementReturned, ScriptEnds, ScriptCatches, ListEnds, ListCatches,
       ConditionLeaves
  <2> QED
    BY <1>0, <2>1 DEF ShellState
<1>2. CASE Statements
  <2>1. \A c : CollectSegment(c) => sh' = sh \/ \E x : sh' = [sh EXCEPT !.env = x]
    BY DEF CollectSegment
  <2>2. \/ sh' = sh \/ (\E x : sh' = [sh EXCEPT !.lastExit = x])
        \/ (\E x : sh' = [sh EXCEPT !.errexitSafe = x])
        \/ (\E x : sh' = [sh EXCEPT !.env = x])
    BY Zenon, <1>2, <2>1 DEF Statements, NextPipeline, PipelineReturned, StatementEnds,
       StatementThrows, SegmentReturned, SegmentThrows
  <2> QED
    BY <1>0, <2>2 DEF ShellState
<1>3. ASSUME NEW sv
      PROVE  InSubshell.count = sh.count /\ RestoreFrom(sv).count = sh.count
  BY <1>0 DEF InSubshell, RestoreFrom, ShellState
<1>4. CASE Compounds
  <2>1. \/ sh' = sh \/ (\E x : sh' = [sh EXCEPT !.fns = x])
        \/ (\E x : sh' = [sh EXCEPT !.inCondition = x])
        \/ sh' = InSubshell \/ sh' = RestoreFrom(Top.sv)
    BY Zenon, <1>4 DEF Compounds, EnterIf, EnterCase, EnterGroup, DefineFunction,
       CompoundFails, EvaluateIfCondition, IfReturned, CaseItem, CaseReturned, BranchThrows,
       GroupEnds, GroupCatches, RunSubshell, SubshellEnds, SubshellCatches
  <2> QED
    BY <1>0, <1>3, <2>1 DEF ShellState
<1>5. CASE Loops
  <2>1. \/ sh' = sh \/ (\E x : sh' = [sh EXCEPT !.loopDepth = x])
        \/ (\E x : sh' = [sh EXCEPT !.inCondition = x])
        \/ (\E x, y : sh' = [[sh EXCEPT !.inCondition = x] EXCEPT !.loopDepth = y])
    BY Zenon, <1>5 DEF Loops, EnterLoop, NextIteration, ForEnds, ForHeaderThrows,
       WhileTested, UntilTested, LoopBodyEnds, WhileConditionThrows, UntilConditionThrows,
       LoopBodyThrows, OutOfLoop
  <2> QED
    BY Zenon, <1>0, <2>1 DEF ShellState
<1>6. ASSUME NEW s \in ShellState
      PROVE  Undone(s).count = s.count
  BY DEF Undone, ShellState
<1>7. CASE Simples
  <2>1. CASE BeginAssignment \/ BeginCommand \/ Substitute \/ WordExpanded \/ WordFails
               \/ Assign \/ ExitBuiltin \/ CommandThrows
    <3>1. \/ sh' = sh \/ (\E x : sh' = [sh EXCEPT !.env = x])
          \/ (\E x : sh' = [sh EXCEPT !.substDepth = x])
      BY Zenon, <2>1 DEF BeginAssignment, BeginCommand, Substitute, WordExpanded, WordFails,
         Assign, ExitBuiltin, CommandThrows
    <3> QED
      BY <1>0, <3>1 DEF ShellState
  <2>2. CASE SubstitutionLeaves
    <3> DEFINE d == [sh EXCEPT !.env = Top.sv.env, !.cwd = Top.sv.cwd,
                               !.substDepth = Top.sv.substDepth]
    <3>1. d.count = sh.count /\ \A x : [d EXCEPT !.lastExit = x].count = d.count
      BY <1>0 DEF ShellState
    <3>2. sh' = d \/ \E x : sh' = [d EXCEPT !.lastExit = x]
      BY Zenon, <2>2 DEF SubstitutionLeaves
    <3> HIDE DEF d
    <3> QED
      BY <3>1, <3>2
  <2>3. CASE Builtin \/ ReturnBuiltin \/ CommandReturned \/ \E e : LoopExit(e)
    BY <1>0, <1>6, <2>3 DEF Builtin, ReturnBuiltin, CommandReturned, LoopExit
  <2>4. CASE ChangeDir
    <3>1. PICK d \in Dirs : sh' = Undone([sh EXCEPT !.cwd = d])
      BY <2>4 DEF ChangeDir
    <3> DEFINE s == [sh EXCEPT !.cwd = d]
    <3>2. s \in ShellState /\ s.count = sh.count
      BY <1>0 DEF ShellState
    <3> HIDE DEF s
    <3> QED
      BY <1>6, <3>1, <3>2 DEF s
  <2>5. CASE SetOption
    <3>1. PICK on \in BOOLEAN : \/ sh' = Undone([sh EXCEPT !.errexit = on])
                                \/ sh' = Undone([sh EXCEPT !.pipefail = on])
      BY <2>5 DEF SetOption
    <3> DEFINE s == [sh EXCEPT !.errexit = on]
               t == [sh EXCEPT !.pipefail = on]
    <3>2. /\ s \in ShellState /\ s.count = sh.count
          /\ t \in ShellState /\ t.count = sh.count
      BY <1>0 DEF ShellState
    <3>3. sh' = Undone(s) \/ sh' = Undone(t)
      BY <3>1
    <3> HIDE DEF s, t
    <3> QED
      BY <1>6, <3>2, <3>3
  <2> QED
    BY <1>7, <2>1, <2>2, <2>3, <2>4, <2>5 DEF Simples
<1>8. CASE Callers
  <2> DEFINE d == RestoreFrom(Top.sv)
  <2>1. \/ sh' = sh \/ (\E x, y : sh' = [sh EXCEPT !.callDepth = x, !.scopes = y])
        \/ (\E x : sh' = [sh EXCEPT !.sourceDepth = x]) \/ sh' = InSubshell
        \/ (\E x, y : sh' = [d EXCEPT !.fns = x, !.scopes = y])
    BY Zenon, <1>8 DEF Callers, CallFunction, RunFunctionBody, FunctionLeaves,
       FunctionRedirectFails, Evaluate, Source, RunUserScript, RunScript, EvalLeaves,
       SourceLeaves, UserScriptLeaves, OutOfFunction
  <2>2. d.count = sh.count /\ \A x, y : [d EXCEPT !.fns = x, !.scopes = y].count = d.count
    BY <1>0 DEF RestoreFrom, ShellState
  <2> HIDE DEF d
  <2>3. InSubshell.count = sh.count
    BY <1>3
  <2>4. /\ \A x, y : [sh EXCEPT !.callDepth = x, !.scopes = y].count = sh.count
        /\ \A x : [sh EXCEPT !.sourceDepth = x].count = sh.count
    BY <1>0 DEF ShellState
  <2>5. CASE sh' = sh \/ sh' = InSubshell \/ \E x : sh' = [sh EXCEPT !.sourceDepth = x]
    BY <2>3, <2>4, <2>5
  <2>6. CASE \E x, y : sh' = [sh EXCEPT !.callDepth = x, !.scopes = y]
    BY <2>4, <2>6
  <2>7. CASE \E x, y : sh' = [d EXCEPT !.fns = x, !.scopes = y]
    BY <2>2, <2>7
  <2> QED
    BY Zenon, <2>1, <2>5, <2>6, <2>7
<1>9. CASE ExecSettles
  BY <1>9 DEF ExecSettles
<1> QED
  BY <1>1, <1>2, <1>4, <1>5, <1>7, <1>8, <1>9 DEF Step


\* Where a call of Bash.exec is, as ImplementsPromise maps it.
Phase == IF ctl.t = "resolved" THEN "resolved"
         ELSE IF ctl.t = "throw" /\ ctl.e = "limit" THEN "aborting" ELSE "running"

\* A command is started, or the limit is hit.
LEMMA StatementPromised ==
  ASSUME TypeOK, ExecuteStatement
  PROVE  Promise!Next
<1>1. /\ sh \in ShellState /\ sh.count \in Nat /\ MaxCommandCount \in Nat /\ ctl.t = "run"
      /\ Run.t = "run" /\ \A e : Thrown(e, 0, 1).t = "throw" /\ Thrown(e, 0, 1).e = e
  BY LimitsAssumption DEF TypeOK, ShellState, ExecuteStatement, Run, Thrown
<1>2. sh'.count = Counted
  <2>1. /\ \A x : [sh EXCEPT !.count = x].count = x
        /\ \A x, y : [sh EXCEPT !.count = x, !.errexitSafe = y].count = x
    BY <1>1 DEF ShellState
  <2> QED
    BY <2>1 DEF ExecuteStatement
<1>3. Phase = "running"
  BY <1>1 DEF Phase
<1>4. \/ Counted > MaxCommandCount /\ ctl'.t = "throw" /\ ctl'.e = "limit"
      \/ Counted <= MaxCommandCount /\ ctl'.t = "throw" /\ ctl'.e = "parse"
      \/ Counted <= MaxCommandCount /\ ctl'.t = "run"
  BY <1>1 DEF ExecuteStatement, ThrowHere, Call
<1>5. CASE Counted > MaxCommandCount /\ ctl'.t = "throw" /\ ctl'.e = "limit"
  <2>1. Phase' = "aborting" /\ sh'.count \in {sh.count, sh.count + 1}
    BY <1>2, <1>5 DEF Counted, Phase
  <2> QED
    BY <1>3, <2>1 DEF Promise!Next, Promise!HitLimit, Phase
<1>6. CASE Counted <= MaxCommandCount /\ ctl'.t \in {"run", "throw"} /\ ctl'.e # "limit"
  <2>1. Phase' = "running" /\ sh'.count = sh.count + 1 /\ sh.count < MaxCommandCount
    BY <1>1, <1>2, <1>6 DEF Counted, Phase
  <2> QED
    BY <1>3, <2>1 DEF Promise!Next, Promise!StartCommand, Phase
<1>7. ctl'.t = "run" => ctl'.e # "limit"
  <2>1. Run.e = "none"
    BY DEF Run
  <2> QED
    BY <1>1, <2>1 DEF ExecuteStatement, ThrowHere, Call
<1> QED
  BY <1>4, <1>5, <1>6, <1>7

LEMMA PromisedStep ==
  ASSUME TypeOK, Outcome, Outcome', [Next]_vars
  PROVE  [Promise!Next]_<<Phase, sh.count>>
<1>1. CASE ExecuteStatement
  BY <1>1, StatementPromised
<1>2. CASE ExecSettles
  <2>1. ctl'.t \in {"resolved", "rejected"} /\ sh' = sh /\ ctl.t \in {"ret", "throw"}
    BY <1>2 DEF ExecSettles, Finished
  <2>2. Phase' = "resolved" /\ Phase \in {"running", "aborting"}
    BY <2>1 DEF Outcome, Phase
  <2> QED
    BY <2>1, <2>2 DEF Promise!Next, Promise!Resolve, Phase
<1>3. CASE ExecAgain
  <2>1. Phase = "resolved"
    BY Zenon, <1>3 DEF ExecAgain, Settled, Outcome, Phase
  <2>2. Phase' = "running" /\ sh'.count = Fresh.count
    <3>1. Run.t = "run"
      BY DEF Run
    <3> QED
      BY Zenon, <1>3, <3>1 DEF ExecAgain, Phase
  <2> QED
    BY <2>1, <2>2 DEF Promise!Next, Promise!NextCall, Phase
<1>4. CASE Step /\ ~ExecuteStatement /\ ~ExecSettles
  <2>1. sh'.count = sh.count /\ ctl'.t \in {"run", "ret", "throw"} /\ stack # <<>>
    BY <1>4, CountKept, Unsettled, EmptyStep
  <2>2. ctl.t # "resolved"
    BY <2>1 DEF Outcome, SettledIsOver, Settled
  <2>3. CASE ctl.t = "throw" /\ ctl.e = "limit"
    BY <1>4, <2>1, <2>3, LimitPasses DEF Rethrow, Phase
  <2>4. CASE ~(ctl.t = "throw" /\ ctl.e = "limit")
    <3>1. Phase = "running" /\ Phase' \in {"running", "aborting"}
      BY <2>1, <2>2, <2>4 DEF Phase
    <3> QED
      BY <2>1, <3>1 DEF Promise!Next, Promise!HitLimit, Phase
  <2> QED
    BY <2>3, <2>4
<1>5. CASE UNCHANGED vars
  BY <1>5 DEF vars, Phase
<1> QED
  BY <1>1, <1>2, <1>3, <1>4, <1>5 DEF Next

\* The safety half of the promise, for such programs and any limits: an exec counts
\* at most MaxCommandCount commands and one more, starts none after an
\* ExecutionLimitError, and ends by resolving.  (That it ends is the other half.)
THEOREM PromiseIsKept ==
  ASSUME "ush" \notin Forms, "fredir" \notin Forms
  PROVE  Spec => Promise!Init /\ [][Promise!Next]_<<Phase, sh.count>>
<1>1. Init => Promise!Init
  <2>1. Run.t = "run"
    BY DEF Run
  <2> QED
    BY Zenon, <2>1 DEF Init, Promise!Init
<1>2. TypeOK /\ Outcome /\ Outcome' /\ [Next]_vars => [Promise!Next]_<<Phase, sh.count>>
  BY PromisedStep
<1>3. IInv => TypeOK
  BY DEF IInv
<1> QED
  BY <1>1, <1>2, <1>3, OutcomeHolds, PTL DEF Spec


\* A call counts at most one command more than the limit, whatever the program.
CommandsBounded == sh.count <= MaxCommandCount + 1
THEOREM CommandsAreBounded == Spec => []CommandsBounded
<1>0. MaxCommandCount \in Nat /\ Fresh.count \in Nat /\ Fresh.count <= MaxCommandCount + 1
  BY LimitsAssumption DEF Fresh
<1>1. Init => CommandsBounded
  BY Zenon, <1>0 DEF Init, CommandsBounded
<1>2. ASSUME TypeOK, CommandsBounded, [Next]_vars
      PROVE  CommandsBounded'
  <2>1. CASE ExecuteStatement
    <3>1. sh \in ShellState /\ sh.count \in Nat
      BY <1>2 DEF TypeOK, ShellState
    <3>2. sh'.count = Counted
      <4>1. /\ \A x : [sh EXCEPT !.count = x].count = x
            /\ \A x, y : [sh EXCEPT !.count = x, !.errexitSafe = y].count = x
        BY <3>1 DEF ShellState
      <4> QED
        BY <2>1, <4>1 DEF ExecuteStatement
    <3> QED
      BY <1>0, <1>2, <3>1, <3>2 DEF CommandsBounded, Counted
  <2>2. CASE Step /\ ~ExecuteStatement
    BY <1>2, <2>2, CountKept DEF CommandsBounded
  <2>3. CASE ExecAgain
    BY Zenon, <1>0, <2>3 DEF ExecAgain, CommandsBounded
  <2>4. CASE UNCHANGED vars
    BY <1>2, <2>4 DEF vars, CommandsBounded
  <2> QED
    BY <1>2, <2>1, <2>2, <2>3, <2>4 DEF Next
<1> QED
  BY <1>1, <1>2, TypeCorrect, PTL DEF Spec

-----------------------------------------------------------------------------
(* The inductive invariant.                                                *)

\* The frames that take part in running one command.
CommandKinds == {"stmt", "pipe", "simple"}

\* A pipeline that has started no command, a simple command without substitutions.
Untouched(f) ==
  \/ f.k = "pipe" /\ f.n = 0
  \/ f.k = "simple" /\ f.ph # "run" /\ f.m = 0

\* A simple command has no more substitutions left than it had.
Begins(f) == f.k = "simple" /\ f.ph # "run" => f.n <= f.m

\* Nothing has run above an untouched frame.
Progress(s, c) ==
  /\ \A i \in 1 .. Len(s) : /\ Begins(s[i])
                            /\ Untouched(s[i]) => i = Len(s) /\ c.t = "run"
  /\ c.t = "throw" => c.by # "own"

\* A pipeline is run by its statement, a simple command by its pipeline.
Within(s) ==
  \A i \in 1 .. Len(s) : /\ s[i].k = "pipe" => i > 1 /\ s[i - 1].k = "stmt"
                         /\ s[i].k = "simple" => i > 1 /\ s[i - 1].k = "pipe"

\* The command of the statement in progress has run no other statement so far: the
\* statement, its pipeline or its simple command is on top, and has no result, or
\* one the command set itself.
AtFault(s, c) ==
  LET n == Len(s) IN
  \/ /\ n > 0 /\ s[n].k = "stmt" /\ s[n].ph = "own"
     /\ c.t = "run" \/ (c.t = "ret" /\ c.by = "own")
  \/ /\ n > 1 /\ s[n].k = "pipe" /\ s[n - 1].ph = "own"
     /\ s[n].n = 0 \/ (c.t = "ret" /\ c.by = "own" /\ s[n].n <= 1)
  \/ /\ n > 2 /\ s[n].k = "simple" /\ s[n].ph \in {"value", "words"} /\ s[n].m = 0
     /\ s[n - 1].n <= 1 /\ s[n - 2].ph = "own" /\ c.t = "run"

\* Then errexitSafe is as executeStatement reset it.
Accounts ==
  /\ SettledIsOver
  /\ Within(stack)
  /\ Progress(stack, ctl)
  /\ AtFault(stack, ctl) => ~sh.errexitSafe

-----------------------------------------------------------------------------
(* Moves after which no command is at fault.                               *)

\* The frame entered, if any, is entered by the frame that runs it.
Nests ==
  Len(stack') > Len(stack) =>
    /\ stack'[Len(stack')].k = "pipe" => Top.k = "stmt"
    /\ stack'[Len(stack')].k = "simple" => Top.k = "pipe"

LEMMA WithinMoves ==
  ASSUME TypeOK, stack # <<>>, Within(stack), Moves, Nests
  PROVE  Within(stack')
<1> DEFINE n == Len(stack)
<1>1. n \in Nat \ {0} /\ Top = stack[n]
  BY Typed DEF Top
<1>2. \/ Len(stack') = n - 1 /\ \A i \in 1 .. n - 1 : stack'[i] = stack[i]
      \/ /\ Len(stack') \in {n, n + 1} /\ stack'[n].k = Top.k
         /\ \A i \in 1 .. n - 1 : stack'[i] = stack[i]
  BY Typed DEF Moves, Enter, Entered, Leave, Remain, GoesOnAs
<1> HIDE DEF n
<1>3. /\ Len(stack') \in {n - 1, n, n + 1}
      /\ \A i \in 1 .. Len(stack') : i <= n => stack'[i].k = stack[i].k
      /\ Len(stack') = n + 1 => /\ stack'[n + 1].k = "pipe" => stack'[n].k = "stmt"
                                /\ stack'[n + 1].k = "simple" => stack'[n].k = "pipe"
  BY <1>1, <1>2 DEF Nests, n
<1>4. \A i \in 1 .. n : /\ stack[i].k = "pipe" => i > 1 /\ stack[i - 1].k = "stmt"
                        /\ stack[i].k = "simple" => i > 1 /\ stack[i - 1].k = "pipe"
  BY DEF Within, n
<1> SUFFICES ASSUME NEW i \in 1 .. Len(stack')
             PROVE  /\ stack'[i].k = "pipe" => i > 1 /\ stack'[i - 1].k = "stmt"
                    /\ stack'[i].k = "simple" => i > 1 /\ stack'[i - 1].k = "pipe"
  BY DEF Within
<1>5. CASE i <= n
  <2>1. i \in 1 .. n /\ stack'[i].k = stack[i].k
    BY <1>1, <1>3, <1>5
  <2>2. i > 1 => stack'[i - 1].k = stack[i - 1].k
    BY SMTT(30), <1>1, <1>3, <1>5
  <2> QED
    BY <1>4, <2>1, <2>2
<1>6. CASE i = n + 1
  BY <1>1, <1>3, <1>6
<1> QED
  BY <1>1, <1>3, <1>5, <1>6

\* Every frame but the last is as it was.
Keeping(m) == Len(stack') = m /\ \A i \in 1 .. Len(stack) - 1 : i <= m => stack'[i] = stack[i]

\* A frame is left with a result that a nested statement set, or with an error.
LEMMA QuietLeave ==
  ASSUME TypeOK, stack # <<>>, Progress(stack, ctl),
         stack' = Below, ctl'.t \in {"ret", "throw"}, ctl'.by # "own"
  PROVE  Progress(stack', ctl') /\ ~AtFault(stack', ctl')
<1> DEFINE n == Len(stack)
<1>1. /\ n \in Nat \ {0}
      /\ Len(stack') = n - 1 /\ \A i \in 1 .. n - 1 : stack'[i] = stack[i]
  BY Typed
<1>2. \A i \in 1 .. n : Begins(stack[i]) /\ (Untouched(stack[i]) => i = n)
  BY DEF Progress
<1> HIDE DEF n
<1>3. \A i \in 1 .. n - 1 : Begins(stack'[i]) /\ ~Untouched(stack'[i])
  BY <1>1, <1>2
<1>4. Progress(stack', ctl')
  BY <1>1, <1>3 DEF Progress
<1>5. n - 1 > 1 /\ stack'[n - 1].k = "pipe" => stack'[n - 1].n # 0
  BY <1>1, <1>3 DEF Untouched
<1>6. ~AtFault(stack', ctl')
  BY <1>1, <1>5 DEF AtFault
<1> QED
  BY <1>4, <1>6

\* The frame on top goes on, or stops with an error.
LEMMA QuietRemain ==
  ASSUME TypeOK, stack # <<>>, Progress(stack, ctl), Keeping(Len(stack)),
         \/ stack'[Len(stack)].k \notin CommandKinds /\ ctl'.t # "throw"
         \/ /\ ~Untouched(stack'[Len(stack)]) /\ Begins(stack'[Len(stack)])
            /\ ctl'.t = "throw" /\ ctl'.by # "own"
  PROVE  Progress(stack', ctl') /\ ~AtFault(stack', ctl')
<1> DEFINE n == Len(stack)
<1>1. n \in Nat \ {0}
  BY Typed
<1>2. \A i \in 1 .. n : Begins(stack[i]) /\ (Untouched(stack[i]) => i = n)
  BY DEF Progress
<1>3. Len(stack') = n /\ \A i \in 1 .. n - 1 : stack'[i] = stack[i]
  BY <1>1 DEF Keeping
<1> DEFINE g == stack'[n]
<1>4. \/ g.k \notin CommandKinds /\ ctl'.t # "throw"
      \/ ~Untouched(g) /\ Begins(g) /\ ctl'.t = "throw" /\ ctl'.by # "own"
  OBVIOUS
<1>5. ~Untouched(g) /\ Begins(g)
  BY <1>4 DEF Untouched, Begins, CommandKinds
<1> HIDE DEF n
<1>6. \A i \in 1 .. n : Begins(stack'[i]) /\ ~Untouched(stack'[i])
  BY <1>1, <1>2, <1>3, <1>5
<1>7. Progress(stack', ctl')
  BY <1>3, <1>4, <1>6 DEF Progress
<1>8. ~AtFault(stack', ctl')
  BY <1>3, <1>4, <1>5 DEF AtFault, Untouched, CommandKinds
<1> QED
  BY <1>7, <1>8

\* Another construct is entered from a frame that has then begun.
LEMMA QuietEnter ==
  ASSUME TypeOK, stack # <<>>, Progress(stack, ctl), Keeping(Len(stack) + 1),
         ~Untouched(stack'[Len(stack)]), Begins(stack'[Len(stack)]),
         stack'[Len(stack) + 1].k \notin CommandKinds, ctl' = Run
  PROVE  Progress(stack', ctl') /\ ~AtFault(stack', ctl')
<1> DEFINE n == Len(stack)
<1>1. n \in Nat \ {0}
  BY Typed
<1>2. \A i \in 1 .. n : Begins(stack[i]) /\ (Untouched(stack[i]) => i = n)
  BY DEF Progress
<1>3. Len(stack') = n + 1 /\ \A i \in 1 .. n - 1 : stack'[i] = stack[i]
  BY <1>1 DEF Keeping
<1> DEFINE f == stack'[n + 1]
<1>4. f.k \notin CommandKinds /\ ~Untouched(f) /\ Begins(f)
  BY DEF Untouched, Begins, CommandKinds
<1>5. ~Untouched(stack'[n]) /\ Begins(stack'[n])
  OBVIOUS
<1> HIDE DEF n
<1>6. \A i \in 1 .. n + 1 : Begins(stack'[i]) /\ ~Untouched(stack'[i])
  BY <1>1, <1>2, <1>3, <1>4, <1>5
<1>7. Progress(stack', ctl')
  BY <1>3, <1>6 DEF Progress, Run
<1>8. ~AtFault(stack', ctl')
  BY <1>3, <1>4 DEF AtFault, CommandKinds
<1> QED
  BY <1>7, <1>8


\* The stack after a call and after a change of the top frame.
LEMMA StackAfter ==
  ASSUME TypeOK, stack # <<>>
  PROVE  /\ \A f : Call(f) => /\ Keeping(Len(stack) + 1) /\ stack'[Len(stack)] = Top
                              /\ stack'[Len(stack) + 1] = f
         /\ \A g, f : stack' = Append(Update(g), f) =>
              /\ Keeping(Len(stack) + 1) /\ stack'[Len(stack)] = g
              /\ stack'[Len(stack) + 1] = f
         /\ \A g : stack' = Update(g) => Keeping(Len(stack)) /\ stack'[Len(stack)] = g
         /\ stack' = stack => Keeping(Len(stack)) /\ stack'[Len(stack)] = Top
<1> DEFINE n == Len(stack)
<1>1. stack \in Seq(FrameState) /\ n \in Nat \ {0} /\ Top = stack[n]
  BY Typed DEF Top
<1>2. ASSUME NEW g
      PROVE  /\ Update(g) \in Seq(FrameState \cup {g}) /\ Len(Update(g)) = n
             /\ Update(g)[n] = g /\ \A i \in 1 .. n - 1 : Update(g)[i] = stack[i]
  <2>1. stack \in Seq(FrameState \cup {g})
    BY <1>1
  <2> QED
    BY <1>1, <2>1 DEF Update
<1>3. ASSUME NEW f, Call(f)
      PROVE  /\ Keeping(n + 1) /\ stack'[n] = Top /\ stack'[n + 1] = f
  <2>1. stack' = Append(stack, f)
    BY <1>3 DEF Call
  <2>2. /\ Len(stack') = n + 1 /\ stack'[n + 1] = f
        /\ \A i \in 1 .. n : stack'[i] = stack[i]
    BY <1>1, <2>1
  <2> QED
    BY <1>1, <2>2 DEF Keeping
<1>4. ASSUME NEW g, NEW f, stack' = Append(Update(g), f)
      PROVE  /\ Keeping(n + 1) /\ stack'[n] = g /\ stack'[n + 1] = f
  <2> DEFINE u == Update(g)
             S == FrameState \cup {g}
  <2>1. /\ u \in Seq(S) /\ Len(u) = n /\ u[n] = g
        /\ \A i \in 1 .. n - 1 : u[i] = stack[i]
    BY <1>2
  <2>2. stack' = Append(u, f)
    BY <1>4
  <2> HIDE DEF u, S
  <2>3. /\ Len(stack') = n + 1 /\ stack'[n + 1] = f
        /\ \A i \in 1 .. n : stack'[i] = u[i]
    BY <1>1, <2>1, <2>2
  <2> QED
    BY <1>1, <2>1, <2>3 DEF Keeping
<1>5. ASSUME NEW g, stack' = Update(g)
      PROVE  Keeping(n) /\ stack'[n] = g
  BY <1>1, <1>2, <1>5 DEF Keeping
<1>6. ASSUME stack' = stack
      PROVE  Keeping(n) /\ stack'[n] = Top
  BY <1>1, <1>6 DEF Keeping
<1> QED
  BY <1>3, <1>4, <1>5, <1>6

\* A construct is left with a result of a nested statement, or with an error.
LEMMA LeavesQuietly ==
  ASSUME TypeOK, stack # <<>>, Progress(stack, ctl),
         \/ \E c : Return(c)
         \/ \E e, c : Throw(e, c)
         \/ ctl.t = "throw" /\ Rethrow
         \/ stack' = Below /\ \E e, lv, c : ctl' = Thrown(e, lv, c)
         \/ ctl.t = "throw" /\ stack' = Below /\ \E lv : ctl' = [ctl EXCEPT !.lv = lv]
  PROVE  Progress(stack', ctl') /\ ~AtFault(stack', ctl') /\ Nests
<1>1. /\ \A c : Result(c, "inner").t = "ret" /\ Result(c, "inner").by = "inner"
      /\ \A e, lv, c : Thrown(e, lv, c).t = "throw" /\ Thrown(e, lv, c).by = "inner"
  BY DEF Result, Thrown
<1>2. ctl.t = "throw" => ctl.by # "own"
  BY DEF Progress
<1>3. \A lv : [ctl EXCEPT !.lv = lv].t = ctl.t /\ [ctl EXCEPT !.lv = lv].by = ctl.by
  <2>1. ctl \in ControlState
    BY Typed
  <2> QED
    BY <2>1 DEF ControlState
<1> DEFINE Quiet == stack' = Below /\ ctl'.t \in {"ret", "throw"} /\ ctl'.by # "own"
<1>4. ASSUME NEW c, Return(c)
      PROVE  Quiet
  BY <1>1, <1>4 DEF Return
<1>5. ASSUME NEW e, NEW c, Throw(e, c)
      PROVE  Quiet
  BY <1>1, <1>5 DEF Throw
<1>6. ASSUME ctl.t = "throw", Rethrow
      PROVE  Quiet
  BY <1>2, <1>6 DEF Rethrow
<1>7. ASSUME NEW e, NEW lv, NEW c, stack' = Below, ctl' = Thrown(e, lv, c)
      PROVE  Quiet
  BY <1>1, <1>7
<1>8. ASSUME ctl.t = "throw", NEW lv, stack' = Below, ctl' = [ctl EXCEPT !.lv = lv]
      PROVE  Quiet
  BY <1>2, <1>3, <1>8
<1> HIDE DEF Quiet
<1>9. Quiet
  BY <1>4, <1>5, <1>6, <1>7, <1>8
<1>10. Nests
  BY <1>9, Typed DEF Quiet, Nests
<1> QED
  BY <1>9, <1>10, QuietLeave DEF Quiet

\* A construct that is no command goes on, stops, or enters one that is none either.
LEMMA GoesQuietly ==
  ASSUME TypeOK, stack # <<>>, Progress(stack, ctl), Top.k \notin CommandKinds, Moves,
         \/ \E f : Call(f) /\ f.k \notin CommandKinds
         \/ \E g, f : CallFrom(g, f) /\ f.k \notin CommandKinds
         \/ \E g : Stay(g)
         \/ \E e : ThrowHere(e)
  PROVE  Progress(stack', ctl') /\ ~AtFault(stack', ctl') /\ Nests
<1> DEFINE n == Len(stack)
<1>1. n \in Nat \ {0} /\ Top = stack[n] /\ Len(Below) = n - 1
  BY Typed DEF Top
<1>2. Run.t = "run" /\ \A e : Thrown(e, 0, 1).t = "throw" /\ Thrown(e, 0, 1).by = "inner"
  BY DEF Run, Thrown
<1>3. /\ Len(stack') \in {n, n + 1}
      /\ Keeping(Len(stack'))
      /\ Len(stack') = n + 1 => stack'[n + 1].k \notin CommandKinds /\ ctl' = Run
      /\ Len(stack') = n => ctl' = Run \/ \E e : ctl' = Thrown(e, 0, 1)
  <2>1. ASSUME NEW f, Call(f), f.k \notin CommandKinds
        PROVE  Keeping(n + 1) /\ stack'[n + 1].k \notin CommandKinds /\ ctl' = Run
    BY <2>1, StackAfter DEF Call
  <2>2. ASSUME NEW g, NEW f, CallFrom(g, f), f.k \notin CommandKinds
        PROVE  Keeping(n + 1) /\ stack'[n + 1].k \notin CommandKinds /\ ctl' = Run
    BY <2>2, StackAfter DEF CallFrom
  <2>3. ASSUME NEW g, Stay(g)
        PROVE  Keeping(n) /\ ctl' = Run
    BY <2>3, StackAfter DEF Stay
  <2>4. ASSUME NEW e, ThrowHere(e)
        PROVE  Keeping(n) /\ ctl' = Thrown(e, 0, 1)
    BY <2>4, StackAfter DEF ThrowHere
  <2>5. \/ Keeping(n + 1) /\ stack'[n + 1].k \notin CommandKinds /\ ctl' = Run
        \/ Keeping(n) /\ (ctl' = Run \/ \E e : ctl' = Thrown(e, 0, 1))
    BY <2>1, <2>2, <2>3, <2>4
  <2>6. \A m : Keeping(m) => Len(stack') = m
    BY DEF Keeping
  <2> HIDE DEF n
  <2> QED
    BY <1>1, <2>5, <2>6
<1>4. stack'[n].k = stack[n].k
  <2> HIDE DEF n
  <2>1. ~Leave
    BY <1>1, <1>3 DEF Leave
  <2> QED
    BY <1>1, <2>1 DEF Moves, Enter, Entered, Remain, GoesOnAs, n
<1>5. stack'[n].k \notin CommandKinds /\ ~Untouched(stack'[n]) /\ Begins(stack'[n])
  BY <1>1, <1>4 DEF Untouched, Begins, CommandKinds
<1>6. ASSUME Len(stack') = n + 1
      PROVE  Progress(stack', ctl') /\ ~AtFault(stack', ctl')
  BY <1>3, <1>5, <1>6, QuietEnter
<1>7. ASSUME Len(stack') = n
      PROVE  Progress(stack', ctl') /\ ~AtFault(stack', ctl')
  <2>1. \/ ctl'.t = "run"
        \/ ctl'.t = "throw" /\ ctl'.by = "inner"
    BY <1>2, <1>3, <1>7
  <2>2. Keeping(Len(stack))
    BY <1>3, <1>7
  <2> HIDE DEF n
  <2> QED
    BY <1>5, <2>1, <2>2, QuietRemain DEF n
<1>8. Nests
  BY <1>1, <1>3 DEF Nests, CommandKinds
<1> QED
  BY <1>3, <1>6, <1>7, <1>8

\* The constructs that are not commands.
LEMMA Constructs ==
  ASSUME TypeOK, stack # <<>>, Progress(stack, ctl), Step, Top.k \notin CommandKinds,
         ~ExecuteStatement
  PROVE  Progress(stack', ctl') /\ ~AtFault(stack', ctl') /\ Nests
<1> DEFINE Left == \/ \E c : Return(c)
                   \/ \E e, c : Throw(e, c)
                   \/ ctl.t = "throw" /\ Rethrow
                   \/ stack' = Below /\ \E e, lv, c : ctl' = Thrown(e, lv, c)
                   \/ ctl.t = "throw" /\ stack' = Below /\ \E lv : ctl' = [ctl EXCEPT !.lv = lv]
           Gone == \/ \E f : Call(f) /\ f.k \notin CommandKinds
                   \/ \E g, f : CallFrom(g, f) /\ f.k \notin CommandKinds
                   \/ \E g : Stay(g)
                   \/ \E e : ThrowHere(e)
<1>1. \A K : K \subseteq CommandKinds => ~Running(K) /\ ~Returned(K) /\ ~Throwing(K)
  BY DEF Running, Returned, Throwing
<1>2. /\ ~Running({"pipe"}) /\ ~Running({"simple"}) /\ ~Running({"stmt"})
      /\ ~Returned({"pipe"}) /\ ~Returned({"simple"}) /\ ~Returned({"stmt"})
      /\ ~Throwing({"pipe"}) /\ ~Throwing({"simple"}) /\ ~Throwing({"stmt"})
      /\ \A form : ~Command(form) /\ ~Ready(form)
  BY <1>1 DEF CommandKinds, Command, Ready
<1>3. /\ Frame("list", "").k \notin CommandKinds /\ Frame("group", "").k \notin CommandKinds
      /\ Frame("script", "").k \notin CommandKinds /\ Condition.k \notin CommandKinds
      /\ EnterSubshell.k \notin CommandKinds
  <2>1. /\ Frame("list", "").k = "list" /\ Frame("group", "").k = "group"
        /\ Frame("script", "").k = "script"
    BY Zenon, FrameFields
  <2>2. Condition.k = "cond" /\ EnterSubshell.k = "subshell"
    BY ConditionTyped, SubshellSaves
  <2> QED
    BY Zenon, <2>1, <2>2 DEF CommandKinds
<1>4. /\ \A c : Return(c) => Left
      /\ \A e, c : Throw(e, c) => Left
      /\ ctl.t = "throw" /\ Rethrow => Left
      /\ \A l : ctl.t = "throw" /\ stack' = Below /\ ctl' = [ctl EXCEPT !.lv = l] => Left
      /\ \A f : Call(f) /\ f.k \notin CommandKinds => Gone
      /\ \A g, f : CallFrom(g, f) /\ f.k \notin CommandKinds => Gone
      /\ \A g : Stay(g) => Gone
      /\ \A e : ThrowHere(e) => Gone
  OBVIOUS
<1> SUFFICES Left \/ Gone
  BY EveryMove, LeavesQuietly, GoesQuietly
<1> HIDE DEF Left, Gone
<1>5. CASE Lists
  BY <1>4, <1>5 DEF Lists, StatementReturned, ScriptEnds, ScriptCatches,
     ListEnds, ListCatches, ConditionLeaves, Throwing
<1>6. CASE Statements
  BY Zenon, <1>2, <1>6 DEF Statements, NextPipeline, PipelineReturned, StatementEnds,
     StatementThrows, SegmentReturned, SegmentThrows
<1>7. CASE Compounds
  BY Zenon, <1>2, <1>3, <1>4, <1>7 DEF Compounds, EnterIf, EnterCase, EnterGroup, DefineFunction,
     CompoundFails, EvaluateIfCondition, IfReturned, CaseItem, CaseReturned, BranchThrows,
     GroupEnds, GroupCatches, RunSubshell, SubshellEnds, SubshellCatches, Throwing
<1>8. CASE Loops
  BY Zenon, <1>2, <1>3, <1>4, <1>8 DEF Loops, EnterLoop, NextIteration, ForEnds, ForHeaderThrows,
     WhileTested, UntilTested, LoopBodyEnds, WhileConditionThrows, UntilConditionThrows,
     LoopBodyThrows, Throwing
<1>9. CASE Simples
  BY Zenon, <1>2, <1>4, <1>9 DEF Simples, BeginAssignment, BeginCommand, Substitute,
     SubstitutionLeaves, WordExpanded, WordFails, Assign, Builtin, ChangeDir, SetOption,
     LoopExit, ReturnBuiltin, ExitBuiltin, CommandReturned, CommandThrows, Throwing
<1>10. CASE Callers
  BY Zenon, <1>2, <1>3, <1>4, <1>10 DEF Callers, CallFunction, RunFunctionBody, FunctionLeaves,
     FunctionRedirectFails, Evaluate, Source, RunUserScript, RunScript, EvalLeaves,
     SourceLeaves, UserScriptLeaves, Throwing
<1> QED
  BY <1>5, <1>6, <1>7, <1>8, <1>9, <1>10 DEF Step, ExecSettles

-----------------------------------------------------------------------------
(* The commands.                                                           *)

\* After the step the account holds, and a frame is where it belongs.
Accounted ==
  Progress(stack', ctl') /\ (AtFault(stack', ctl') => ~sh'.errexitSafe) /\ Nests

\* The frame on top goes on, or enters another.
LEMMA Proceeds ==
  ASSUME TypeOK, stack # <<>>, Progress(stack, ctl),
         NEW m \in {Len(stack), Len(stack) + 1}, Keeping(m), Begins(stack'[Len(stack)]),
         Untouched(stack'[Len(stack)]) => m = Len(stack) /\ ctl'.t = "run",
         m = Len(stack) + 1 => Begins(stack'[Len(stack) + 1]) /\ ctl'.t = "run",
         ctl'.t = "throw" => ctl'.by # "own"
  PROVE  Progress(stack', ctl')
<1> DEFINE n == Len(stack)
<1>1. n \in Nat \ {0}
  BY Typed
<1>2. \A i \in 1 .. n : Begins(stack[i]) /\ (Untouched(stack[i]) => i = n)
  BY DEF Progress
<1>3. Len(stack') = m /\ \A i \in 1 .. n - 1 : stack'[i] = stack[i]
  BY <1>1 DEF Keeping
<1>4. /\ m \in {n, n + 1} /\ Begins(stack'[n])
      /\ Untouched(stack'[n]) => m = n /\ ctl'.t = "run"
      /\ m = n + 1 => Begins(stack'[n + 1]) /\ ctl'.t = "run"
  OBVIOUS
<1> HIDE DEF n
<1>5. \A i \in 1 .. m : Begins(stack'[i]) /\ (Untouched(stack'[i]) => i = m /\ ctl'.t = "run")
  BY <1>1, <1>2, <1>3, <1>4
<1> QED
  BY <1>3, <1>5 DEF Progress

\* executeStatement starts a statement with errexitSafe reset.
LEMMA StatementStarts ==
  ASSUME TypeOK, Progress(stack, ctl), ExecuteStatement
  PROVE  Accounted
<1> DEFINE n == Len(stack)
<1>1. stack # <<>> /\ Top.k \notin CommandKinds /\ sh \in ShellState
  <2>1. stack # <<>> /\ TakesStatements(Top)
    BY DEF ExecuteStatement
  <2> QED
    BY <2>1, Typed DEF TakesStatements, LoopKinds, CommandKinds, TypeOK
<1>2. n \in Nat \ {0} /\ Top = stack[n] /\ ~Untouched(Top) /\ Begins(Top)
  BY <1>1, Typed DEF Top, Untouched, Begins, CommandKinds
<1>3. CASE \E e : ThrowHere(e)
  <2>1. PICK e : ThrowHere(e)
    BY <1>3
  <2>2. Keeping(n) /\ stack'[n] = Top /\ ctl' = Thrown(e, 0, 1)
    BY <1>1, <2>1, StackAfter DEF ThrowHere
  <2>3. ctl'.t = "throw" /\ ctl'.by # "own"
    BY <2>2 DEF Thrown
  <2>4. Progress(stack', ctl') /\ ~AtFault(stack', ctl')
    BY <1>1, <1>2, <2>2, <2>3, QuietRemain
  <2>5. Nests
    BY <1>2, <2>2 DEF Keeping, Nests
  <2> QED
    BY <2>4, <2>5 DEF Accounted
<1>4. CASE Call(Frame("stmt", "own")) /\ sh' = [sh EXCEPT !.count = Counted, !.errexitSafe = FALSE]
  <2> DEFINE f == Frame("stmt", "own")
  <2>1. Keeping(n + 1) /\ stack'[n] = Top /\ stack'[n + 1] = f /\ ctl' = Run
    BY <1>1, <1>4, StackAfter DEF Call
  <2>2. f.k = "stmt" /\ ctl'.t = "run" /\ Len(stack') = n + 1
    BY <2>1, FrameFields DEF Run, Keeping
  <2> HIDE DEF f
  <2>3. Progress(stack', ctl')
    BY <1>1, <1>2, <2>1, <2>2, Proceeds DEF Begins
  <2>4. ~sh'.errexitSafe
    BY <1>1, <1>4 DEF ShellState
  <2>5. Nests
    BY <1>2, <2>1, <2>2 DEF Nests
  <2> QED
    BY <2>3, <2>4, <2>5 DEF Accounted
<1> QED
  BY <1>3, <1>4 DEF ExecuteStatement

\* A construct is left quietly.
LEMMA QuietlyAccounted ==
  ASSUME TypeOK, stack # <<>>, Progress(stack, ctl),
         \/ \E c : Return(c)
         \/ \E e, c : Throw(e, c)
         \/ ctl.t = "throw" /\ Rethrow
         \/ stack' = Below /\ \E e, lv, c : ctl' = Thrown(e, lv, c)
  PROVE  Accounted
  BY LeavesQuietly DEF Accounted

\* The pipelines of a statement.
LEMMA PipelinesAccounted ==
  ASSUME TypeOK, Progress(stack, ctl), AtFault(stack, ctl) => ~sh.errexitSafe,
         NextPipeline \/ PipelineReturned
  PROVE  Accounted
<1> DEFINE n == Len(stack)
<1>1. /\ stack # <<>> /\ Top.k = "stmt" /\ sh'.errexitSafe = sh.errexitSafe
      /\ Top \in FrameState /\ n \in Nat \ {0} /\ Top = stack[n] /\ ctl \in ControlState
  <2>1. stack # <<>> /\ Top.k = "stmt"
    BY Zenon DEF NextPipeline, PipelineReturned, Running, Returned
  <2>2. sh' = sh \/ sh' = [sh EXCEPT !.lastExit = ctl.code]
    BY Zenon DEF NextPipeline, PipelineReturned
  <2>3. sh'.errexitSafe = sh.errexitSafe
    BY <2>2 DEF TypeOK, ShellState
  <2> QED
    BY <2>1, <2>3, Typed DEF Top
<1>2. ctl.t = "run" \/ (ctl.t = "ret" /\ ctl.by = "own") => (Top.ph = "own" => ~sh.errexitSafe)
  BY <1>1 DEF AtFault
<1>3. ASSUME NextPipeline, NEW b \in BOOLEAN, NEW m \in Nat,
             CallFrom([Top EXCEPT !.n = @ + 1, !.flag = b],
                      [Frame("pipe", "") EXCEPT !.m = m, !.flag = b])
      PROVE  Accounted
  <2> DEFINE g == [Top EXCEPT !.n = @ + 1, !.flag = b]
             f == [Frame("pipe", "") EXCEPT !.m = m, !.flag = b]
  <2>1. g.k = "stmt" /\ g.ph = Top.ph
    BY <1>1 DEF FrameState
  <2>2. f.k = "pipe" /\ ctl.t = "run"
    BY Zenon, <1>3 DEF Frame, NextPipeline, Running
  <2>3. stack' = Append(Update(g), f) /\ ctl' = Run
    BY <1>3 DEF CallFrom
  <2> HIDE DEF g, f
  <2>4. Keeping(n + 1) /\ stack'[n] = g /\ stack'[n + 1] = f
    BY <1>1, <2>3, StackAfter
  <2>5. ctl'.t = "run" /\ Len(stack') = n + 1
    BY <2>3, <2>4 DEF Run, Keeping
  <2>6. Progress(stack', ctl')
    BY <1>1, <2>1, <2>2, <2>4, <2>5, Proceeds DEF Begins, Untouched
  <2>7. AtFault(stack', ctl') => Top.ph = "own"
    BY <1>1, <2>1, <2>2, <2>4, <2>5 DEF AtFault
  <2>8. Nests
    BY <1>1, <2>2, <2>4, <2>5 DEF Nests
  <2> QED
    BY <1>1, <1>2, <2>2, <2>6, <2>7, <2>8 DEF Accounted
<1>4. ASSUME NEW g, Stay(g), g.k = "stmt",
             g.ph = "own" => Top.ph = "own" /\ (ctl.t = "run" \/ (ctl.t = "ret" /\ ctl.by = "own"))
      PROVE  Accounted
  <2>1. Keeping(n) /\ stack'[n] = g /\ ctl' = Run
    BY <1>1, <1>4, StackAfter DEF Stay
  <2>2. ctl'.t = "run" /\ Len(stack') = n
    BY <2>1 DEF Run, Keeping
  <2>3. Progress(stack', ctl')
    BY <1>1, <1>4, <2>1, <2>2, Proceeds DEF Begins, Untouched
  <2>4. AtFault(stack', ctl') => g.ph = "own"
    BY <1>1, <1>4, <2>1, <2>2 DEF AtFault
  <2>5. Nests
    BY <1>1, <2>2 DEF Nests
  <2> QED
    BY <1>1, <1>2, <1>4, <2>3, <2>4, <2>5 DEF Accounted
<1>5. CASE NextPipeline
  <2>1. CASE Stay([Top EXCEPT !.n = @ + 1])
    <3> DEFINE g == [Top EXCEPT !.n = @ + 1]
    <3>1. g.k = "stmt" /\ g.ph = Top.ph /\ Stay(g)
      BY <1>1, <2>1 DEF FrameState
    <3>2. ctl.t = "run"
      BY Zenon, <1>5 DEF NextPipeline, Running
    <3> HIDE DEF g
    <3>3. g.ph = "own" => Top.ph = "own" /\ (ctl.t = "run" \/ (ctl.t = "ret" /\ ctl.by = "own"))
      BY <3>1, <3>2
    <3> QED
      BY <1>4, <3>1, <3>3
  <2>2. MaxSegments \in Nat
    BY BoundsAssumption
  <2>3. \/ \E b \in BOOLEAN, m \in Nat : CallFrom([Top EXCEPT !.n = @ + 1, !.flag = b],
                                                 [Frame("pipe", "") EXCEPT !.m = m, !.flag = b])
        \/ Stay([Top EXCEPT !.n = @ + 1])
    <3>1. {FALSE} \cup (IF "not" \in Forms THEN {TRUE} ELSE {}) \subseteq BOOLEAN
      OBVIOUS
    <3>2. 1 .. (IF "pipe" \in Forms THEN MaxSegments ELSE 1) \subseteq Nat
      BY <2>2
    <3> QED
      BY Zenon, <1>5, <3>1, <3>2 DEF NextPipeline
  <2> QED
    BY Zenon, <1>3, <1>5, <2>1, <2>3
<1>6. CASE PipelineReturned
  <2> DEFINE p == IF Top.ph = "own" \/ ctl.by # "own" THEN ctl.by ELSE "mixed"
             g == [Top EXCEPT !.code = ctl.code, !.aux = Top.n, !.ph = p]
  <2>1. Stay(g) /\ ctl.t = "ret"
    BY <1>6 DEF PipelineReturned, Returned
  <2>2. g.k = "stmt" /\ g.ph = p
    BY <1>1 DEF FrameState
  <2>3. g.ph = "own" => Top.ph = "own" /\ ctl.by = "own"
    BY <2>2
  <2> HIDE DEF g
  <2> QED
    BY <1>4, <2>1, <2>2, <2>3
<1> QED
  BY <1>5, <1>6

\* A frame is left with a result the command may have set itself; b is its maker.
LEMMA CommandLeft ==
  ASSUME TypeOK, stack # <<>>, Progress(stack, ctl), Within(stack),
         AtFault(stack, ctl) => ~sh.errexitSafe, sh'.errexitSafe = sh.errexitSafe,
         Top.k \in {"pipe", "simple"}, NEW b, NEW c, stack' = Below, ctl' = Result(c, b),
         b = "own" =>
           \/ Top.k = "pipe" /\ ctl.t = "ret" /\ ctl.by = "own" /\ Top.n <= 1
           \/ /\ Top.k = "simple" /\ Top.ph \in {"value", "words"} /\ Top.m = 0
              /\ ctl.t = "run"
  PROVE  Accounted
<1> DEFINE n == Len(stack)
<1>1. /\ n \in Nat \ {0} /\ Top = stack[n]
      /\ Len(stack') = n - 1 /\ \A i \in 1 .. n - 1 : stack'[i] = stack[i]
  BY Typed DEF Top
<1>2. ctl'.t = "ret" /\ ctl'.by = b
  BY DEF Result
<1>3. \A i \in 1 .. n : Begins(stack[i]) /\ (Untouched(stack[i]) => i = n)
  BY DEF Progress
<1>4. /\ stack[n].k = "pipe" => n > 1 /\ stack[n - 1].k = "stmt"
      /\ stack[n].k = "simple" => n > 1 /\ stack[n - 1].k = "pipe"
      /\ n > 1 /\ stack[n - 1].k = "pipe" => n > 2
  BY <1>1 DEF Within
<1>5. AtFault(stack, ctl) <=>
        \/ n > 0 /\ stack[n].k = "stmt" /\ stack[n].ph = "own"
             /\ (ctl.t = "run" \/ (ctl.t = "ret" /\ ctl.by = "own"))
        \/ n > 1 /\ stack[n].k = "pipe" /\ stack[n - 1].ph = "own"
             /\ (stack[n].n = 0 \/ (ctl.t = "ret" /\ ctl.by = "own" /\ stack[n].n <= 1))
        \/ n > 2 /\ stack[n].k = "simple" /\ stack[n].ph \in {"value", "words"}
             /\ stack[n].m = 0 /\ stack[n - 1].n <= 1 /\ stack[n - 2].ph = "own" /\ ctl.t = "run"
  BY DEF AtFault
<1> HIDE DEF n
<1>6. \A i \in 1 .. n - 1 : Begins(stack'[i]) /\ ~Untouched(stack'[i])
  BY <1>1, <1>3
<1>7. Progress(stack', ctl')
  BY <1>1, <1>2, <1>6 DEF Progress
<1>8. AtFault(stack', ctl') => AtFault(stack, ctl)
  <2> SUFFICES ASSUME AtFault(stack', ctl') PROVE AtFault(stack, ctl)
    OBVIOUS
  <2>1. n - 1 > 1 /\ stack[n - 1].k = "pipe" => stack[n - 1].n # 0
    BY <1>1, <1>6 DEF Untouched
  <2>2. \/ /\ n - 1 > 0 /\ stack[n - 1].k = "stmt" /\ stack[n - 1].ph = "own" /\ b = "own"
        \/ /\ n - 1 > 1 /\ stack[n - 1].k = "pipe" /\ stack[n - 2].ph = "own" /\ b = "own"
           /\ stack[n - 1].n <= 1
    BY <1>1, <1>2, <2>1 DEF AtFault
  <2> QED
    BY <1>1, <1>4, <1>5, <2>2
<1>9. Nests
  BY <1>1 DEF Nests, n
<1> QED
  BY <1>7, <1>8, <1>9 DEF Accounted

\* The pipeline collects the status of a command.
LEMMA Collected ==
  ASSUME TypeOK, stack # <<>>, Progress(stack, ctl), Within(stack),
         AtFault(stack, ctl) => ~sh.errexitSafe,
         Top.k = "pipe", ctl.t \in {"ret", "throw"}, NEW c, CollectSegment(c)
  PROVE  Accounted
<1> DEFINE n == Len(stack)
<1>1. /\ n \in Nat \ {0} /\ Top = stack[n] /\ Top \in FrameState /\ sh \in ShellState
  BY Typed DEF Top, TypeOK
<1>2. sh'.errexitSafe = sh.errexitSafe
  <2>1. sh' = sh \/ sh' = [sh EXCEPT !.env = Top.sv.env]
    BY DEF CollectSegment
  <2> QED
    BY <1>1, <2>1 DEF ShellState
<1>3. ~Untouched(Top) /\ Top.n # 0 /\ (ctl.t = "throw" => ctl.by # "own")
  <2>1. ~Untouched(Top)
    BY <1>1 DEF Progress
  <2> QED
    BY <2>1 DEF Progress, Untouched
<1>4. ASSUME NEW x, Stay([Top EXCEPT !.code = x])
      PROVE  Accounted
  <2> DEFINE g == [Top EXCEPT !.code = x]
  <2>1. g.k = "pipe" /\ g.n = Top.n
    BY <1>1 DEF FrameState
  <2> HIDE DEF g
  <2>2. Keeping(n) /\ stack'[n] = g /\ ctl' = Run
    BY <1>1, <1>4, StackAfter DEF Stay, g
  <2>3. ctl'.t = "run" /\ Len(stack') = n
    BY <2>2 DEF Run, Keeping
  <2>4. Progress(stack', ctl')
    BY <1>1, <1>3, <2>1, <2>2, <2>3, Proceeds DEF Begins, Untouched
  <2>5. ~AtFault(stack', ctl')
    BY <1>1, <1>3, <2>1, <2>2, <2>3 DEF AtFault
  <2>6. Nests
    BY <1>1, <2>3 DEF Nests
  <2> QED
    BY <2>4, <2>5, <2>6 DEF Accounted
<1>5. ASSUME NEW x, Forward(x)
      PROVE  Accounted
  <2> DEFINE b == IF Top.n > 1 /\ ctl.by = "own" THEN "mixed" ELSE ctl.by
  <2>1. stack' = Below /\ ctl' = Result(x, b)
    BY <1>5 DEF Forward
  <2>2. Top.n \in Nat
    BY <1>1 DEF FrameState
  <2>3. b = "own" => ctl.t = "ret" /\ ctl.by = "own" /\ Top.n <= 1
    BY <1>3, <2>2
  <2> HIDE DEF b
  <2> QED
    BY <1>2, <2>1, <2>3, CommandLeft
<1> QED
  BY <1>4, <1>5 DEF CollectSegment

\* The statements' actions.
LEMMA StatementsAccounted ==
  ASSUME TypeOK, Progress(stack, ctl), Within(stack),
         AtFault(stack, ctl) => ~sh.errexitSafe, Statements
  PROVE  Accounted
<1>1. CASE NextPipeline \/ PipelineReturned
  BY <1>1, PipelinesAccounted
<1>2. CASE StatementEnds \/ StatementThrows
  <2>1. stack # <<>>
    BY <1>2 DEF StatementEnds, StatementThrows, Running, Throwing
  <2>2. \/ \E c : Return(c)
        \/ \E e, c : Throw(e, c)
        \/ ctl.t = "throw" /\ Rethrow
    BY <1>2 DEF StatementEnds, StatementThrows, Throwing
  <2> QED
    BY <2>1, <2>2, QuietlyAccounted
<1>3. CASE SegmentReturned \/ SegmentThrows
  <2>1. stack # <<>> /\ Top.k = "pipe" /\ ctl.t \in {"ret", "throw"}
    BY <1>3 DEF SegmentReturned, SegmentThrows, Returned, Throwing
  <2>2. (\E c : CollectSegment(c)) \/ (ctl.t = "throw" /\ Rethrow)
    BY <1>3 DEF SegmentReturned, SegmentThrows, Throwing
  <2> QED
    BY <2>1, <2>2, Collected, QuietlyAccounted
<1> QED
  BY <1>1, <1>2, <1>3 DEF Statements

\* A pipeline goes on to its next command.
LEMMA SegmentBegun ==
  ASSUME TypeOK, Running({"pipe"})
  PROVE  /\ stack # <<>> /\ Top.k = "pipe" /\ ctl.t = "run"
         /\ Segment.k = "pipe" /\ Segment.n = Top.n + 1 /\ Segment.n \in Nat \ {0}
         /\ ~Untouched(Segment) /\ Begins(Segment)
<1>1. stack # <<>> /\ Top.k = "pipe" /\ ctl.t = "run"
  BY DEF Running
<1>2. Top \in FrameState /\ Top.n \in Nat
  BY <1>1, Typed
<1>3. Segment.k = "pipe" /\ Segment.n = Top.n + 1
  BY <1>1, <1>2 DEF Segment, FrameState
<1> QED
  BY <1>1, <1>2, <1>3 DEF Untouched, Begins

\* The compound commands of a pipeline.
LEMMA StartedQuietly ==
  ASSUME TypeOK, Progress(stack, ctl), Running({"pipe"}),
         NEW f, Start(f), f.k \notin CommandKinds
  PROVE  Accounted
<1> DEFINE n == Len(stack)
<1>1. n \in Nat \ {0} /\ stack # <<>>
  BY SegmentBegun, Typed
<1>2. stack' = Append(Update(Segment), f) /\ ctl' = Run
  BY DEF Start, CallFrom
<1>3. Keeping(n + 1) /\ stack'[n] = Segment /\ stack'[n + 1] = f
  BY <1>1, <1>2, StackAfter
<1>4. Progress(stack', ctl') /\ ~AtFault(stack', ctl')
  BY <1>1, <1>2, <1>3, SegmentBegun, QuietEnter
<1>5. Nests
  BY <1>1, <1>3 DEF Nests, Keeping, CommandKinds
<1> QED
  BY <1>4, <1>5 DEF Accounted

\* A definition, or a compound command whose redirection or word fails.
LEMMA SegmentAnswers ==
  ASSUME TypeOK, Progress(stack, ctl), Running({"pipe"}),
         AtFault(stack, ctl) => ~sh.errexitSafe, sh'.errexitSafe = sh.errexitSafe,
         stack' = Update(Segment),
         (\E c : ctl' = Result(c, "own")) \/ (\E e : ctl' = Thrown(e, 0, 1))
  PROVE  Accounted
<1> DEFINE n == Len(stack)
<1>1. /\ n \in Nat \ {0} /\ stack # <<>> /\ Top = stack[n] /\ Top.k = "pipe"
      /\ ctl.t = "run" /\ Top.n \in Nat
  BY SegmentBegun, Typed DEF Top
<1>2. Keeping(n) /\ stack'[n] = Segment
  BY <1>1, StackAfter
<1>3. Len(stack') = n /\ \A i \in 1 .. n - 1 : stack'[i] = stack[i]
  BY <1>1, <1>2 DEF Keeping
<1>4. ctl'.t \in {"ret", "throw"} /\ (ctl'.t = "throw" => ctl'.by # "own")
  BY DEF Result, Thrown
<1>5. Progress(stack', ctl')
  BY <1>1, <1>2, <1>4, SegmentBegun, Proceeds
<1>6. AtFault(stack', ctl') => n > 1 /\ stack[n - 1].ph = "own" /\ Segment.n <= 1
  <2> HIDE DEF n
  <2>1. AtFault(stack', ctl') => n > 1 /\ stack'[n - 1].ph = "own" /\ Segment.n <= 1
    BY <1>1, <1>2, <1>3, <1>4, SegmentBegun DEF AtFault
  <2> QED
    BY <1>1, <1>3, <2>1
<1>7. Segment.n <= 1 => Top.n = 0
  BY <1>1, SegmentBegun
<1>8. AtFault(stack', ctl') => AtFault(stack, ctl)
  BY <1>1, <1>6, <1>7 DEF AtFault
<1>9. Nests
  BY <1>1, <1>3 DEF Nests
<1> QED
  BY <1>5, <1>8, <1>9 DEF Accounted

LEMMA StartsAccounted ==
  ASSUME TypeOK, Progress(stack, ctl), AtFault(stack, ctl) => ~sh.errexitSafe,
         \/ EnterIf \/ EnterCase \/ EnterGroup \/ DefineFunction \/ CompoundFails
         \/ RunSubshell \/ \E k \in LoopKinds : EnterLoop(k)
  PROVE  Accounted
<1>1. Running({"pipe"})
  BY Zenon DEF EnterIf, EnterCase, EnterGroup, DefineFunction, CompoundFails, RunSubshell,
     EnterLoop, Command
<1>2. CASE \/ EnterIf \/ EnterCase \/ EnterGroup \/ RunSubshell
           \/ \E k \in LoopKinds : EnterLoop(k)
  <2>1. PICK f : Start(f) /\ (\/ f = Frame("if", "cond") \/ f = Frame("case", "next")
                              \/ f = Frame("group", "") \/ f = EnterSubshell
                              \/ \E k \in LoopKinds : f = Frame(k, "next"))
    BY Zenon, <1>2 DEF EnterIf, EnterCase, EnterGroup, RunSubshell, EnterLoop
  <2>2. f.k \in {"if", "case", "group", "subshell"} \cup LoopKinds
    <3>1. /\ Frame("if", "cond").k = "if" /\ Frame("case", "next").k = "case"
          /\ Frame("group", "").k = "group" /\ \A k : Frame(k, "next").k = k
      BY Zenon, FrameFields
    <3>2. EnterSubshell.k = "subshell"
      BY SubshellSaves
    <3> QED
      BY Zenon, <2>1, <3>1, <3>2
  <2>3. f.k \notin CommandKinds
    BY <2>2 DEF CommandKinds, LoopKinds
  <2> QED
    BY Zenon, <1>1, <2>1, <2>3, StartedQuietly
<1>3. CASE DefineFunction \/ CompoundFails
  <2>1. /\ stack' = Update(Segment)
        /\ (\E c : ctl' = Result(c, "own")) \/ (\E e : ctl' = Thrown(e, 0, 1))
    BY <1>3 DEF DefineFunction, CompoundFails
  <2>2. sh' = sh \/ sh' = [sh EXCEPT !.fns = TRUE]
    BY <1>3 DEF DefineFunction, CompoundFails
  <2>3. sh'.errexitSafe = sh.errexitSafe
    BY <2>2 DEF TypeOK, ShellState
  <2> QED
    BY <1>1, <2>1, <2>3, SegmentAnswers
<1> QED
  BY <1>2, <1>3

\* The pipeline starts a simple command.
LEMMA SimpleStarts ==
  ASSUME TypeOK, Progress(stack, ctl), Running({"pipe"}),
         AtFault(stack, ctl) => ~sh.errexitSafe, sh'.errexitSafe = sh.errexitSafe,
         NEW f, Start(f), f.k = "simple", f.n = f.m, f.m \in Nat
  PROVE  Accounted
<1> DEFINE n == Len(stack)
<1>1. /\ n \in Nat \ {0} /\ stack # <<>> /\ Top = stack[n] /\ Top.k = "pipe"
      /\ ctl.t = "run" /\ Top.n \in Nat
  BY SegmentBegun, Typed DEF Top
<1>2. stack' = Append(Update(Segment), f) /\ ctl' = Run
  BY DEF Start, CallFrom
<1>3. Keeping(n + 1) /\ stack'[n] = Segment /\ stack'[n + 1] = f
  BY <1>1, <1>2, StackAfter
<1>4. Len(stack') = n + 1 /\ \A i \in 1 .. n - 1 : stack'[i] = stack[i]
  BY <1>1, <1>3 DEF Keeping
<1>5. ctl'.t = "run" /\ Begins(f)
  BY <1>2 DEF Run, Begins
<1>6. Progress(stack', ctl')
  BY <1>1, <1>3, <1>5, SegmentBegun, Proceeds
<1>7. AtFault(stack', ctl') => n > 1 /\ stack[n - 1].ph = "own" /\ Segment.n <= 1
  <2> HIDE DEF n
  <2>1. AtFault(stack', ctl') => n + 1 > 2 /\ stack'[n - 1].ph = "own" /\ Segment.n <= 1
    <3>1. n + 1 - 1 = n /\ n + 1 - 2 = n - 1
      BY <1>1
    <3> QED
      BY <1>1, <1>3, <1>4, <1>5, <3>1 DEF AtFault
  <2> QED
    BY <1>1, <1>4, <2>1
<1>8. Segment.n <= 1 => Top.n = 0
  BY <1>1, SegmentBegun
<1>9. AtFault(stack', ctl') => AtFault(stack, ctl)
  BY <1>1, <1>7, <1>8 DEF AtFault
<1>10. Nests
  BY <1>1, <1>3, <1>4 DEF Nests
<1> QED
  BY <1>6, <1>9, <1>10 DEF Accounted

\* A change of the environment leaves errexitSafe alone.
LEMMA SafeKept ==
  ASSUME TypeOK
  PROVE  /\ \A v : [sh EXCEPT !.env = v].errexitSafe = sh.errexitSafe
         /\ Undone(sh).errexitSafe = sh.errexitSafe
         /\ \A v : Undone([sh EXCEPT !.cwd = v]).errexitSafe = sh.errexitSafe
         /\ \A v : Undone([sh EXCEPT !.errexit = v]).errexitSafe = sh.errexitSafe
         /\ \A v : Undone([sh EXCEPT !.pipefail = v]).errexitSafe = sh.errexitSafe
<1>1. sh \in ShellState
  BY DEF TypeOK
<1>2. ASSUME NEW v
      PROVE  /\ [sh EXCEPT !.env = v].errexitSafe = sh.errexitSafe
             /\ [sh EXCEPT !.cwd = v].errexitSafe = sh.errexitSafe
             /\ [sh EXCEPT !.errexit = v].errexitSafe = sh.errexitSafe
             /\ [sh EXCEPT !.pipefail = v].errexitSafe = sh.errexitSafe
             /\ \A w : [[sh EXCEPT !.cwd = v] EXCEPT !.env = w].errexitSafe = sh.errexitSafe
             /\ \A w : [[sh EXCEPT !.errexit = v] EXCEPT !.env = w].errexitSafe = sh.errexitSafe
             /\ \A w : [[sh EXCEPT !.pipefail = v] EXCEPT !.env = w].errexitSafe = sh.errexitSafe
  BY <1>1 DEF ShellState
<1>3. ASSUME NEW v
      PROVE  Undone([sh EXCEPT !.cwd = v]).errexitSafe = sh.errexitSafe
  BY <1>2 DEF Undone
<1>4. ASSUME NEW v
      PROVE  Undone([sh EXCEPT !.errexit = v]).errexitSafe = sh.errexitSafe
  BY <1>2 DEF Undone
<1>5. ASSUME NEW v
      PROVE  Undone([sh EXCEPT !.pipefail = v]).errexitSafe = sh.errexitSafe
  BY <1>2 DEF Undone
<1>6. Undone(sh).errexitSafe = sh.errexitSafe
  BY <1>2 DEF Undone
<1> QED
  BY <1>2, <1>3, <1>4, <1>5, <1>6

\* A simple command: its words.
LEMMA WordsAccounted ==
  ASSUME TypeOK, Progress(stack, ctl), AtFault(stack, ctl) => ~sh.errexitSafe,
         BeginAssignment \/ BeginCommand \/ Substitute \/ WordExpanded \/ WordFails
  PROVE  Accounted
<1> DEFINE n == Len(stack)
<1>1. CASE BeginAssignment
  <2>1. PICK i \in {0} \cup (IF "subst" \in Forms THEN {2} ELSE {}) :
          Start([Frame("simple", "value") EXCEPT !.n = i, !.m = i])
    BY Zenon, <1>1 DEF BeginAssignment
  <2> DEFINE f == [Frame("simple", "value") EXCEPT !.n = i, !.m = i]
  <2>2. f.k = "simple" /\ f.n = i /\ f.m = i
    BY DEF Frame
  <2>a. i \in {0, 2}
    OBVIOUS
  <2>b. Running({"pipe"}) /\ sh' = sh
    BY Zenon, <1>1 DEF BeginAssignment, Command
  <2>3. Running({"pipe"}) /\ sh' = sh /\ Start(f) /\ i \in Nat
    BY <2>1, <2>a, <2>b
  <2> HIDE DEF f
  <2> QED
    BY <2>2, <2>3, SimpleStarts
<1>2. CASE BeginCommand
  <2>1. PICK i \in {0} \cup (IF "subst" \in Forms THEN {1} ELSE {}) :
          LET f == [Frame("simple", "words") EXCEPT !.n = i, !.m = i] IN
          \/ Start(f) /\ UNCHANGED sh
          \/ /\ Start([f EXCEPT !.flag = TRUE, !.sv.env = sh.env])
             /\ \E v \in Values : sh' = [sh EXCEPT !.env = v]
    BY Zenon, <1>2 DEF BeginCommand
  <2> DEFINE f == [Frame("simple", "words") EXCEPT !.n = i, !.m = i]
             g == [f EXCEPT !.flag = TRUE, !.sv.env = sh.env]
  <2>2. f.k = "simple" /\ f.n = i /\ f.m = i /\ g.k = "simple" /\ g.n = i /\ g.m = i
    BY DEF Frame
  <2>a. i \in {0, 1}
    OBVIOUS
  <2>3. Running({"pipe"}) /\ i \in Nat
    <3>1. Running({"pipe"})
      BY Zenon, <1>2 DEF BeginCommand
    <3> QED
      BY <2>a, <3>1
  <2>4. sh'.errexitSafe = sh.errexitSafe
    BY <2>1, SafeKept
  <2>5. Start(f) \/ Start(g)
    BY <2>1
  <2> HIDE DEF f, g
  <2> QED
    BY <2>2, <2>3, <2>4, <2>5, SimpleStarts
<1>3. ASSUME Substitute \/ WordExpanded
      PROVE  /\ stack # <<>> /\ Top.k = "simple" /\ Top.ph \in {"value", "words"}
             /\ ~Untouched(Top) /\ Begins(Top) /\ Top \in FrameState
             /\ n \in Nat \ {0} /\ Top = stack[n] /\ Top.n \in Nat /\ Top.m \in Nat
  <2>1. stack # <<>> /\ Top.k = "simple" /\ Top.ph \in {"value", "words"}
    BY <1>3 DEF Substitute, WordExpanded, Running, Returned
  <2>2. Top \in FrameState /\ n \in Nat \ {0} /\ Top = stack[n] /\ Top.n \in Nat /\ Top.m \in Nat
    BY <2>1, Typed DEF Top
  <2>3. Begins(Top) /\ (Untouched(Top) => ctl.t = "run")
    BY <2>2 DEF Progress
  <2>4. Top.n > 0 \/ ctl.t = "ret"
    BY <1>3 DEF Substitute, WordExpanded, Returned
  <2>5. Top.n > 0 => ~Untouched(Top)
    BY <2>1, <2>2, <2>3 DEF Begins, Untouched
  <2> QED
    BY <2>1, <2>2, <2>3, <2>4, <2>5
<1>4. CASE Substitute
  <2>1. Top.n > 0
    BY <1>4 DEF Substitute
  <2>2. CASE ThrowHere("limit") /\ UNCHANGED sh
    <3>1. Keeping(n) /\ stack'[n] = Top /\ ctl' = Thrown("limit", 0, 1)
      BY <1>3, <1>4, <2>2, StackAfter DEF ThrowHere
    <3>2. ctl'.t = "throw" /\ ctl'.by # "own" /\ Len(stack') = n
      BY <3>1 DEF Thrown, Keeping
    <3>3. Progress(stack', ctl') /\ ~AtFault(stack', ctl')
      BY <1>3, <1>4, <3>1, <3>2, QuietRemain
    <3>4. Nests
      BY <1>3, <1>4, <3>2 DEF Nests
    <3> QED
      BY <3>3, <3>4 DEF Accounted
  <2>3. ASSUME NEW f, f.k = "subst", CallFrom([Top EXCEPT !.n = @ - 1], f)
        PROVE  Accounted
    <3> DEFINE g == [Top EXCEPT !.n = @ - 1]
    <3>1. g.k = "simple" /\ g.ph = Top.ph /\ g.n = Top.n - 1 /\ g.m = Top.m
      BY <1>3, <1>4 DEF FrameState
    <3>2. stack' = Append(Update(g), f) /\ ctl' = Run
      BY <2>3 DEF CallFrom
    <3> HIDE DEF g
    <3>3. ~Untouched(g) /\ Begins(g)
      BY <1>3, <1>4, <2>1, <3>1 DEF Untouched, Begins
    <3>4. Keeping(n + 1) /\ stack'[n] = g /\ stack'[n + 1] = f
      BY <1>3, <1>4, <3>2, StackAfter
    <3>5. Progress(stack', ctl') /\ ~AtFault(stack', ctl')
      BY <1>3, <1>4, <2>3, <3>2, <3>3, <3>4, QuietEnter DEF CommandKinds
    <3>6. Nests
      BY <1>3, <1>4, <2>3, <3>4 DEF Nests, Keeping
    <3> QED
      BY <3>5, <3>6 DEF Accounted
  <2>4. [Frame("subst", "") EXCEPT !.sv.env = sh.env, !.sv.cwd = sh.cwd,
                                   !.sv.substDepth = sh.substDepth].k = "subst"
    BY DEF Frame
  <2> QED
    BY Zenon, <1>4, <2>2, <2>3, <2>4 DEF Substitute
<1>5. CASE WordExpanded
  <2>1. Stay(Top) /\ sh' = sh /\ ctl.t = "ret"
    BY <1>5 DEF WordExpanded, Returned
  <2>2. Keeping(n) /\ stack'[n] = Top /\ ctl' = Run
    BY <1>3, <1>5, <2>1, StackAfter DEF Stay
  <2>3. ctl'.t = "run" /\ Len(stack') = n
    BY <2>2 DEF Run, Keeping
  <2>4. Progress(stack', ctl')
    BY <1>3, <1>5, <2>2, <2>3, Proceeds
  <2>5. ~AtFault(stack', ctl')
    BY <1>3, <1>5, <2>2, <2>3 DEF AtFault, Untouched
  <2>6. Nests
    BY <1>3, <1>5, <2>3 DEF Nests
  <2> QED
    BY <2>4, <2>5, <2>6 DEF Accounted
<1>6. CASE WordFails
  <2>1. stack # <<>> /\ \E e, c : Throw(e, c)
    BY <1>6 DEF WordFails, Running
  <2> QED
    BY <2>1, QuietlyAccounted
<1> QED
  BY <1>1, <1>2, <1>4, <1>5, <1>6

\* A simple command that needs no function or script.
LEMMA BuiltinsAccounted ==
  ASSUME TypeOK, Progress(stack, ctl), Within(stack),
         AtFault(stack, ctl) => ~sh.errexitSafe,
         \/ Assign \/ Builtin \/ ChangeDir \/ SetOption \/ ReturnBuiltin \/ ExitBuiltin
         \/ \E e \in {"break", "continue"} : LoopExit(e)
         \/ CommandReturned \/ CommandThrows
  PROVE  Accounted
<1>1. stack # <<>> /\ Top.k = "simple"
  BY DEF Assign, Builtin, ChangeDir, SetOption, ReturnBuiltin, ExitBuiltin, LoopExit,
     CommandReturned, CommandThrows, Ready, Running, Returned, Throwing
<1>2. ASSUME NEW c, Finish(c), ctl.t = "run", Top.ph \in {"value", "words"},
             sh'.errexitSafe = sh.errexitSafe
      PROVE  Accounted
  BY <1>1, <1>2, CommandLeft DEF Finish
<1>3. \/ \E c : Return(c)
      \/ \E e, c : Throw(e, c)
      \/ ctl.t = "throw" /\ Rethrow
      \/ stack' = Below /\ \E e, lv, c : ctl' = Thrown(e, lv, c)
      \/ /\ \E c : Finish(c)
         /\ ctl.t = "run" /\ Top.ph \in {"value", "words"}
         /\ \/ \E v : sh' = [sh EXCEPT !.env = v]
            \/ sh' = Undone(sh)
            \/ \E v : sh' = Undone([sh EXCEPT !.cwd = v])
            \/ \E v : sh' = Undone([sh EXCEPT !.errexit = v])
            \/ \E v : sh' = Undone([sh EXCEPT !.pipefail = v])
  <2>1. CASE Assign
    BY <2>1 DEF Assign, Running
  <2>2. CASE Builtin
    BY <2>2 DEF Builtin, Ready, Running
  <2>3. CASE ChangeDir
    BY <2>3 DEF ChangeDir, Ready, Running
  <2>4. CASE SetOption
    BY <2>4 DEF SetOption, Ready, Running
  <2>5. CASE ReturnBuiltin \/ ExitBuiltin
    BY <2>5 DEF ReturnBuiltin, ExitBuiltin, Ready, Running
  <2>6. CASE \E e \in {"break", "continue"} : LoopExit(e)
    BY <2>6 DEF LoopExit, Ready, Running
  <2>7. CASE CommandReturned \/ CommandThrows
    BY <2>7 DEF CommandReturned, CommandThrows, Throwing
  <2> QED
    BY <2>1, <2>2, <2>3, <2>4, <2>5, <2>6, <2>7
<1>4. ASSUME \/ \E v : sh' = [sh EXCEPT !.env = v]
             \/ sh' = Undone(sh)
             \/ \E v : sh' = Undone([sh EXCEPT !.cwd = v])
             \/ \E v : sh' = Undone([sh EXCEPT !.errexit = v])
             \/ \E v : sh' = Undone([sh EXCEPT !.pipefail = v])
      PROVE  sh'.errexitSafe = sh.errexitSafe
  <2>1. ASSUME NEW v, sh' = [sh EXCEPT !.env = v]
        PROVE  sh'.errexitSafe = sh.errexitSafe
    BY <2>1, SafeKept
  <2>2. ASSUME NEW v, sh' = Undone([sh EXCEPT !.cwd = v])
        PROVE  sh'.errexitSafe = sh.errexitSafe
    <3>1. Undone([sh EXCEPT !.cwd = v]).errexitSafe = sh.errexitSafe
      BY SafeKept
    <3> QED
      BY <2>2, <3>1
  <2>4. ASSUME NEW v, sh' = Undone([sh EXCEPT !.errexit = v])
        PROVE  sh'.errexitSafe = sh.errexitSafe
    <3>1. Undone([sh EXCEPT !.errexit = v]).errexitSafe = sh.errexitSafe
      BY SafeKept
    <3> QED
      BY <2>4, <3>1
  <2>5. ASSUME NEW v, sh' = Undone([sh EXCEPT !.pipefail = v])
        PROVE  sh'.errexitSafe = sh.errexitSafe
    <3>1. Undone([sh EXCEPT !.pipefail = v]).errexitSafe = sh.errexitSafe
      BY SafeKept
    <3> QED
      BY <2>5, <3>1
  <2>3. sh' = Undone(sh) => sh'.errexitSafe = sh.errexitSafe
    BY SafeKept
  <2> QED
    BY <1>4, <2>1, <2>2, <2>3, <2>4, <2>5
<1> QED
  BY <1>1, <1>2, <1>3, <1>4, QuietlyAccounted

\* A simple command becomes a call, or the running of a script.
LEMMA DispatchesAccounted ==
  ASSUME TypeOK, Progress(stack, ctl), CallFunction \/ Evaluate \/ Source \/ RunUserScript
  PROVE  Accounted
<1> DEFINE n == Len(stack)
<1>1. stack # <<>> /\ Top.k = "simple" /\ ctl.t = "run"
  BY Zenon DEF CallFunction, Evaluate, Source, RunUserScript, Ready, Running
<1>2. n \in Nat \ {0} /\ Top = stack[n] /\ Top \in FrameState
  BY <1>1, Typed DEF Top
<1>3. Dispatched.k = "simple" /\ Dispatched.ph = "run"
  BY <1>1, <1>2 DEF Dispatched, FrameState
<1>4. ~Untouched(Dispatched) /\ Begins(Dispatched)
  BY <1>3 DEF Untouched, Begins
<1>5. ASSUME NEW f, CallFrom(Dispatched, f), f.k \notin CommandKinds
      PROVE  Accounted
  <2>1. stack' = Append(Update(Dispatched), f) /\ ctl' = Run
    BY <1>5 DEF CallFrom
  <2>2. Keeping(n + 1) /\ stack'[n] = Dispatched /\ stack'[n + 1] = f
    BY <1>1, <2>1, StackAfter
  <2>3. Progress(stack', ctl') /\ ~AtFault(stack', ctl')
    BY <1>1, <1>4, <1>5, <2>1, <2>2, QuietEnter
  <2>4. Nests
    BY <1>2, <1>5, <2>2 DEF Nests, Keeping, CommandKinds
  <2> QED
    BY <2>3, <2>4 DEF Accounted
<1>6. ASSUME stack' = Update(Dispatched), ctl' = Thrown("limit", 0, 1)
      PROVE  Accounted
  <2>1. Keeping(n) /\ stack'[n] = Dispatched
    BY <1>1, <1>6, StackAfter
  <2>2. ctl'.t = "throw" /\ ctl'.by # "own" /\ Len(stack') = n
    BY <1>6, <2>1 DEF Thrown, Keeping
  <2>3. Progress(stack', ctl') /\ ~AtFault(stack', ctl')
    BY <1>1, <1>4, <2>1, <2>2, QuietRemain
  <2>4. Nests
    BY <1>2, <2>2 DEF Nests
  <2> QED
    BY <2>3, <2>4 DEF Accounted
<1>7. /\ Frame("call", "").k \notin CommandKinds /\ Frame("eval", "").k \notin CommandKinds
      /\ Frame("source", "").k \notin CommandKinds
  BY DEF Frame, CommandKinds
<1>8. [EnterSubshell EXCEPT !.k = "ush", !.sv.fns = FALSE, !.sv.scopes = 0].k \notin CommandKinds
  <2>1. EnterSubshell \in FrameState
    BY SubshellSaves
  <2> QED
    BY <2>1 DEF FrameState, CommandKinds
<1>9. CASE CallFunction
  BY Zenon, <1>5, <1>6, <1>7, <1>9 DEF CallFunction
<1>10. CASE Evaluate \/ Source
  BY Zenon, <1>5, <1>7, <1>10 DEF Evaluate, Source
<1>11. CASE RunUserScript
  BY <1>5, <1>8, <1>11 DEF RunUserScript
<1> QED
  BY <1>9, <1>10, <1>11

\* Every step of the interpreter.
LEMMA StepAccounted ==
  ASSUME TypeOK, stack # <<>>, Step, Progress(stack, ctl), Within(stack),
         AtFault(stack, ctl) => ~sh.errexitSafe
  PROVE  Accounted
<1>1. CASE ExecuteStatement
  BY <1>1, StatementStarts
<1>2. CASE Top.k \notin CommandKinds /\ ~ExecuteStatement
  BY <1>2, Constructs DEF Accounted
<1>3. CASE Statements
  BY <1>3, StatementsAccounted
<1>4. CASE Top.k \in CommandKinds /\ Compounds
  <2>1. \/ EnterIf \/ EnterCase \/ EnterGroup \/ DefineFunction \/ CompoundFails
        \/ RunSubshell
    BY Zenon, <1>4 DEF Compounds, EvaluateIfCondition, IfReturned, CaseItem, CaseReturned,
       BranchThrows, GroupEnds, GroupCatches, SubshellEnds, SubshellCatches,
       Running, Returned, Throwing, CommandKinds
  <2> QED
    BY <2>1, StartsAccounted
<1>5. CASE Top.k \in CommandKinds /\ Loops
  <2>1. \E k \in LoopKinds : EnterLoop(k)
    BY <1>5 DEF Loops, NextIteration, ForEnds, ForHeaderThrows, WhileTested, UntilTested,
       LoopBodyEnds, WhileConditionThrows, UntilConditionThrows, LoopBodyThrows,
       Running, Returned, Throwing, CommandKinds, LoopKinds
  <2> QED
    BY <2>1, StartsAccounted
<1>6. CASE Top.k \in CommandKinds /\ Simples
  <2>1. ~SubstitutionLeaves
    BY <1>6 DEF SubstitutionLeaves, Returned, Throwing, CommandKinds
  <2> QED
    BY <1>6, <2>1, WordsAccounted, BuiltinsAccounted DEF Simples
<1>7. CASE Top.k \in CommandKinds /\ Callers
  <2>1. CallFunction \/ Evaluate \/ Source \/ RunUserScript
    BY Zenon, <1>7 DEF Callers, RunFunctionBody, FunctionLeaves, FunctionRedirectFails, RunScript,
       EvalLeaves, SourceLeaves, UserScriptLeaves, Running, Returned, Throwing, ScriptUsers,
       CommandKinds
  <2> QED
    BY <2>1, DispatchesAccounted
<1>8. CASE Top.k \in CommandKinds /\ Lists
  <2>1. ~TakesStatements(Top)
    BY <1>8 DEF TakesStatements, LoopKinds, CommandKinds
  <2>2. ~Lists
    BY <1>8, <2>1 DEF Lists, ExecuteStatement, StatementReturned, ScriptEnds, ScriptCatches,
       ListEnds, ListCatches, ConditionLeaves, Running, Throwing, CommandKinds
  <2> QED
    BY <1>8, <2>2
<1>9. ~ExecSettles
  BY DEF ExecSettles
<1> QED
  BY <1>1, <1>2, <1>3, <1>4, <1>5, <1>6, <1>7, <1>8, <1>9 DEF Step

-----------------------------------------------------------------------------
(* set -e.                                                                 *)

\* The first frame of a call of Bash.exec.
LEMMA ScriptAccounted ==
  /\ Within(<<Frame("script", "")>>) /\ Progress(<<Frame("script", "")>>, Run)
  /\ ~AtFault(<<Frame("script", "")>>, Run)
<1>1. PICK g : g = Frame("script", "")
  OBVIOUS
<1>2. g.k = "script"
  BY Zenon, <1>1, FrameFields
<1>3. /\ Len(<<g>>) = 1 /\ <<g>>[1] = g /\ \A i \in 1 .. 1 : i = 1
  OBVIOUS
<1>4. Within(<<g>>)
  BY <1>2, <1>3 DEF Within
<1>5. Progress(<<g>>, Run)
  BY <1>2, <1>3 DEF Progress, Begins, Untouched, Run
<1>6. ~AtFault(<<g>>, Run)
  BY <1>2, <1>3 DEF AtFault
<1> QED
  BY Zenon, <1>1, <1>4, <1>5, <1>6

LEMMA AccountsBegin ==
  ASSUME Init
  PROVE  Accounts
<1>1. SettledIsOver
  BY Zenon DEF Init, Run, SettledIsOver, Settled
<1> QED
  BY Zenon, <1>1, ScriptAccounted DEF Init, Accounts

\* The invariant is inductive.
LEMMA AccountsStep ==
  ASSUME TypeOK, Accounts, [Next]_vars
  PROVE  Accounts'
<1>1. SettledIsOver'
  BY SettledStep DEF Accounts
<1>2. /\ Within(stack') /\ Progress(stack', ctl')
      /\ AtFault(stack', ctl') => ~sh'.errexitSafe
  <2>1. CASE Step /\ stack # <<>>
    <3>1. Accounted
      BY <2>1, StepAccounted DEF Accounts
    <3>2. Within(stack')
      BY <2>1, <3>1, EveryMove, WithinMoves DEF Accounts, Accounted
    <3> QED
      BY <3>1, <3>2 DEF Accounted
  <2>2. CASE Step /\ stack = <<>>
    <3>1. ExecSettles
      BY <2>2, EmptyStep
    <3>2. Len(stack') = 0 /\ ctl'.t # "throw"
      BY <2>2, <3>1 DEF ExecSettles, Finished
    <3> QED
      BY <3>2 DEF Within, Progress, AtFault
  <2>3. CASE ExecAgain
    BY Zenon, <2>3, ScriptAccounted DEF ExecAgain
  <2>4. CASE UNCHANGED vars
    BY <2>4 DEF vars, Accounts
  <2> QED
    BY <2>1, <2>2, <2>3, <2>4 DEF Next
<1> QED
  BY <1>1, <1>2 DEF Accounts, Within, Progress, AtFault, Begins, Untouched

\* The only step that leaves a running statement is its end.
LEMMA StatementLeft ==
  ASSUME TypeOK, Running({"stmt"}), [Next]_vars, Len(stack') < Len(stack)
  PROVE  StatementEnds
<1>1. stack # <<>> /\ Top.k = "stmt" /\ ctl.t = "run"
  BY DEF Running
<1>2. Len(stack) \in Nat
  BY <1>1, Typed
<1>3. ~Returned({"stmt"}) /\ ~Throwing({"stmt"})
  BY <1>1 DEF Returned, Throwing
<1>4. /\ \A K : "stmt" \notin K => ~Running(K)
      /\ \A K : ~Returned(K) /\ ~Throwing(K)
      /\ ~TakesStatements(Top)
  BY <1>1 DEF Running, Returned, Throwing, TakesStatements, LoopKinds
<1>5. ~Lists
  BY <1>1, <1>4 DEF Lists, ExecuteStatement, StatementReturned, ScriptEnds, ScriptCatches,
     ListEnds, ListCatches, ConditionLeaves
<1>6. ~Compounds
  BY Zenon, <1>4 DEF Compounds, EnterIf, EnterCase, EnterGroup, DefineFunction, CompoundFails,
     EvaluateIfCondition, IfReturned, CaseItem, CaseReturned, BranchThrows, GroupEnds,
     GroupCatches, RunSubshell, SubshellEnds, SubshellCatches, Command
<1>7. ~Loops
  BY <1>4 DEF Loops, EnterLoop, NextIteration, ForEnds, ForHeaderThrows, WhileTested,
     UntilTested, LoopBodyEnds, WhileConditionThrows, UntilConditionThrows, LoopBodyThrows,
     Command, LoopKinds
<1>8. ~Simples
  BY Zenon, <1>4 DEF Simples, BeginAssignment, BeginCommand, Substitute, SubstitutionLeaves,
     WordExpanded, WordFails, Assign, Builtin, ChangeDir, SetOption, LoopExit,
     ReturnBuiltin, ExitBuiltin, CommandReturned, CommandThrows, Ready, Command
<1>9. ~Callers
  BY Zenon, <1>4 DEF Callers, CallFunction, RunFunctionBody, FunctionLeaves, FunctionRedirectFails,
     Evaluate, Source, RunUserScript, RunScript, EvalLeaves, SourceLeaves, UserScriptLeaves,
     Ready, ScriptUsers
<1>10. ~ExecSettles /\ ~ExecAgain /\ ~UNCHANGED vars
  BY <1>1, <1>2 DEF ExecSettles, ExecAgain, Settled, vars
<1>11. Statements
  BY <1>5, <1>6, <1>7, <1>8, <1>9, <1>10 DEF Next, Step
<1>12. ~NextPipeline
  <2>1. ASSUME NextPipeline
        PROVE  (\E g : Stay(g)) \/ (\E g, f : CallFrom(g, f))
    BY Zenon, <2>1 DEF NextPipeline
  <2>2. (\E g : Stay(g)) \/ (\E g, f : CallFrom(g, f)) =>
          Len(stack') = Len(stack) \/ Len(stack') = Len(stack) + 1
    BY <1>1, StackAfter DEF Stay, CallFrom, Keeping
  <2> QED
    BY <1>2, <2>1, <2>2
<1> QED
  BY <1>4, <1>11, <1>12 DEF Statements, PipelineReturned, StatementThrows, SegmentReturned,
     SegmentThrows

\* Whatever the script, the limits and the options: with set -e on, a command that
\* failed by itself, outside the places where errexit does not apply, ends its
\* statement with an ErrexitError. errexitSafe, one flag for the whole
\* interpreter, which every statement nested in a command sets on its way out, is
\* false again whenever executeStatement tests it after such a failure.
THEOREM ErrexitIsHonoured == Spec => ErrexitHonoured
<1>1. Spec => []Accounts
  <2>1. Init => Accounts
    BY AccountsBegin
  <2>2. TypeOK /\ Accounts /\ [Next]_vars => Accounts'
    BY AccountsStep
  <2> QED
    BY <2>1, <2>2, TypeCorrect, PTL DEF Spec
<1>2. IInv /\ Accounts /\ [Next]_vars =>
        (Failed({"own"}) /\ Len(stack') < Len(stack) => ctl'.t = "throw")
  <2> SUFFICES ASSUME IInv, Accounts, [Next]_vars, Failed({"own"}), Len(stack') < Len(stack)
               PROVE  ctl'.t = "throw"
    OBVIOUS
  <2>1. TypeOK /\ Running({"stmt"})
    BY DEF IInv, Failed
  <2>2. StatementEnds
    BY <2>1, StatementLeft
  <2>3. /\ stack # <<>> /\ Top.k = "stmt" /\ Top.ph = "own" /\ ctl.t = "run"
        /\ Top.code # 0 /\ sh.errexit /\ Top.aux = Top.n /\ ~Top.flag
        /\ ConditionFrames(stack, Len(stack)) = {}
    BY DEF Failed, Running
  <2>4. ~sh.inCondition
    BY <2>3 DEF IInv, Counts, Tracks
  <2>5. AtFault(stack, ctl)
    BY <2>1, <2>3, Typed DEF AtFault, Top
  <2>6. ~sh.errexitSafe
    BY <2>5 DEF Accounts
  <2>7. Top.n \in Nat /\ ~(Top.aux < Top.n)
    BY <2>1, <2>3, Typed
  <2>8. Throw("errexit", Top.code)
    BY <2>2, <2>3, <2>4, <2>6, <2>7 DEF StatementEnds
  <2> QED
    BY <2>8 DEF Throw, Thrown
<1> QED
  BY <1>1, <1>2, Invariance, PTL DEF Spec, ErrexitHonoured
=============================================================================
