-------------------------- MODULE VarScopesProofs ---------------------------
(***************************************************************************)
(* Proofs about VarScopes: the books fit the calls in progress, and        *)
(* variables that are neither prefixed nor declared in a substitution have *)
(* dynamic scope (DynamicScope), for any names, values and bounds.         *)
(***************************************************************************)
EXTENDS VarScopes, FiniteSetTheorems, SequenceTheorems, WellFoundedInduction, TLAPS

-----------------------------------------------------------------------------
(* The inductive invariant *)

CallFrame == [kind : {"call"}]
PrefixFrame == [kind : {"prefix"}, name : Names, value : Contents]
SubshellFrame ==
  [kind : {"subshell"}, env : [Names -> Contents], scopes : Seq(Scope),
   depth : [Names -> Nat], stack : [Names -> Seq(Cell) \cup {NoCell}],
   fully : [Names -> Nat \cup {NoCell}]]
PieceFrame ==
  [kind : {"piece"}, env : [Names -> Contents], scopes : Seq(Scope)]
Frame == CallFrame \cup PrefixFrame \cup SubshellFrame \cup PieceFrame

\* The books st and fu of a shell with d calls in progress: cells of these calls
\* only, in their order, and none where no call is in progress.
Ordered(s, d) ==
  \A i \in DOMAIN s :
    /\ s[i].scopeIndex < d
    /\ \A j \in 1 .. i : s[j].scopeIndex <= s[i].scopeIndex

BooksFit(st, fu, d) ==
  \A n \in Names :
    /\ st[n] # NoCell => d > 0 /\ Ordered(st[n], d)
    /\ fu[n] # NoCell => fu[n] < d

\* So are those that a subshell will give back.
SavedFit(fs) ==
  \A i \in DOMAIN fs :
    fs[i].kind = "subshell" => BooksFit(fs[i].stack, fs[i].fully, Len(fs[i].scopes))

\* There is a scope for each call in progress, and there was one for each call
\* when a construct that saves them began.
CallsTo(fs, i) == {j \in 1 .. i : fs[j].kind = "call"}
Height(fs, i) == Cardinality(CallsTo(fs, i))
IsFork(f) == f.kind \in {"subshell", "piece"}

Heights(fs, d) ==
  /\ d = Height(fs, Len(fs))
  /\ \A i \in DOMAIN fs : IsFork(fs[i]) => Len(fs[i].scopes) = Height(fs, i)

\* No prefix assignment holds a plain name.
NoPrefix(p, tb, fs) ==
  /\ \A i \in DOMAIN tb : \A n \in p : tb[i][n] = NoCell
  /\ \A i \in DOMAIN fs : fs[i].kind = "prefix" => fs[i].name \notin p

\* Scopes s hide what the scopes of piece f hid, as far as those go.
Holds(s, f, p) == \A d \in 1 .. Len(f.scopes) : \A n \in p : s[d][n] = f.scopes[d][n]

\* What calls around a substitution or a command of a pipeline hide of plain names
\* is the same at its end, and in the subshells begun in it.
Kept(fs, s, p) ==
  \A i \in DOMAIN fs : fs[i].kind = "piece" =>
    /\ Holds(s, fs[i], p)
    /\ \A k \in DOMAIN fs : k > i /\ fs[k].kind = "subshell" =>
         Holds(fs[k].scopes, fs[i], p)

IInv ==
  /\ TypeOK
  /\ frames \in Seq(Frame)
  /\ BooksFit(localVarStack, fullyUnsetLocals, Depth)
  /\ SavedFit(frames)
  /\ Heights(frames, Depth)
  /\ NoPrefix(plain, tempEnvBindings, frames)
  /\ Kept(frames, localScopes, plain)

-----------------------------------------------------------------------------
(* Numbers, sets of them and sequences *)

LEMMA NatIsWellFounded == IsWellFoundedOn({ss \in Nat \X Nat : ss[1] < ss[2]}, Nat)
  BY NatLessThanWellFounded DEF OpToRel

LEMMA Smallest ==
  ASSUME NEW T, T \subseteq Nat, T # {}
  PROVE  \E x \in T : \A y \in T : x <= y
<1> DEFINE R == {ss \in Nat \X Nat : ss[1] < ss[2]}
<1>1. IsWellFoundedOn(R, Nat)
  BY NatIsWellFounded
<1>2. \A x, y \in Nat : <<y, x>> \in R <=> y < x
  OBVIOUS
<1> HIDE DEF R
<1>3. PICK x \in T : \A y \in T : ~(<<y, x>> \in R)
  BY <1>1, WFMin
<1>4. x \in Nat /\ \A y \in T : y \in Nat /\ ~(y < x)
  BY <1>2, <1>3
<1>5. \A y \in T : x <= y
  BY <1>4
<1> QED
  BY <1>5

LEMMA Largest ==
  ASSUME NEW b \in Nat, NEW T, T \subseteq 0 .. b, T # {}
  PROVE  \E x \in T : \A y \in T : y <= x
<1> DEFINE U == {k \in Nat : b - k \in T}
<1>1. PICK z \in T : TRUE
  OBVIOUS
<1>2. z \in Nat /\ b - z \in Nat /\ b - (b - z) = z
  BY <1>1
<1>3. b - z \in U
  BY <1>1, <1>2
<1>4. PICK k \in U : \A j \in U : k <= j
  <2> HIDE DEF U
  <2>1. U \subseteq Nat
    BY DEF U
  <2> QED  BY <1>3, <2>1, Smallest
<1>5. b - k \in T /\ k \in Nat
  BY <1>4
<1>6. \A y \in T : y <= b - k
  <2> TAKE y \in T
  <2>1. y \in Nat /\ b - y \in Nat /\ b - (b - y) = y
    OBVIOUS
  <2>2. b - y \in U
    BY <2>1
  <2>3. k <= b - y
    BY <1>4, <2>2
  <2> QED  BY <2>1, <2>3, <1>5
<1> QED
  BY <1>5, <1>6

UpTo(S, i) == {j \in S : j <= i}

LEMMA SubInterval ==
  ASSUME NEW m \in Nat, NEW S, S \subseteq 1 .. m
  PROVE  /\ IsFiniteSet(S) /\ Cardinality(S) \in Nat
         /\ \A j \in S : j \in Nat /\ 1 <= j /\ j <= m
<1>1. IsFiniteSet(1 .. m)
  BY FS_Interval
<1>2. S \in SUBSET (1 .. m)
  OBVIOUS
<1>3. IsFiniteSet(S) /\ Cardinality(S) \in Nat
  BY <1>1, <1>2, FS_Subset, FS_CardinalityType
<1> QED
  BY <1>3

LEMMA UpToFinite ==
  ASSUME NEW S, IsFiniteSet(S), NEW i
  PROVE  /\ IsFiniteSet(UpTo(S, i))
         /\ Cardinality(UpTo(S, i)) \in Nat
         /\ Cardinality(UpTo(S, i)) <= Cardinality(S)
<1>1. UpTo(S, i) \in SUBSET S
  BY DEF UpTo
<1> QED
  BY <1>1, FS_Subset, FS_CardinalityType

\* A set of numbers has a d-th smallest element for each d up to its size.
LEMMA NthMember ==
  ASSUME NEW m \in Nat, NEW S, S \subseteq 1 .. m, NEW d \in 1 .. Cardinality(S)
  PROVE  Nth(S, d) \in S /\ Cardinality(UpTo(S, Nth(S, d))) = d
<1> DEFINE C(i) == Cardinality(UpTo(S, i))
           T == {i \in Nat : C(i) >= d}
<1>1. IsFiniteSet(S) /\ Cardinality(S) \in Nat
  BY SubInterval
<1>0. \A j \in S : j \in Nat /\ 1 <= j /\ j <= m
  BY SubInterval
<1>2. \A i : IsFiniteSet(UpTo(S, i)) /\ C(i) \in Nat
  BY <1>1, UpToFinite
<1>3. m \in T
  <2>1. UpTo(S, m) = S
    BY <1>0 DEF UpTo
  <2> QED  BY <2>1, <1>1
<1>4. PICK x \in T : \A y \in T : x <= y
  <2> HIDE DEF T
  <2>1. T \subseteq Nat
    BY DEF T
  <2> QED  BY <1>3, <2>1, Smallest
<1>5. x \in Nat /\ C(x) >= d
  BY <1>4
<1>6. x # 0
  <2>0. \A j \in S : ~(j <= 0)
    BY <1>0
  <2>1. UpTo(S, 0) = {}
    BY <2>0 DEF UpTo
  <2>2. C(0) = 0
    BY <2>1, FS_EmptySet
  <2> QED  BY <1>1, <1>5, <2>2
<1>7. x - 1 \in Nat /\ C(x - 1) < d
  <2>1. x - 1 \in Nat
    BY <1>5, <1>6
  <2>2. x - 1 \notin T
    BY <1>4, <1>5, <2>1
  <2>3. C(x - 1) \in Nat
    BY <1>2
  <2> HIDE DEF C
  <2> QED  BY <1>1, <2>1, <2>2, <2>3
<1>8. x \in S
  <2> SUFFICES ASSUME x \notin S PROVE FALSE
    OBVIOUS
  <2>1. \A j \in S : j <= x <=> j <= x - 1
    BY <1>0, <1>5
  <2>3. UpTo(S, x) = UpTo(S, x - 1)
    BY <2>1 DEF UpTo
  <2>2. C(x) = C(x - 1)
    BY <2>3
  <2>4. C(x) \in Nat
    BY <1>2
  <2> HIDE DEF C
  <2> QED  BY <1>1, <1>5, <1>7, <2>2, <2>4
<1>9. C(x) = C(x - 1) + 1
  <2>1. \A j \in S : j <= x <=> (j <= x - 1 \/ j = x)
    BY <1>0, <1>5
  <2>2. UpTo(S, x) = UpTo(S, x - 1) \cup {x}
    BY <2>1, <1>8 DEF UpTo
  <2>3. x \notin UpTo(S, x - 1)
    BY <1>5 DEF UpTo
  <2>4. IsFiniteSet(UpTo(S, x - 1))
    BY <1>2
  <2> QED  BY <2>2, <2>3, <2>4, FS_AddElement
<1>10. C(x) = d
  <2>1. C(x) \in Nat /\ C(x - 1) \in Nat
    BY <1>2
  <2> HIDE DEF C
  <2> QED  BY <1>1, <1>5, <1>7, <1>9, <2>1
<1> QED
  BY <1>8, <1>10 DEF Nth, UpTo

\* A larger element comes after the others.
Grown(S, T, m) == S \subseteq 1 .. m /\ T = S \cup {m + 1}

LEMMA NthGrows ==
  ASSUME NEW m \in Nat, NEW S, NEW T, Grown(S, T, m)
  PROVE  /\ Cardinality(S) \in Nat
         /\ Cardinality(T) = Cardinality(S) + 1
         /\ \A d \in 1 .. Cardinality(S) : Nth(T, d) = Nth(S, d)
         /\ Nth(T, Cardinality(S) + 1) = m + 1
<1>9. S \subseteq 1 .. m /\ T = S \cup {m + 1}
  BY DEF Grown
<1> USE <1>9
<1>1. IsFiniteSet(S) /\ Cardinality(S) \in Nat
  BY SubInterval
<1>0. \A j \in S : j \in Nat /\ 1 <= j /\ j <= m
  BY SubInterval
<1>2. m + 1 \notin S
  OBVIOUS
<1>3. Cardinality(T) = Cardinality(S) + 1
  BY <1>1, <1>2, FS_AddElement
<1>4. ASSUME NEW i \in S
      PROVE  /\ UpTo(T, i) = UpTo(S, i)
             /\ Cardinality(UpTo(S, i)) \in Nat
             /\ Cardinality(UpTo(S, i)) <= Cardinality(S)
  <2>1. \A j \in T : j <= i => j \in S
    BY <1>0
  <2>2. UpTo(T, i) = UpTo(S, i)
    BY <2>1 DEF UpTo
  <2> QED  BY <2>2, <1>1, UpToFinite
<1>5. UpTo(T, m + 1) = T
  <2>1. \A j \in T : j <= m + 1
    BY <1>0
  <2> QED  BY <2>1 DEF UpTo
<1>6. ASSUME NEW d \in 1 .. Cardinality(S)
      PROVE  Nth(T, d) = Nth(S, d)
  <2>1. \A i : (i \in T /\ Cardinality(UpTo(T, i)) = d) <=> (i \in S /\ Cardinality(UpTo(S, i)) = d)
    <3>1. Cardinality(UpTo(T, m + 1)) # d
      <4>1. Cardinality(UpTo(T, m + 1)) = Cardinality(S) + 1
        BY <1>3, <1>5
      <4>2. d \in Nat /\ d <= Cardinality(S)
        BY <1>1
      <4> QED  BY <4>1, <4>2, <1>1
    <3>2. \A i \in S : UpTo(T, i) = UpTo(S, i)
      BY <1>4
    <3> QED  BY <3>1, <3>2
  <2> QED  BY <2>1 DEF Nth, UpTo
<1>7. Nth(T, Cardinality(S) + 1) = m + 1
  <2>1. \A i : (i \in T /\ Cardinality(UpTo(T, i)) = Cardinality(S) + 1) <=> i = m + 1
    <3>1. ASSUME NEW i \in S
          PROVE  Cardinality(UpTo(T, i)) # Cardinality(S) + 1
      <4>1. Cardinality(UpTo(T, i)) \in Nat /\ Cardinality(UpTo(T, i)) <= Cardinality(S)
        BY <1>4
      <4> QED  BY <4>1, <1>1
    <3> QED  BY <3>1, <1>2, <1>3, <1>5
  <2> QED  BY <2>1 DEF Nth, UpTo
<1> QED
  BY <1>1, <1>3, <1>6, <1>7

LEMMA FrontLast ==
  ASSUME NEW S, NEW s \in Seq(S)
  PROVE  /\ Front(s) \in Seq(S)
         /\ s # <<>> => /\ Len(s) \in Nat \ {0}
                        /\ Last(s) \in S
                        /\ Len(Front(s)) = Len(s) - 1
                        /\ \A i \in 1 .. Len(s) - 1 : Front(s)[i] = s[i]
<1>1. Len(s) \in Nat /\ DOMAIN s = 1 .. Len(s)
  BY LenProperties
<1>2. \A i \in 1 .. Len(s) - 1 : s[i] \in S
  BY <1>1, ElementOfSeq
<1>3. /\ Front(s) \in Seq(S)
      /\ Len(Front(s)) = IF 1 <= Len(s) - 1 THEN Len(s) - 1 - 1 + 1 ELSE 0
      /\ \A i \in 1 .. Len(s) - 1 - 1 + 1 : Front(s)[i] = s[1 + i - 1]
  <2>1. 1 \in Int /\ Len(s) - 1 \in Int
    BY <1>1
  <2> QED  BY <1>2, <2>1, SubSeqProperties DEF Front
<1>4. ASSUME s # <<>>
      PROVE  /\ Len(s) \in Nat \ {0} /\ Last(s) \in S
             /\ Len(Front(s)) = Len(s) - 1
             /\ \A i \in 1 .. Len(s) - 1 : Front(s)[i] = s[i]
  <2>1. Len(s) \in Nat \ {0}
    BY <1>4, EmptySeq
  <2>2. s[Len(s)] \in S
    BY <2>1, ElementOfSeq
  <2>3. Len(Front(s)) = Len(s) - 1
    <3> DEFINE k == Len(s)
               l == Len(Front(s))
    <3>1. k \in Nat /\ k # 0 /\ l = IF 1 <= k - 1 THEN k - 1 - 1 + 1 ELSE 0
      BY <1>3, <2>1
    <3> HIDE DEF k, l
    <3>2. l = k - 1
      BY <3>1
    <3> QED  BY <3>2 DEF k, l
  <2>4. \A i \in 1 .. Len(s) - 1 : Front(s)[i] = s[i]
    <3> TAKE i \in 1 .. Len(s) - 1
    <3>1. i \in 1 .. Len(s) - 1 - 1 + 1 /\ 1 + i - 1 = i
      BY <2>1
    <3> QED  BY <1>3, <3>1
  <2> QED  BY <2>1, <2>2, <2>3, <2>4 DEF Last
<1> QED
  BY <1>3, <1>4

-----------------------------------------------------------------------------
(* Frames *)

\* Sequence g is f with one more element.
Extends(g, f) == Len(g) = Len(f) + 1 /\ \A i \in 1 .. Len(f) : g[i] = f[i]

LEMMA Pushing ==
  ASSUME NEW S, NEW f \in Seq(S), NEW x \in S
  PROVE  /\ Append(f, x) \in Seq(S)
         /\ Extends(Append(f, x), f)
         /\ Append(f, x)[Len(f) + 1] = x
<1>1. Len(f) \in Nat
  BY LenProperties
<1> QED
  BY <1>1 DEF Extends

LEMMA Popping ==
  ASSUME NEW S, NEW g \in Seq(S), g # <<>>
  PROVE  /\ Front(g) \in Seq(S)
         /\ Extends(g, Front(g))
         /\ Last(g) \in S
         /\ Last(g) = g[Len(Front(g)) + 1]
<1>1. /\ Front(g) \in Seq(S)
      /\ Len(g) \in Nat \ {0} /\ Last(g) \in S /\ Len(Front(g)) = Len(g) - 1
      /\ \A i \in 1 .. Len(g) - 1 : Front(g)[i] = g[i]
  BY FrontLast
<1>2. Len(g) = Len(Front(g)) + 1
  BY <1>1
<1> QED
  BY <1>1, <1>2 DEF Extends, Last

LEMMA HeightFacts ==
  ASSUME NEW fs, NEW i \in Nat
  PROVE  /\ IsFiniteSet(CallsTo(fs, i))
         /\ Height(fs, i) \in Nat
         /\ \A k \in Nat : i <= k => Height(fs, i) <= Height(fs, k)
         /\ \A k \in Nat : (\E j \in (i + 1) .. k : fs[j].kind = "call")
              => Height(fs, i) < Height(fs, k)
<1>1. \A k \in Nat : CallsTo(fs, k) \subseteq 1 .. k
  BY DEF CallsTo
<1>2. \A k \in Nat : IsFiniteSet(CallsTo(fs, k)) /\ Height(fs, k) \in Nat
  BY <1>1, SubInterval DEF Height
<1>3. ASSUME NEW k \in Nat, i <= k
      PROVE  /\ CallsTo(fs, i) \in SUBSET CallsTo(fs, k)
             /\ Height(fs, i) <= Height(fs, k)
             /\ Height(fs, i) = Height(fs, k) => CallsTo(fs, i) = CallsTo(fs, k)
  <2>1. \A j \in 1 .. i : j \in 1 .. k
    BY <1>3
  <2>2. CallsTo(fs, i) \in SUBSET CallsTo(fs, k)
    BY <2>1 DEF CallsTo
  <2> QED  BY <2>2, <1>2, FS_Subset DEF Height
<1>4. ASSUME NEW k \in Nat, NEW j \in (i + 1) .. k, fs[j].kind = "call"
      PROVE  Height(fs, i) < Height(fs, k)
  <2>1. j \in Nat /\ i <= k /\ j \in 1 .. k /\ j \notin 1 .. i
    OBVIOUS
  <2>2. j \in CallsTo(fs, k) /\ j \notin CallsTo(fs, i)
    BY <2>1, <1>4 DEF CallsTo
  <2>3. Height(fs, i) <= Height(fs, k) /\ Height(fs, i) # Height(fs, k)
    BY <1>3, <2>1, <2>2
  <2>4. Height(fs, i) \in Nat /\ Height(fs, k) \in Nat
    BY <1>2
  <2> QED  BY <2>3, <2>4
<1> QED
  BY <1>2, <1>3, <1>4

LEMMA HeightExtends ==
  ASSUME NEW f, NEW g, Len(f) \in Nat, Extends(g, f)
  PROVE  /\ \A i \in 0 .. Len(f) : Height(g, i) = Height(f, i)
         /\ Height(g, Len(g)) =
              Height(f, Len(f)) + (IF g[Len(f) + 1].kind = "call" THEN 1 ELSE 0)
<1> DEFINE m == Len(f)
<1>1. ASSUME NEW i \in 0 .. m
      PROVE  CallsTo(g, i) = CallsTo(f, i)
  <2>1. \A j \in 1 .. i : j \in 1 .. Len(f)
    OBVIOUS
  <2> QED  BY <2>1 DEF CallsTo, Extends
<1>2. \A i \in 0 .. m : Height(g, i) = Height(f, i)
  BY <1>1 DEF Height
<1>3. m \in 0 .. m /\ Len(g) = m + 1 /\ m \in Nat
  BY DEF Extends
<1>4. IsFiniteSet(CallsTo(f, m)) /\ Height(f, m) \in Nat
  BY <1>3, HeightFacts
<1>5. m + 1 \notin CallsTo(f, m)
  BY <1>3 DEF CallsTo
<1>6. \A j : j \in 1 .. m + 1 <=> j \in 1 .. m \/ j = m + 1
  BY <1>3
<1>7. CASE g[m + 1].kind = "call"
  <2>1. CallsTo(g, m + 1) = CallsTo(g, m) \cup {m + 1}
    BY <1>6, <1>7 DEF CallsTo
  <2>2. CallsTo(g, m + 1) = CallsTo(f, m) \cup {m + 1}
    BY <2>1, <1>1, <1>3
  <2>3. Height(g, m + 1) = Height(f, m) + 1
    BY <2>2, <1>4, <1>5, FS_AddElement DEF Height
  <2> QED  BY <2>3, <1>2, <1>3, <1>7
<1>8. CASE g[m + 1].kind # "call"
  <2>1. CallsTo(g, m + 1) = CallsTo(g, m)
    BY <1>6, <1>8 DEF CallsTo
  <2>2. Height(g, m + 1) = Height(f, m)
    BY <2>1, <1>1, <1>3 DEF Height
  <2> QED  BY <2>2, <1>2, <1>3, <1>4, <1>8
<1> QED
  BY <1>7, <1>8

\* A construct begins.
LEMMA HeightsPushed ==
  ASSUME NEW S, NEW fs \in Seq(S), NEW x \in S, NEW d, Heights(fs, d),
         IsFork(x) => Len(x.scopes) = d
  PROVE  Heights(Append(fs, x), d + (IF x.kind = "call" THEN 1 ELSE 0))
<1> DEFINE g == Append(fs, x)
<1>1. /\ g \in Seq(S) /\ Extends(g, fs) /\ g[Len(fs) + 1] = x
      /\ Len(fs) \in Nat /\ DOMAIN fs = 1 .. Len(fs) /\ DOMAIN g = 1 .. Len(g)
  BY Pushing, LenProperties
<1> HIDE DEF g
<1>2. /\ \A i \in 0 .. Len(fs) : Height(g, i) = Height(fs, i)
      /\ Height(g, Len(g)) = Height(fs, Len(fs)) + (IF x.kind = "call" THEN 1 ELSE 0)
  BY <1>1, HeightExtends
<1>3. ASSUME NEW i \in DOMAIN g, IsFork(g[i])
      PROVE  Len(g[i].scopes) = Height(g, i)
  <2>1. CASE i \in 1 .. Len(fs)
    <3>1. i \in 0 .. Len(fs) /\ g[i] = fs[i]
      BY <2>1, <1>1 DEF Extends
    <3> QED  BY <3>1, <2>1, <1>1, <1>2, <1>3 DEF Heights
  <2>2. CASE i = Len(fs) + 1
    <3>1. g[i] = x /\ i = Len(g) /\ x.kind # "call"
      BY <2>2, <1>1, <1>3 DEF Extends, IsFork
    <3>2. Height(fs, Len(fs)) \in Nat
      BY <1>1, HeightFacts
    <3> QED  BY <3>1, <3>2, <1>2, <1>3 DEF Heights
  <2> QED  BY <1>1, <2>1, <2>2 DEF Extends
<1> QED
  BY <1>2, <1>3 DEF Heights, g

\* A construct ends: a call takes its scope away, the others find the scopes there
\* were at their beginning.
LEMMA HeightsPopped ==
  ASSUME NEW S, NEW fs \in Seq(S), fs # <<>>, NEW d, Heights(fs, d)
  PROVE  /\ d \in Nat
         /\ Last(fs).kind = "call" =>
              /\ d > 0 /\ Heights(Front(fs), d - 1)
              /\ \A i \in DOMAIN Front(fs) : IsFork(fs[i]) => Len(fs[i].scopes) <= d - 1
         /\ Last(fs).kind # "call" => Heights(Front(fs), d)
         /\ IsFork(Last(fs)) => Len(Last(fs).scopes) = d
<1> DEFINE f == Front(fs)
           x == Last(fs)
<1>1. /\ f \in Seq(S) /\ Extends(fs, f) /\ fs[Len(f) + 1] = x
      /\ Len(f) \in Nat /\ DOMAIN f = 1 .. Len(f) /\ DOMAIN fs = 1 .. Len(fs)
  BY Popping, LenProperties
<1> HIDE DEF f, x
<1>2. /\ \A i \in 0 .. Len(f) : Height(fs, i) = Height(f, i)
      /\ Height(fs, Len(fs)) = Height(f, Len(f)) + (IF x.kind = "call" THEN 1 ELSE 0)
  BY <1>1, HeightExtends
<1>3. d = Height(fs, Len(fs)) /\ Height(f, Len(f)) \in Nat
  BY <1>1, HeightFacts DEF Heights
<1>4. Len(fs) = Len(f) + 1 /\ \A i \in DOMAIN f : i \in DOMAIN fs /\ fs[i] = f[i] /\ i \in 0 .. Len(f)
  BY <1>1 DEF Extends
<1>5. \A i \in DOMAIN f : IsFork(f[i]) => Len(f[i].scopes) = Height(f, i)
  BY <1>2, <1>4 DEF Heights
<1>6. Heights(f, Height(f, Len(f)))
  BY <1>5 DEF Heights
<1>7. ASSUME x.kind = "call", NEW i \in DOMAIN f, IsFork(fs[i])
      PROVE  Len(fs[i].scopes) <= d - 1
  <2>1. Len(fs[i].scopes) = Height(f, i)
    BY <1>4, <1>5, <1>7
  <2>2. i \in Nat /\ i <= Len(f)
    BY <1>1
  <2>3. Height(f, i) <= Height(f, Len(f))
    BY <2>2, <1>1, HeightFacts
  <2> QED  BY <2>1, <2>3, <1>2, <1>3, <1>7
<1>8. ASSUME IsFork(x)
      PROVE  Len(x.scopes) = d
  <2>1. Len(fs) \in DOMAIN fs /\ fs[Len(fs)] = x
    BY <1>1, <1>4
  <2> QED  BY <2>1, <1>8 DEF Heights
<1>9. x.kind = "call" => d > 0 /\ d - 1 = Height(f, Len(f))
  BY <1>2, <1>3
<1>10. x.kind # "call" => d = Height(f, Len(f))
  BY <1>2, <1>3
<1>11. d \in Nat
  BY <1>2, <1>3
<1> QED
  BY <1>4, <1>6, <1>7, <1>8, <1>9, <1>10, <1>11 DEF f, x

-----------------------------------------------------------------------------
(* Saved cells *)

LEMMA OrderedFront ==
  ASSUME NEW s \in Seq(Cell), s # <<>>, NEW d, Ordered(s, d)
  PROVE  Front(s) \in Seq(Cell) /\ Ordered(Front(s), d) /\ Last(s) \in Cell
<1>1. /\ Front(s) \in Seq(Cell)
      /\ Len(s) \in Nat \ {0} /\ Last(s) \in Cell /\ Len(Front(s)) = Len(s) - 1
      /\ \A i \in 1 .. Len(s) - 1 : Front(s)[i] = s[i]
  BY FrontLast
<1>2. DOMAIN s = 1 .. Len(s) /\ DOMAIN Front(s) = 1 .. Len(s) - 1
  BY <1>1, LenProperties
<1>3. ASSUME NEW i \in 1 .. Len(s) - 1
      PROVE  /\ Front(s)[i].scopeIndex < d
             /\ \A j \in 1 .. i : Front(s)[j].scopeIndex <= Front(s)[i].scopeIndex
  <2>1. i \in DOMAIN s /\ Front(s)[i] = s[i]
    BY <1>1, <1>2
  <2>2. \A j \in 1 .. i : Front(s)[j] = s[j]
    BY <1>1
  <2> QED  BY <2>1, <2>2 DEF Ordered
<1> QED
  BY <1>1, <1>2, <1>3 DEF Ordered

LEMMA OrderedAppend ==
  ASSUME NEW s \in Seq(Cell), NEW d \in Nat, d > 0, Ordered(s, d), NEW v \in Contents
  PROVE  /\ Append(s, [value |-> v, scopeIndex |-> d - 1]) \in Seq(Cell)
         /\ Ordered(Append(s, [value |-> v, scopeIndex |-> d - 1]), d)
<1> DEFINE c == [value |-> v, scopeIndex |-> d - 1]
           t == Append(s, c)
<1>1. c \in Cell /\ c.scopeIndex = d - 1
  BY DEF Cell
<1> HIDE DEF c
<1>2. /\ t \in Seq(Cell) /\ Extends(t, s) /\ t[Len(s) + 1] = c
      /\ DOMAIN s = 1 .. Len(s) /\ Len(s) \in Nat /\ DOMAIN t = 1 .. Len(t)
  BY <1>1, Pushing, LenProperties
<1>3. \A i \in 1 .. Len(s) : s[i].scopeIndex \in Nat
  <2>1. \A i \in 1 .. Len(s) : s[i] \in Cell
    BY ElementOfSeq
  <2> QED  BY <2>1 DEF Cell
<1> HIDE DEF t
<1>4. ASSUME NEW i \in 1 .. Len(s) + 1
      PROVE  /\ t[i].scopeIndex < d
             /\ \A j \in 1 .. i : t[j].scopeIndex <= t[i].scopeIndex
  <2>1. CASE i \in 1 .. Len(s)
    <3>1. i \in DOMAIN s /\ t[i] = s[i] /\ \A j \in 1 .. i : t[j] = s[j]
      BY <2>1, <1>2 DEF Extends
    <3> QED  BY <3>1 DEF Ordered
  <2>2. CASE i = Len(s) + 1
    <3>1. t[i].scopeIndex = d - 1
      BY <2>2, <1>1, <1>2
    <3>2. ASSUME NEW j \in 1 .. i
          PROVE  t[j].scopeIndex <= d - 1
      <4>1. CASE j = i
        BY <4>1, <3>1
      <4>2. CASE j \in 1 .. Len(s)
        <5>1. t[j] = s[j] /\ s[j].scopeIndex < d /\ s[j].scopeIndex \in Nat
          BY <4>2, <1>2, <1>3 DEF Extends, Ordered
        <5> QED  BY <5>1
      <4> QED  BY <4>1, <4>2, <2>2, <1>2
    <3> QED  BY <3>1, <3>2
  <2> QED  BY <2>1, <2>2, <1>2
<1> QED
  BY <1>2, <1>4 DEF Ordered, Extends, t, c

LEMMA OrderedEmpty == ASSUME NEW d PROVE Ordered(<<>>, d)
  BY DEF Ordered

LEMMA Trimming ==
  ASSUME Depth \in Nat, Depth > 0, NEW s \in Seq(Cell), Ordered(s, Depth)
  PROVE  /\ Trimmed(s) \in Seq(Cell) \cup {NoCell}
         /\ Trimmed(s) # NoCell => Depth - 1 > 0 /\ Ordered(Trimmed(s), Depth - 1)
<1> DEFINE kept == {i \in DOMAIN s : s[i].scopeIndex # Depth - 1}
<1>1. Len(s) \in Nat /\ DOMAIN s = 1 .. Len(s)
  BY LenProperties
<1>2. \A i \in 1 .. Len(s) : s[i] \in Cell /\ s[i].scopeIndex \in Nat
  <2>1. \A i \in 1 .. Len(s) : s[i] \in Cell
    BY ElementOfSeq
  <2> QED  BY <2>1 DEF Cell
<1>3. CASE kept = {}
  BY <1>3 DEF Trimmed
<1>4. CASE kept # {}
  <2> DEFINE top == CHOOSE i \in kept : \A j \in kept : j <= i
  <2>1. \E i \in kept : \A j \in kept : j <= i
    <3>1. kept \subseteq 0 .. Len(s)
      BY <1>1
    <3> HIDE DEF kept
    <3> QED  BY <3>1, <1>1, <1>4, Largest
  <2>2. top \in kept
    <3> HIDE DEF kept
    <3> QED  BY <2>1
  <2>3. top \in 1 .. Len(s) /\ s[top].scopeIndex # Depth - 1
    BY <2>2, <1>1
  <2>4. Trimmed(s) = SubSeq(s, 1, top)
    <3>1. Trimmed(s) = IF (IF kept = {} THEN 0 ELSE top) = 0 THEN NoCell
                       ELSE SubSeq(s, 1, IF kept = {} THEN 0 ELSE top)
      BY DEF Trimmed
    <3> HIDE DEF kept, top
    <3>2. (IF kept = {} THEN 0 ELSE top) = top
      BY <1>4
    <3>3. top # 0
      BY <2>3
    <3> QED  BY <3>1, <3>2, <3>3
  <2> HIDE DEF top
  <2>5. /\ SubSeq(s, 1, top) \in Seq(Cell)
        /\ Len(SubSeq(s, 1, top)) = top
        /\ \A i \in 1 .. top : SubSeq(s, 1, top)[i] = s[i]
    <3>1. \A i \in 1 .. top : s[i] \in Cell
      BY <1>1, <1>2, <2>3
    <3>2. 1 \in Int /\ top \in Int /\ 1 <= top
      BY <2>3
    <3>3. /\ SubSeq(s, 1, top) \in Seq(Cell)
          /\ Len(SubSeq(s, 1, top)) = IF 1 <= top THEN top - 1 + 1 ELSE 0
          /\ \A i \in 1 .. top - 1 + 1 : SubSeq(s, 1, top)[i] = s[1 + i - 1]
      BY <3>1, <3>2, SubSeqProperties
    <3>4. top - 1 + 1 = top /\ \A i \in 1 .. top : 1 + i - 1 = i
      BY <3>2
    <3> QED  BY <3>2, <3>3, <3>4
  <2>6. s[top].scopeIndex < Depth - 1
    <3>1. s[top].scopeIndex < Depth /\ s[top].scopeIndex \in Nat
      BY <1>1, <1>2, <2>3 DEF Ordered
    <3> QED  BY <3>1, <2>3
  <2>7. ASSUME NEW i \in 1 .. top
        PROVE  /\ s[i].scopeIndex < Depth - 1
               /\ \A j \in 1 .. i : s[j].scopeIndex <= s[i].scopeIndex
    <3>1. s[i].scopeIndex <= s[top].scopeIndex /\ s[i].scopeIndex \in Nat /\ i \in 1 .. Len(s)
      BY <1>1, <1>2, <2>3 DEF Ordered
    <3>2. s[i].scopeIndex < Depth - 1
      BY <3>1, <1>2, <2>3, <2>6
    <3> QED  BY <3>1, <3>2, <1>1 DEF Ordered
  <2>8. Depth - 1 > 0
    BY <1>2, <2>3, <2>6
  <2>9. Ordered(SubSeq(s, 1, top), Depth - 1)
    <3> DEFINE t == SubSeq(s, 1, top)
    <3>1. DOMAIN t = 1 .. top
      BY <2>5, LenProperties
    <3>2. ASSUME NEW i \in 1 .. top
          PROVE  t[i].scopeIndex < Depth - 1 /\ \A j \in 1 .. i : t[j].scopeIndex <= t[i].scopeIndex
      <4>1. t[i] = s[i] /\ \A j \in 1 .. i : t[j] = s[j]
        BY <2>3, <2>5
      <4> HIDE DEF t
      <4> QED  BY <4>1, <2>7
    <3> HIDE DEF t
    <3>3. Ordered(t, Depth - 1)
      BY <3>1, <3>2 DEF Ordered
    <3> QED  BY <3>3 DEF t
  <2> QED  BY <2>4, <2>5, <2>8, <2>9
<1> QED
  BY <1>3, <1>4

-----------------------------------------------------------------------------
(* Commands *)

LEMMA TypeFacts ==
  ASSUME TypeOK
  PROVE  /\ Depth \in Nat /\ DOMAIN localScopes = 1 .. Depth
         /\ \A i \in 1 .. Depth : localScopes[i] \in Scope
         /\ Len(tempEnvBindings) \in Nat
         /\ DOMAIN tempEnvBindings = 1 .. Len(tempEnvBindings)
         /\ \A i \in DOMAIN tempEnvBindings : tempEnvBindings[i] \in Scope
<1>1. localScopes \in Seq(Scope) /\ tempEnvBindings \in Seq(Scope)
  BY DEF TypeOK
<1>2. Depth \in Nat /\ DOMAIN localScopes = 1 .. Depth
  BY <1>1, LenProperties DEF Depth
<1>3. /\ Len(tempEnvBindings) \in Nat
      /\ DOMAIN tempEnvBindings = 1 .. Len(tempEnvBindings)
  BY <1>1, LenProperties
<1>4. \A i \in 1 .. Depth : localScopes[i] \in Scope
  BY <1>1, ElementOfSeq DEF Depth
<1>5. \A i \in DOMAIN tempEnvBindings : tempEnvBindings[i] \in Scope
  BY <1>1, <1>3, ElementOfSeq
<1> QED
  BY <1>2, <1>3, <1>4, <1>5

LEMMA BindingFacts ==
  ASSUME TypeOK, NEW n \in Names, Bound(n)
  PROVE  InnerBinding(n) \in DOMAIN tempEnvBindings /\ Underlying(n) \in Contents
<1>1. /\ Len(tempEnvBindings) \in Nat
      /\ DOMAIN tempEnvBindings = 1 .. Len(tempEnvBindings)
      /\ \A i \in DOMAIN tempEnvBindings : tempEnvBindings[i] \in Scope
  BY TypeFacts
<1>2. Binding(n) \subseteq 0 .. Len(tempEnvBindings) /\ Binding(n) # {}
  BY <1>1 DEF Bound, Binding
<1>3. \E i \in Binding(n) : \A j \in Binding(n) : j <= i
  BY <1>1, <1>2, Largest
<1>4. InnerBinding(n) \in Binding(n)
  BY <1>3 DEF InnerBinding
<1>5. InnerBinding(n) \in DOMAIN tempEnvBindings /\ Underlying(n) # NoCell
  BY <1>4 DEF Binding, Underlying
<1>6. Underlying(n) \in Contents \cup {NoCell}
  BY <1>1, <1>5 DEF Underlying, Scope
<1> QED
  BY <1>5, <1>6

LEMMA ScopeFacts ==
  ASSUME TypeOK, NEW n \in Names, Scopes(n) # {}
  PROVE  /\ InnerScope(n) \in 1 .. Depth
         /\ InnerScope(n) \in Scopes(n)
         /\ \A j \in Scopes(n) : j <= InnerScope(n)
         /\ localScopes[InnerScope(n)][n] \in Contents
         /\ OuterDepth(n) \in Nat
<1>1. /\ Depth \in Nat /\ DOMAIN localScopes = 1 .. Depth
      /\ \A i \in 1 .. Depth : localScopes[i] \in Scope
  BY TypeFacts
<1>2. Scopes(n) \subseteq 0 .. Depth
  BY <1>1 DEF Scopes
<1>3. \E i \in Scopes(n) : \A j \in Scopes(n) : j <= i
  BY <1>1, <1>2, Largest
<1>4. InnerScope(n) \in Scopes(n) /\ \A j \in Scopes(n) : j <= InnerScope(n)
  BY <1>3 DEF InnerScope
<1>5. InnerScope(n) \in 1 .. Depth /\ localScopes[InnerScope(n)][n] # NoCell
  BY <1>1, <1>4 DEF Scopes
<1>6. localScopes[InnerScope(n)][n] \in Contents \cup {NoCell}
  BY <1>1, <1>5 DEF Scope
<1>7. OuterDepth(n) \in Nat
  <2> DEFINE outer == Scopes(n) \ {InnerScope(n)}
  <2>1. CASE outer = {}
    BY <2>1 DEF OuterDepth
  <2>2. CASE outer # {}
    <3>1. outer \subseteq 0 .. Depth
      BY <1>2
    <3>2. OuterDepth(n) = CHOOSE i \in outer : \A j \in outer : j <= i
      BY <2>2 DEF OuterDepth
    <3> HIDE DEF outer
    <3>3. \E i \in outer : \A j \in outer : j <= i
      BY <3>1, <2>2, <1>1, Largest
    <3>4. OuterDepth(n) \in outer
      BY <3>2, <3>3
    <3>5. OuterDepth(n) \in 0 .. Depth
      BY <3>1, <3>4
    <3> QED  BY <3>5, <1>1
  <2> QED  BY <2>1, <2>2
<1> QED
  BY <1>4, <1>5, <1>6, <1>7

LEMMA HiddenType ==
  ASSUME TypeOK, NEW n \in Names
  PROVE  Hidden(n) \in Contents /\ env[n] \in Contents
  BY BindingFacts DEF Hidden, TypeOK

\* What a command on name n does to the shell: it keeps the types and the books, and
\* changes values and scopes of n only.
Column(n) ==
  /\ env' \in [Names -> Contents]
  /\ localScopes' \in Seq(Scope) /\ Len(localScopes') = Len(localScopes)
  /\ \A m \in Names \ {n} :
       /\ env'[m] = env[m]
       /\ \A i \in 1 .. Depth : localScopes'[i][m] = localScopes[i][m]

Books(n) ==
  /\ localVarDepth' \in [Names -> Nat]
  /\ localVarStack' \in [Names -> Seq(Cell) \cup {NoCell}]
  /\ fullyUnsetLocals' \in [Names -> Nat \cup {NoCell}]
  /\ BooksFit(localVarStack', fullyUnsetLocals', Depth)

Bindings(n) ==
  /\ tempEnvBindings' \in Seq(Scope)
  /\ DOMAIN tempEnvBindings' = DOMAIN tempEnvBindings
  /\ \A i \in DOMAIN tempEnvBindings : \A m \in Names :
       tempEnvBindings'[i][m] \in {tempEnvBindings[i][m], NoCell}

\* The three ways in which it may touch the cells of n.
Writes(n) == localScopes' = localScopes

Declares(n) ==
  /\ Depth > 0 /\ ~InPiece /\ localScopes[Depth][n] = NoCell
  /\ localScopes' = [localScopes EXCEPT ![Depth][n] = env[n]]

Drops(n) ==
  /\ ~InAnyPiece /\ Scopes(n) # {}
  /\ localScopes' = [localScopes EXCEPT ![InnerScope(n)][n] = NoCell]
  /\ env'[n] = localScopes[InnerScope(n)][n]

Sound(n) ==
  /\ Column(n) /\ Books(n) /\ Bindings(n) /\ touched' \subseteq Names
  /\ n \in plain /\ ~Bound(n) => Writes(n) \/ Declares(n) \/ Drops(n)

LEMMA SetColumn ==
  ASSUME TypeOK, NEW n \in Names, NEW v \in Contents,
         env' = [env EXCEPT ![n] = v], UNCHANGED localScopes
  PROVE  Column(n) /\ Writes(n)
  BY DEF TypeOK, Column, Writes

LEMMA KeptBindings ==
  ASSUME TypeOK, NEW n \in Names, UNCHANGED tempEnvBindings
  PROVE  Bindings(n)
  BY DEF TypeOK, Bindings

LEMMA KeptBooks ==
  ASSUME TypeOK, BooksFit(localVarStack, fullyUnsetLocals, Depth), NEW n \in Names,
         localVarDepth' \in [Names -> Nat], UNCHANGED <<localVarStack, fullyUnsetLocals>>
  PROVE  Books(n)
  BY DEF TypeOK, Books

\* The cells of one name change.
LEMMA NewCells ==
  ASSUME TypeOK, BooksFit(localVarStack, fullyUnsetLocals, Depth), NEW n \in Names,
         NEW c \in Seq(Cell) \cup {NoCell}, c # NoCell => Depth > 0 /\ Ordered(c, Depth),
         localVarStack' = [localVarStack EXCEPT ![n] = c],
         NEW u \in Nat \cup {NoCell}, u # NoCell => u < Depth,
         fullyUnsetLocals' = [fullyUnsetLocals EXCEPT ![n] = u],
         localVarDepth' \in [Names -> Nat]
  PROVE  Books(n)
<1>1. /\ localVarStack' \in [Names -> Seq(Cell) \cup {NoCell}]
      /\ fullyUnsetLocals' \in [Names -> Nat \cup {NoCell}]
  BY DEF TypeOK
<1>2. /\ localVarStack'[n] = c /\ fullyUnsetLocals'[n] = u
      /\ \A m \in Names : m # n => /\ localVarStack'[m] = localVarStack[m]
                                   /\ fullyUnsetLocals'[m] = fullyUnsetLocals[m]
  BY DEF TypeOK
<1>3. ASSUME NEW m \in Names
      PROVE  /\ localVarStack'[m] # NoCell => Depth > 0 /\ Ordered(localVarStack'[m], Depth)
             /\ fullyUnsetLocals'[m] # NoCell => fullyUnsetLocals'[m] < Depth
  <2>1. CASE m = n
    BY <2>1, <1>2
  <2>2. CASE m # n
    BY <2>2, <1>2 DEF BooksFit
  <2> QED  BY <2>1, <2>2
<1>4. BooksFit(localVarStack', fullyUnsetLocals', Depth)
  BY <1>3 DEF BooksFit
<1> QED
  BY <1>1, <1>4 DEF Books

LEMMA SoundAssign ==
  ASSUME TypeOK, BooksFit(localVarStack, fullyUnsetLocals, Depth),
         NEW n \in Names, NEW v \in Values, Assign(n, v)
  PROVE  Sound(n)
<1>1. Column(n) /\ Writes(n)
  <2>1. v \in Contents /\ env' = [env EXCEPT ![n] = v] /\ UNCHANGED localScopes
    BY DEF Assign, Contents, books
  <2> QED  BY <2>1, SetColumn
<1>2. Books(n)
  <2>1. UNCHANGED <<localVarDepth, localVarStack, fullyUnsetLocals>>
    BY DEF Assign, books
  <2> QED  BY <2>1, KeptBooks DEF TypeOK
<1>3. Bindings(n)
  BY KeptBindings DEF Assign
<1>4. touched' \subseteq Names
  BY DEF Assign, TypeOK
<1> QED
  BY <1>1, <1>2, <1>3, <1>4 DEF Sound

LEMMA SoundRead ==
  ASSUME TypeOK, BooksFit(localVarStack, fullyUnsetLocals, Depth),
         NEW n \in Names, Read(n)
  PROVE  Sound(n)
<1>0. UNCHANGED <<env, localScopes, localVarDepth, localVarStack, fullyUnsetLocals,
                  tempEnvBindings>>
  BY DEF Read, books
<1>1. Column(n) /\ Writes(n)
  BY <1>0 DEF TypeOK, Column, Writes
<1>2. Books(n)
  BY <1>0, KeptBooks DEF TypeOK
<1>3. Bindings(n)
  BY <1>0, KeptBindings
<1>4. touched' \subseteq Names
  BY DEF Read, TypeOK
<1> QED
  BY <1>1, <1>2, <1>3, <1>4 DEF Sound

\* The scope of the call that declares.
LEMMA Declaring ==
  ASSUME TypeOK, NEW n \in Names, Depth > 0, NEW v \in Contents,
         env' = [env EXCEPT ![n] = v] \/ env' = env, localScopes' = Declared(n)
  PROVE  /\ Column(n)
         /\ n \in plain /\ ~Bound(n) /\ MayDeclare(n) => Writes(n) \/ Declares(n)
<1>1. /\ Depth \in Nat /\ DOMAIN localScopes = 1 .. Depth
      /\ \A i \in 1 .. Depth : localScopes[i] \in Scope
  BY TypeFacts
<1>2. Hidden(n) \in Contents
  BY HiddenType
<1>3. Depth \in 1 .. Depth
  BY <1>1
<1>4. env' \in [Names -> Contents] /\ \A m \in Names \ {n} : env'[m] = env[m]
  BY DEF TypeOK
<1>5. CASE localScopes[Depth][n] # NoCell
  <2>1. localScopes' = localScopes
    BY <1>5 DEF Declared
  <2> QED  BY <2>1, <1>4 DEF Column, Writes, TypeOK
<1>6. CASE localScopes[Depth][n] = NoCell
  <2>1. localScopes' = [localScopes EXCEPT ![Depth] = [localScopes[Depth] EXCEPT ![n] = Hidden(n)]]
    BY <1>6 DEF Declared
  <2>2. [localScopes[Depth] EXCEPT ![n] = Hidden(n)] \in Scope
    BY <1>1, <1>2, <1>3 DEF Scope
  <2>3. /\ localScopes' \in Seq(Scope) /\ Len(localScopes') = Len(localScopes)
        /\ \A i \in 1 .. Len(localScopes) : localScopes'[i] =
             IF i = Depth THEN [localScopes[Depth] EXCEPT ![n] = Hidden(n)]
             ELSE localScopes[i]
    <3>1. Depth \in 1 .. Len(localScopes) /\ localScopes \in Seq(Scope)
      BY <1>3 DEF Depth, TypeOK
    <3> QED  BY <2>1, <2>2, <3>1, ExceptSeq
  <2>4. \A m \in Names \ {n} : \A i \in 1 .. Depth : localScopes'[i][m] = localScopes[i][m]
    <3>1. \A m \in Names \ {n} :
            [localScopes[Depth] EXCEPT ![n] = Hidden(n)][m] = localScopes[Depth][m]
      BY <1>1, <1>3 DEF Scope
    <3> QED  BY <2>3, <3>1 DEF Depth
  <2>5. n \in plain /\ ~Bound(n) /\ MayDeclare(n) => Declares(n)
    <3>1. ~Bound(n) => Hidden(n) = env[n]
      BY DEF Hidden
    <3> QED  BY <3>1, <1>6, <2>1 DEF MayDeclare, Declares
  <2> QED  BY <1>4, <2>3, <2>4, <2>5 DEF Column
<1> QED
  BY <1>5, <1>6

LEMMA SoundLocal ==
  ASSUME TypeOK, BooksFit(localVarStack, fullyUnsetLocals, Depth),
         NEW n \in Names, NEW v \in Values, Local(n, v)
  PROVE  Sound(n)
<1>0. /\ Depth \in Nat /\ Depth > 0 /\ MayDeclare(n)
      /\ UNCHANGED <<fullyUnsetLocals, tempEnvBindings, touched>>
  BY TypeFacts DEF Local, MayDeclare, temps
<1>1. Column(n) /\ (n \in plain /\ ~Bound(n) => Writes(n) \/ Declares(n))
  <2>1. v \in Contents /\ env' = [env EXCEPT ![n] = v] /\ localScopes' = Declared(n)
    BY DEF Local, Contents
  <2> QED  BY <2>1, <1>0, Declaring
<1>2. Books(n)
  <2> DEFINE w == IF n \in touched THEN env[n] ELSE Hidden(n)
             s == IF HasStack(n) THEN localVarStack[n] ELSE <<>>
             c == Append(s, [value |-> w, scopeIndex |-> Depth - 1])
  <2>1. w \in Contents
    BY HiddenType
  <2>2. s \in Seq(Cell) /\ Ordered(s, Depth)
    BY OrderedEmpty, EmptySeq DEF TypeOK, HasStack, BooksFit
  <2>3. localVarStack' = [localVarStack EXCEPT ![n] = c]
    BY DEF Local, Pushed
  <2> HIDE DEF w, s
  <2>4. c \in Seq(Cell) /\ Ordered(c, Depth)
    BY <2>1, <2>2, <1>0, OrderedAppend
  <2> HIDE DEF c
  <2>5. localVarDepth' \in [Names -> Nat]
    BY <1>0 DEF Local, TypeOK
  <2> DEFINE u == fullyUnsetLocals[n]
  <2>6. /\ u \in Nat \cup {NoCell} /\ (u # NoCell => u < Depth)
        /\ fullyUnsetLocals' = [fullyUnsetLocals EXCEPT ![n] = u]
    BY <1>0 DEF TypeOK, BooksFit
  <2> HIDE DEF u
  <2> QED  BY <2>3, <2>4, <2>5, <2>6, <1>0, NewCells
<1>3. Bindings(n)
  BY <1>0, KeptBindings
<1>4. touched' \subseteq Names
  BY <1>0 DEF TypeOK
<1> QED
  BY <1>1, <1>2, <1>3, <1>4 DEF Sound

LEMMA SoundLocalBare ==
  ASSUME TypeOK, BooksFit(localVarStack, fullyUnsetLocals, Depth),
         NEW n \in Names, LocalBare(n)
  PROVE  Sound(n)
<1>0. /\ Depth \in Nat /\ Depth > 0 /\ MayDeclare(n)
      /\ UNCHANGED <<localVarStack, fullyUnsetLocals, tempEnvBindings, touched>>
  BY TypeFacts DEF LocalBare, MayDeclare, temps
<1>1. Column(n) /\ (n \in plain /\ ~Bound(n) => Writes(n) \/ Declares(n))
  <2>1. /\ Unset \in Contents /\ localScopes' = Declared(n)
        /\ env' = [env EXCEPT ![n] = Unset] \/ env' = env
    BY DEF LocalBare, Contents
  <2> QED  BY <2>1, <1>0, Declaring
<1>2. Books(n)
  <2>1. localVarDepth' \in [Names -> Nat]
    BY <1>0 DEF LocalBare, TypeOK
  <2> QED  BY <2>1, <1>0, KeptBooks
<1>3. Bindings(n)
  BY <1>0, KeptBindings
<1>4. touched' \subseteq Names
  BY <1>0 DEF TypeOK
<1> QED
  BY <1>1, <1>2, <1>3, <1>4 DEF Sound

\* The value below a prefix assignment comes back.
LEMMA Revealing ==
  ASSUME TypeOK, NEW n \in Names, Bound(n), Revealed(n), UNCHANGED localScopes
  PROVE  Column(n) /\ Writes(n) /\ Bindings(n)
<1> DEFINE b == InnerBinding(n)
<1>1. b \in DOMAIN tempEnvBindings /\ Underlying(n) \in Contents
  BY BindingFacts
<1>2. /\ Len(tempEnvBindings) \in Nat
      /\ DOMAIN tempEnvBindings = 1 .. Len(tempEnvBindings)
      /\ \A i \in DOMAIN tempEnvBindings : tempEnvBindings[i] \in Scope
      /\ tempEnvBindings \in Seq(Scope)
  BY TypeFacts DEF TypeOK
<1>3. Column(n) /\ Writes(n)
  <2>1. env' = [env EXCEPT ![n] = Underlying(n)]
    BY DEF Revealed
  <2> QED  BY <2>1, <1>1, SetColumn
<1> DEFINE e == [tempEnvBindings[b] EXCEPT ![n] = NoCell]
<1>4. tempEnvBindings' = [tempEnvBindings EXCEPT ![b] = e]
  BY DEF Revealed
<1>5. e \in Scope /\ \A m \in Names : e[m] \in {tempEnvBindings[b][m], NoCell}
  BY <1>1, <1>2 DEF Scope
<1> HIDE DEF b, e
<1>6. /\ tempEnvBindings' \in Seq(Scope)
      /\ Len(tempEnvBindings') = Len(tempEnvBindings)
      /\ \A i \in 1 .. Len(tempEnvBindings) :
           tempEnvBindings'[i] = IF i = b THEN e ELSE tempEnvBindings[i]
  BY <1>1, <1>2, <1>4, <1>5, ExceptSeq
<1>7. DOMAIN tempEnvBindings' = DOMAIN tempEnvBindings
  BY <1>4
<1>8. Bindings(n)
  BY <1>2, <1>5, <1>6, <1>7 DEF Bindings
<1> QED
  BY <1>3, <1>8

LEMMA SoundPopCell ==
  ASSUME TypeOK, BooksFit(localVarStack, fullyUnsetLocals, Depth), NEW n \in Names,
         HasStack(n), localVarStack[n] # <<>>, PopCell(n), UNCHANGED localScopes
  PROVE  Column(n) /\ Writes(n) /\ Bindings(n) /\ Books(n)
<1> DEFINE s == localVarStack[n]
           entry == Last(s)
           rest == Front(s)
<1>1. s \in Seq(Cell) /\ Depth > 0 /\ Ordered(s, Depth)
  BY DEF TypeOK, HasStack, BooksFit
<1>2. rest \in Seq(Cell) /\ Ordered(rest, Depth) /\ entry \in Cell
  BY <1>1, OrderedFront
<1>3. entry.value \in Contents /\ entry.scopeIndex \in Nat
  BY <1>2 DEF Cell
<1>4. entry.scopeIndex < Depth
  <2>1. Len(s) \in DOMAIN s
    BY <1>1, EmptySeq, LenProperties
  <2> QED  BY <2>1, <1>1 DEF Ordered, Last
<1> DEFINE u == fullyUnsetLocals[n]
<1>5. u \in Nat \cup {NoCell} /\ (u # NoCell => u < Depth)
  BY DEF TypeOK, BooksFit
<1>6. CASE rest # <<>>
  <2>1. /\ env' = [env EXCEPT ![n] = entry.value]
        /\ localVarStack' = [localVarStack EXCEPT ![n] = rest]
        /\ localVarDepth' = [localVarDepth EXCEPT ![n] = Last(rest).scopeIndex + 1]
        /\ UNCHANGED <<fullyUnsetLocals, tempEnvBindings>>
    BY <1>6 DEF PopCell
  <2>2. Last(rest).scopeIndex \in Nat
    <3>1. Last(rest) \in Cell
      BY <1>2, <1>6, FrontLast
    <3> QED  BY <3>1 DEF Cell
  <2>3. localVarDepth' \in [Names -> Nat]
    BY <2>1, <2>2 DEF TypeOK
  <2>4. fullyUnsetLocals' = [fullyUnsetLocals EXCEPT ![n] = u]
    BY <2>1 DEF TypeOK
  <2> HIDE DEF u, rest, entry
  <2>5. Books(n)
    BY <1>1, <1>2, <1>5, <2>1, <2>3, <2>4, NewCells
  <2> QED  BY <1>3, <2>1, <2>5, SetColumn, KeptBindings
<1>7. CASE rest = <<>>
  <2>1. /\ localVarStack' = [localVarStack EXCEPT ![n] = NoCell]
        /\ localVarDepth' = [localVarDepth EXCEPT ![n] = 0]
        /\ fullyUnsetLocals' = [fullyUnsetLocals EXCEPT ![n] = entry.scopeIndex]
        /\ IF Bound(n) THEN Revealed(n)
           ELSE /\ env' = [env EXCEPT ![n] = entry.value]
                /\ UNCHANGED tempEnvBindings
    BY <1>7 DEF PopCell
  <2>2. localVarDepth' \in [Names -> Nat]
    BY <2>1 DEF TypeOK
  <2> HIDE DEF entry
  <2>3. Books(n)
    BY <1>3, <1>4, <2>1, <2>2, NewCells
  <2>4. Column(n) /\ Writes(n) /\ Bindings(n)
    BY <2>1, <1>3, Revealing, SetColumn, KeptBindings
  <2> QED  BY <2>3, <2>4
<1> QED
  BY <1>6, <1>7

LEMMA SoundNoMoreCells ==
  ASSUME TypeOK, BooksFit(localVarStack, fullyUnsetLocals, Depth), NEW n \in Names,
         HasStack(n), NoMoreCells(n), UNCHANGED localScopes
  PROVE  Column(n) /\ Writes(n) /\ Bindings(n) /\ Books(n)
<1>1. Depth > 0 /\ Unset \in Contents
  BY DEF HasStack, BooksFit, Contents
<1>2. Column(n) /\ Writes(n) /\ Bindings(n)
  <2>1. env' = [env EXCEPT ![n] = Unset] /\ UNCHANGED tempEnvBindings
    BY DEF NoMoreCells, Deleted
  <2> QED  BY <1>1, <2>1, SetColumn, KeptBindings
<1>3. localVarDepth' \in [Names -> Nat]
  BY DEF NoMoreCells, TypeOK
<1>4. Books(n)
  <2>1. /\ localVarStack' = [localVarStack EXCEPT ![n] = NoCell]
        /\ fullyUnsetLocals' = [fullyUnsetLocals EXCEPT ![n] = 0]
    BY DEF NoMoreCells
  <2> QED  BY <1>1, <1>3, <2>1, NewCells
<1> QED
  BY <1>2, <1>4

LEMMA SoundDropFromScope ==
  ASSUME TypeOK, BooksFit(localVarStack, fullyUnsetLocals, Depth), NEW n \in Names,
         DropFromScope(n)
  PROVE  /\ Column(n) /\ Bindings(n) /\ Books(n)
         /\ Writes(n) \/ (~InAnyPiece => Drops(n))
<1>0. UNCHANGED <<localVarStack, fullyUnsetLocals, tempEnvBindings>>
  BY DEF DropFromScope
<1>1. CASE Scopes(n) = {}
  <2>1. UNCHANGED <<env, localScopes, localVarDepth>>
    BY <1>1 DEF DropFromScope
  <2>2. Column(n) /\ Writes(n)
    BY <2>1 DEF TypeOK, Column, Writes
  <2> QED  BY <1>0, <2>1, <2>2, KeptBooks, KeptBindings DEF TypeOK
<1>2. CASE Scopes(n) # {}
  <2> DEFINE p == InnerScope(n)
             t == [localScopes[p] EXCEPT ![n] = NoCell]
  <2>1. /\ p \in 1 .. Depth /\ localScopes[p][n] \in Contents /\ OuterDepth(n) \in Nat
    BY <1>2, ScopeFacts
  <2>2. /\ env' = [env EXCEPT ![n] = localScopes[p][n]]
        /\ localScopes' = [localScopes EXCEPT ![p][n] = NoCell]
        /\ localVarDepth' = [localVarDepth EXCEPT ![n] = OuterDepth(n)]
    BY <1>2 DEF DropFromScope
  <2>3. t \in Scope /\ \A m \in Names \ {n} : t[m] = localScopes[p][m]
    BY <2>1, TypeFacts DEF Scope
  <2>4. localScopes' = [localScopes EXCEPT ![p] = t]
    BY <2>2
  <2>5. Drops(n) \/ InAnyPiece
    BY <1>2, <2>1, <2>2 DEF Drops, TypeOK
  <2> HIDE DEF p, t
  <2>6. /\ localScopes' \in Seq(Scope) /\ Len(localScopes') = Len(localScopes)
        /\ \A i \in 1 .. Len(localScopes) : localScopes'[i] = IF i = p THEN t ELSE localScopes[i]
    <3>1. p \in 1 .. Len(localScopes) /\ localScopes \in Seq(Scope)
      BY <2>1 DEF Depth, TypeOK
    <3> QED  BY <2>3, <2>4, <3>1, ExceptSeq
  <2>7. Column(n)
    <3>1. env' \in [Names -> Contents] /\ \A m \in Names \ {n} : env'[m] = env[m]
      BY <2>1, <2>2 DEF TypeOK
    <3>2. \A m \in Names \ {n} : \A i \in 1 .. Depth : localScopes'[i][m] = localScopes[i][m]
      BY <2>3, <2>6 DEF Depth
    <3> QED  BY <2>6, <3>1, <3>2 DEF Column
  <2>8. localVarDepth' \in [Names -> Nat]
    BY <2>1, <2>2 DEF TypeOK
  <2> QED  BY <1>0, <2>5, <2>7, <2>8, KeptBooks, KeptBindings
<1> QED
  BY <1>1, <1>2

LEMMA SoundValueUnset ==
  ASSUME TypeOK, BooksFit(localVarStack, fullyUnsetLocals, Depth), NEW n \in Names,
         ValueUnset(n)
  PROVE  Column(n) /\ Writes(n) /\ Bindings(n) /\ Books(n)
<1>0. UNCHANGED <<localScopes, localVarDepth, fullyUnsetLocals, tempEnvBindings>>
  BY DEF ValueUnset
<1>1. CASE n \in touched /\ HasStack(n) /\ localVarStack[n] # <<>>
  <2> DEFINE s == localVarStack[n]
  <2>1. s \in Seq(Cell) /\ s # <<>> /\ Depth > 0 /\ Ordered(s, Depth)
    BY <1>1 DEF TypeOK, HasStack, BooksFit
  <2>2. Front(s) \in Seq(Cell) /\ Ordered(Front(s), Depth) /\ Last(s) \in Cell
    BY <2>1, OrderedFront
  <2>3. Last(s).value \in Contents
    BY <2>2 DEF Cell
  <2>4. /\ env' = [env EXCEPT ![n] = Last(s).value]
        /\ localVarStack' = [localVarStack EXCEPT ![n] = Front(s)]
    BY <1>1 DEF ValueUnset
  <2> DEFINE u == fullyUnsetLocals[n]
  <2>5. /\ u \in Nat \cup {NoCell} /\ (u # NoCell => u < Depth)
        /\ fullyUnsetLocals' = [fullyUnsetLocals EXCEPT ![n] = u]
    BY <1>0 DEF TypeOK, BooksFit
  <2>6. localVarDepth' \in [Names -> Nat]
    BY <1>0 DEF TypeOK
  <2> HIDE DEF u, s
  <2>7. Books(n)
    BY <2>1, <2>2, <2>4, <2>5, <2>6, NewCells
  <2> QED  BY <1>0, <2>3, <2>4, <2>7, SetColumn, KeptBindings
<1>2. CASE ~(n \in touched /\ HasStack(n) /\ localVarStack[n] # <<>>)
  <2>1. env' = [env EXCEPT ![n] = Unset] /\ UNCHANGED localVarStack /\ Unset \in Contents
    BY <1>2 DEF ValueUnset, Deleted, Contents
  <2> QED  BY <1>0, <2>1, SetColumn, KeptBindings, KeptBooks DEF TypeOK
<1> QED
  BY <1>1, <1>2

LEMMA SoundUnset ==
  ASSUME TypeOK, BooksFit(localVarStack, fullyUnsetLocals, Depth),
         NEW n \in Names, UnsetVar(n)
  PROVE  Sound(n)
<1>0. touched' \subseteq Names /\ (n \in plain => ~InAnyPiece)
  BY DEF UnsetVar, TypeOK
<1>1. ASSUME env' = Deleted(n), UNCHANGED <<books, tempEnvBindings>>
      PROVE  Column(n) /\ Writes(n) /\ Bindings(n) /\ Books(n)
  <2>1. /\ env' = [env EXCEPT ![n] = Unset] /\ Unset \in Contents
        /\ UNCHANGED <<localScopes, localVarDepth, localVarStack, fullyUnsetLocals,
                       tempEnvBindings>>
    BY <1>1 DEF Deleted, Contents, books
  <2> QED  BY <2>1, SetColumn, KeptBindings, KeptBooks DEF TypeOK
<1>2. CASE Dynamic(n)
  <2>1. CellUnset(n)
    BY <1>2 DEF UnsetVar
  <2>2. CASE HasStack(n) /\ localVarStack[n] # <<>>
    BY <2>1, <2>2, <1>0, SoundPopCell DEF CellUnset, Sound
  <2>3. CASE HasStack(n) /\ localVarStack[n] = <<>>
    BY <2>1, <2>3, <1>0, SoundNoMoreCells DEF CellUnset, Sound
  <2>4. CASE ~HasStack(n)
    BY <2>1, <2>4, <1>0, SoundDropFromScope DEF CellUnset, Sound
  <2> QED  BY <2>2, <2>3, <2>4
<1>3. CASE ~Dynamic(n)
  <2>1. CASE fullyUnsetLocals[n] # NoCell
    BY <2>1, <1>0, <1>1, <1>3 DEF UnsetVar, Sound
  <2>2. CASE fullyUnsetLocals[n] = NoCell /\ localVarDepth[n] # 0
    BY <2>2, <1>0, <1>3, SoundValueUnset DEF UnsetVar, Sound
  <2>3. CASE fullyUnsetLocals[n] = NoCell /\ localVarDepth[n] = 0 /\ Bound(n)
    <3>1. /\ Revealed(n)
          /\ UNCHANGED <<localScopes, localVarDepth, localVarStack, fullyUnsetLocals>>
      BY <2>3, <1>3 DEF UnsetVar, books
    <3>2. Books(n)
      BY <3>1, KeptBooks DEF TypeOK
    <3> QED  BY <2>3, <3>1, <3>2, <1>0, Revealing DEF Sound
  <2>4. CASE fullyUnsetLocals[n] = NoCell /\ localVarDepth[n] = 0 /\ ~Bound(n)
    BY <2>4, <1>0, <1>1, <1>3 DEF UnsetVar, Sound
  <2> QED  BY <2>1, <2>2, <2>3, <2>4
<1> QED
  BY <1>2, <1>3

LEMMA CommandsAreSound ==
  ASSUME TypeOK, BooksFit(localVarStack, fullyUnsetLocals, Depth),
         NEW n \in Names, Command(n)
  PROVE  Sound(n) /\ UNCHANGED <<frames, thrown, plain>>
<1>1. ASSUME NEW v \in Values, Assign(n, v) \/ Local(n, v)
      PROVE  Sound(n)
  BY <1>1, SoundAssign, SoundLocal
<1>2. ASSUME LocalBare(n) \/ UnsetVar(n) \/ Read(n)
      PROVE  Sound(n)
  BY <1>2, SoundLocalBare, SoundUnset, SoundRead
<1> QED
  BY <1>1, <1>2 DEF Command

-----------------------------------------------------------------------------
(* What the frames say of the scopes *)

LEMMA SavedFitPushed ==
  ASSUME NEW S, NEW fs \in Seq(S), NEW x \in S, SavedFit(fs),
         x.kind = "subshell" => BooksFit(x.stack, x.fully, Len(x.scopes))
  PROVE  SavedFit(Append(fs, x))
<1> DEFINE g == Append(fs, x)
<1>1. /\ Extends(g, fs) /\ g[Len(fs) + 1] = x
      /\ Len(fs) \in Nat /\ DOMAIN fs = 1 .. Len(fs) /\ DOMAIN g = 1 .. Len(g)
  BY Pushing, LenProperties
<1> HIDE DEF g
<1>2. ASSUME NEW i \in DOMAIN g
      PROVE  (i \in DOMAIN fs /\ g[i] = fs[i]) \/ g[i] = x
  BY <1>1 DEF Extends
<1>3. SavedFit(g)
  BY <1>2 DEF SavedFit
<1> QED
  BY <1>3 DEF g

LEMMA SavedFitPopped ==
  ASSUME NEW S, NEW fs \in Seq(S), fs # <<>>, SavedFit(fs)
  PROVE  /\ SavedFit(Front(fs))
         /\ Last(fs).kind = "subshell" =>
              BooksFit(Last(fs).stack, Last(fs).fully, Len(Last(fs).scopes))
<1> DEFINE f == Front(fs)
<1>1. /\ Extends(fs, f) /\ fs[Len(f) + 1] = Last(fs)
      /\ Len(f) \in Nat /\ DOMAIN f = 1 .. Len(f) /\ DOMAIN fs = 1 .. Len(fs)
  BY Popping, LenProperties
<1> HIDE DEF f
<1>2. /\ \A i \in DOMAIN f : i \in DOMAIN fs /\ f[i] = fs[i]
      /\ Len(f) + 1 \in DOMAIN fs
  BY <1>1 DEF Extends
<1>3. SavedFit(f)
  BY <1>2 DEF SavedFit
<1> QED
  BY <1>1, <1>2, <1>3 DEF SavedFit, f

LEMMA NoPrefixPushed ==
  ASSUME NEW S, NEW fs \in Seq(S), NEW x \in S, NEW p, NEW tb, NoPrefix(p, tb, fs),
         x.kind = "prefix" => x.name \notin p
  PROVE  NoPrefix(p, tb, Append(fs, x))
<1> DEFINE g == Append(fs, x)
<1>1. /\ Extends(g, fs) /\ g[Len(fs) + 1] = x
      /\ Len(fs) \in Nat /\ DOMAIN fs = 1 .. Len(fs) /\ DOMAIN g = 1 .. Len(g)
  BY Pushing, LenProperties
<1> HIDE DEF g
<1>2. ASSUME NEW i \in DOMAIN g
      PROVE  (i \in DOMAIN fs /\ g[i] = fs[i]) \/ g[i] = x
  BY <1>1 DEF Extends
<1>3. NoPrefix(p, tb, g)
  BY <1>2 DEF NoPrefix
<1> QED
  BY <1>3 DEF g

LEMMA NoPrefixPopped ==
  ASSUME NEW S, NEW fs \in Seq(S), fs # <<>>, NEW p, NEW tb, NoPrefix(p, tb, fs)
  PROVE  /\ NoPrefix(p, tb, Front(fs))
         /\ Last(fs).kind = "prefix" => Last(fs).name \notin p
<1> DEFINE f == Front(fs)
<1>1. /\ Extends(fs, f) /\ fs[Len(f) + 1] = Last(fs)
      /\ Len(f) \in Nat /\ DOMAIN f = 1 .. Len(f) /\ DOMAIN fs = 1 .. Len(fs)
  BY Popping, LenProperties
<1> HIDE DEF f
<1>2. /\ \A i \in DOMAIN f : i \in DOMAIN fs /\ f[i] = fs[i]
      /\ Len(f) + 1 \in DOMAIN fs
  BY <1>1 DEF Extends
<1>3. NoPrefix(p, tb, f)
  BY <1>2 DEF NoPrefix
<1> QED
  BY <1>1, <1>2, <1>3 DEF NoPrefix, f

LEMMA KeptPushed ==
  ASSUME NEW S, NEW fs \in Seq(S), NEW x \in S, NEW s, NEW p, Kept(fs, s, p),
         IsFork(x) => x.scopes = s
  PROVE  Kept(Append(fs, x), s, p)
<1> DEFINE g == Append(fs, x)
<1>1. /\ Extends(g, fs) /\ g[Len(fs) + 1] = x
      /\ Len(fs) \in Nat /\ DOMAIN fs = 1 .. Len(fs) /\ DOMAIN g = 1 .. Len(g)
  BY Pushing, LenProperties
<1> HIDE DEF g
<1>2. ASSUME NEW i \in DOMAIN g, i \notin DOMAIN fs
      PROVE  i = Len(fs) + 1 /\ g[i] = x
  BY <1>1, <1>2 DEF Extends
<1>3. \A i \in DOMAIN fs : g[i] = fs[i] /\ i \in Nat /\ i <= Len(fs)
  BY <1>1 DEF Extends
<1>4. ASSUME NEW i \in DOMAIN g, g[i].kind = "piece"
      PROVE  Holds(s, g[i], p)
  <2>1. CASE i \in DOMAIN fs
    BY <2>1, <1>3, <1>4 DEF Kept
  <2>2. CASE i \notin DOMAIN fs
    <3>1. g[i].scopes = s
      BY <2>2, <1>2, <1>4 DEF IsFork
    <3> QED  BY <3>1 DEF Holds
  <2> QED  BY <2>1, <2>2
<1>5. ASSUME NEW i \in DOMAIN g, g[i].kind = "piece",
             NEW k \in DOMAIN g, k > i, g[k].kind = "subshell"
      PROVE  Holds(g[k].scopes, g[i], p)
  <2>1. CASE k \in DOMAIN fs
    <3>1. i \in DOMAIN fs
      <4>1. i \in 1 .. Len(g) /\ k <= Len(fs) /\ k \in Nat
        BY <2>1, <1>1, <1>3
      <4> QED  BY <4>1, <1>1, <1>5
    <3> QED  BY <2>1, <3>1, <1>3, <1>5 DEF Kept
  <2>2. CASE k \notin DOMAIN fs
    <3>1. g[k].scopes = s
      BY <2>2, <1>2, <1>5 DEF IsFork
    <3> QED  BY <3>1, <1>4, <1>5
  <2> QED  BY <2>1, <2>2
<1>6. Kept(g, s, p)
  BY <1>4, <1>5 DEF Kept
<1> QED
  BY <1>6 DEF g

LEMMA KeptPopped ==
  ASSUME NEW S, NEW fs \in Seq(S), fs # <<>>, NEW s, NEW p, Kept(fs, s, p)
  PROVE  /\ Kept(Front(fs), s, p)
         /\ Last(fs).kind = "subshell" => Kept(Front(fs), Last(fs).scopes, p)
         /\ Last(fs).kind = "piece" => Holds(s, Last(fs), p)
<1> DEFINE f == Front(fs)
           x == Last(fs)
<1>1. /\ Extends(fs, f) /\ fs[Len(f) + 1] = x
      /\ Len(f) \in Nat /\ DOMAIN f = 1 .. Len(f) /\ DOMAIN fs = 1 .. Len(fs)
  BY Popping, LenProperties
<1> HIDE DEF f, x
<1>2. /\ \A i \in DOMAIN f : i \in DOMAIN fs /\ f[i] = fs[i] /\ Len(f) + 1 > i
      /\ Len(f) + 1 \in DOMAIN fs
  BY <1>1 DEF Extends
<1>3. Kept(f, s, p)
  BY <1>2 DEF Kept
<1>4. x.kind = "piece" => Holds(s, x, p)
  BY <1>1, <1>2 DEF Kept
<1>5. ASSUME x.kind = "subshell"
      PROVE  Kept(f, x.scopes, p)
  <2>1. \A i \in DOMAIN f : f[i].kind = "piece" => Holds(x.scopes, f[i], p)
    BY <1>1, <1>2, <1>5 DEF Kept
  <2> QED  BY <2>1, <1>3 DEF Kept
<1> QED
  BY <1>3, <1>4, <1>5 DEF f, x

\* The scopes change above those of every piece only, or for other names only.
LEMMA KeptChanged ==
  ASSUME NEW fs, NEW s, NEW t, NEW p, Kept(fs, s, p),
         \A i \in DOMAIN fs : fs[i].kind = "piece" =>
           \A d \in 1 .. Len(fs[i].scopes) : \A n \in p : t[d][n] = s[d][n]
  PROVE  Kept(fs, t, p)
<1>1. ASSUME NEW i \in DOMAIN fs, fs[i].kind = "piece"
      PROVE  Holds(t, fs[i], p)
  <2>1. Holds(s, fs[i], p)
    BY <1>1 DEF Kept
  <2> QED  BY <2>1, <1>1 DEF Holds
<1> QED
  BY <1>1 DEF Kept

LEMMA PieceDepth ==
  ASSUME NEW S, NEW fs \in Seq(S), NEW d, Heights(fs, d),
         NEW i \in DOMAIN fs, fs[i].kind = "piece"
  PROVE  /\ Len(fs[i].scopes) \in Nat /\ Len(fs[i].scopes) <= d /\ d \in Nat
         /\ (\E j \in (i + 1) .. Len(fs) : fs[j].kind = "call") => Len(fs[i].scopes) < d
<1>1. Len(fs) \in Nat /\ i \in Nat /\ i <= Len(fs)
  BY LenProperties
<1>2. Len(fs[i].scopes) = Height(fs, i) /\ d = Height(fs, Len(fs))
  BY DEF Heights, IsFork
<1>3. /\ Height(fs, i) \in Nat /\ Height(fs, Len(fs)) \in Nat
      /\ Height(fs, i) <= Height(fs, Len(fs))
      /\ (\E j \in (i + 1) .. Len(fs) : fs[j].kind = "call")
           => Height(fs, i) < Height(fs, Len(fs))
  BY <1>1, HeightFacts
<1> QED
  BY <1>2, <1>3

-----------------------------------------------------------------------------
(* Each step keeps the invariant *)

LEMMA Initially == Init => IInv
<1> SUFFICES ASSUME Init PROVE IInv
  OBVIOUS
<1>1. frames = <<>> /\ localScopes = <<>> /\ tempEnvBindings = <<>> /\ Depth = 0
  BY DEF Init, Depth
<1>2. TypeOK
  <2>1. 0 \in Nat /\ <<>> \in Seq(Scope)
    OBVIOUS
  <2>2. localVarStack \in [Names -> Seq(Cell) \cup {NoCell}]
    BY DEF Init
  <2>3. fullyUnsetLocals \in [Names -> Nat \cup {NoCell}]
    BY DEF Init
  <2>4. localVarDepth \in [Names -> Nat]
    BY <2>1 DEF Init
  <2>5. \A i \in DOMAIN frames : frames[i].kind \in Kinds
    BY <1>1
  <2> QED  BY <1>1, <2>1, <2>2, <2>3, <2>4, <2>5 DEF Init, TypeOK
<1>3. frames \in Seq(Frame)
  BY <1>1
<1>4. BooksFit(localVarStack, fullyUnsetLocals, Depth)
  BY DEF Init, BooksFit
<1>5. SavedFit(frames) /\ NoPrefix(plain, tempEnvBindings, frames)
  BY <1>1 DEF SavedFit, NoPrefix
<1>6. Kept(frames, localScopes, plain)
  BY <1>1 DEF Kept
<1>7. Heights(frames, Depth)
  <2>1. CallsTo(frames, 0) = {}
    BY DEF CallsTo
  <2>2. Height(frames, 0) = 0
    BY <2>1, FS_EmptySet DEF Height
  <2> QED  BY <1>1, <2>2 DEF Heights
<1> QED
  BY <1>2, <1>3, <1>4, <1>5, <1>6, <1>7 DEF IInv

LEMMA NotBound ==
  ASSUME NoPrefix(plain, tempEnvBindings, frames), NEW n \in plain
  PROVE  ~Bound(n)
  BY DEF NoPrefix, Bound, Binding

LEMMA CommandKeeps ==
  ASSUME IInv, NEW n \in Names, Command(n)
  PROVE  IInv'
<1>0. /\ TypeOK /\ frames \in Seq(Frame) /\ Heights(frames, Depth)
      /\ BooksFit(localVarStack, fullyUnsetLocals, Depth)
      /\ NoPrefix(plain, tempEnvBindings, frames) /\ Kept(frames, localScopes, plain)
  BY DEF IInv
<1>1. Sound(n) /\ UNCHANGED <<frames, thrown, plain>>
  BY <1>0, CommandsAreSound
<1>2. Depth' = Depth
  BY <1>1 DEF Sound, Column, Depth
<1>3. TypeOK'
  BY <1>0, <1>1 DEF TypeOK, Sound, Column, Books, Bindings
<1>4. BooksFit(localVarStack, fullyUnsetLocals, Depth)'
  BY <1>1, <1>2 DEF Sound, Books
<1>5. NoPrefix(plain, tempEnvBindings, frames)'
  <2>1. plain \subseteq Names
    BY <1>0 DEF TypeOK
  <2>2. ASSUME NEW i \in DOMAIN tempEnvBindings', NEW m \in plain
        PROVE  tempEnvBindings'[i][m] = NoCell
    <3>1. i \in DOMAIN tempEnvBindings /\ m \in Names
      BY <1>1, <2>1 DEF Sound, Bindings
    <3>2. tempEnvBindings[i][m] = NoCell
      BY <1>0, <3>1 DEF NoPrefix
    <3> QED  BY <3>1, <3>2, <1>1 DEF Sound, Bindings
  <2> QED  BY <1>0, <1>1, <2>2 DEF NoPrefix
<1>6. Kept(frames, localScopes, plain)'
  <2>1. ASSUME NEW i \in DOMAIN frames, frames[i].kind = "piece",
               NEW d \in 1 .. Len(frames[i].scopes), NEW m \in plain
        PROVE  localScopes'[d][m] = localScopes[d][m]
    <3>0. /\ d \in 1 .. Depth /\ Depth \in Nat
          /\ (\E j \in (i + 1) .. Len(frames) : frames[j].kind = "call") => d < Depth
      <4>1. /\ Len(frames[i].scopes) \in Nat /\ Len(frames[i].scopes) <= Depth
            /\ Depth \in Nat
            /\ (\E j \in (i + 1) .. Len(frames) : frames[j].kind = "call")
                 => Len(frames[i].scopes) < Depth
        BY <1>0, <2>1, PieceDepth
      <4> HIDE DEF Depth
      <4> QED  BY <4>1
    <3>1. CASE m # n
      BY <3>0, <3>1, <1>0, <1>1 DEF Sound, Column, TypeOK
    <3>2. CASE m = n
      <4>1. Writes(n) \/ Declares(n) \/ Drops(n)
        BY <3>2, <1>0, <1>1, NotBound DEF Sound
      <4>2. CASE Writes(n)
        BY <4>2 DEF Writes
      <4>3. CASE Declares(n)
        <5>1. \E j \in (i + 1) .. Len(frames) : frames[j].kind = "call"
          BY <4>3, <2>1 DEF Declares, InPiece
        <5>2. d # Depth
          BY <5>1, <3>0
        <5>3. d \in DOMAIN localScopes
          BY <3>0, <1>0, TypeFacts
        <5> QED  BY <4>3, <5>2, <5>3 DEF Declares
      <4>4. CASE Drops(n)
        BY <4>4, <2>1 DEF Drops, InAnyPiece
      <4> QED  BY <4>1, <4>2, <4>3, <4>4
    <3> QED  BY <3>1, <3>2
  <2> QED  BY <1>0, <1>1, <2>1, KeptChanged
<1> QED
  BY <1>0, <1>1, <1>2, <1>3, <1>4, <1>5, <1>6 DEF IInv

\* The types of the frames.
LEMMA FrameTypes ==
  ASSUME NEW x \in Frame
  PROVE  /\ x.kind \in Kinds
         /\ x.kind = "prefix" => x \in PrefixFrame
         /\ x.kind = "subshell" => x \in SubshellFrame
         /\ x.kind = "piece" => x \in PieceFrame
  BY DEF Frame, CallFrame, PrefixFrame, SubshellFrame, PieceFrame, Kinds

LEMMA KindsTyped ==
  ASSUME NEW fs \in Seq(Frame)
  PROVE  \A i \in DOMAIN fs : fs[i].kind \in Kinds
<1> SUFFICES ASSUME NEW i \in DOMAIN fs PROVE fs[i].kind \in Kinds
  OBVIOUS
<1>1. fs[i] \in Frame
  BY LenProperties, ElementOfSeq
<1> QED
  BY <1>1, FrameTypes

\* A construct that keeps the scopes begins.
LEMMA PushKeeps ==
  ASSUME IInv, NEW x \in Frame, Push(x), UNCHANGED books,
         env' \in [Names -> Contents], tempEnvBindings' \in Seq(Scope),
         touched' = touched,
         NoPrefix(plain, tempEnvBindings', frames),
         x.kind # "call", IsFork(x) => x.scopes = localScopes,
         x.kind = "prefix" => x.name \notin plain,
         x.kind = "subshell" => x.stack = localVarStack /\ x.fully = fullyUnsetLocals
  PROVE  IInv'
<1>0. /\ TypeOK /\ frames \in Seq(Frame) /\ Heights(frames, Depth) /\ SavedFit(frames)
      /\ BooksFit(localVarStack, fullyUnsetLocals, Depth)
      /\ Kept(frames, localScopes, plain)
  BY DEF IInv
<1>1. /\ frames' = Append(frames, x) /\ UNCHANGED <<thrown, plain>>
      /\ UNCHANGED <<localScopes, localVarDepth, localVarStack, fullyUnsetLocals>>
      /\ Depth' = Depth /\ Depth \in Nat
  BY <1>0, TypeFacts DEF Push, books, Depth
<1>2. frames' \in Seq(Frame)
  BY <1>0, <1>1, Pushing
<1>3. TypeOK'
  <2>1. \A i \in DOMAIN frames' : frames'[i].kind \in Kinds
    BY <1>2, KindsTyped
  <2> QED  BY <1>0, <1>1, <2>1 DEF TypeOK
<1>4. Heights(frames, Depth)'
  <2>1. Heights(Append(frames, x), Depth + 0)
    BY <1>0, HeightsPushed DEF Depth
  <2> QED  BY <1>1, <2>1
<1>5. SavedFit(frames')
  BY <1>0, <1>1, SavedFitPushed DEF Depth, IsFork
<1>6. Kept(frames', localScopes', plain')
  BY <1>0, <1>1, KeptPushed
<1>7. NoPrefix(plain', tempEnvBindings', frames')
  BY <1>0, <1>1, NoPrefixPushed
<1>8. BooksFit(localVarStack', fullyUnsetLocals', Depth')
  BY <1>0, <1>1
<1> QED
  BY <1>2, <1>3, <1>4, <1>5, <1>6, <1>7, <1>8 DEF IInv

LEMMA SubshellKeeps ==
  ASSUME IInv, Subshell
  PROVE  IInv'
<1> DEFINE x == [kind |-> "subshell", env |-> env, scopes |-> localScopes,
                 depth |-> localVarDepth, stack |-> localVarStack,
                 fully |-> fullyUnsetLocals]
<1>1. x \in Frame
  BY DEF IInv, TypeOK, Frame, SubshellFrame
<1>2. Push(x) /\ UNCHANGED <<env, books, tempEnvBindings, touched>>
  BY DEF Subshell, temps
<1>3. /\ x.kind = "subshell" /\ x.scopes = localScopes
      /\ x.stack = localVarStack /\ x.fully = fullyUnsetLocals
  OBVIOUS
<1> HIDE DEF x
<1>4. /\ env' \in [Names -> Contents] /\ tempEnvBindings' \in Seq(Scope)
      /\ NoPrefix(plain, tempEnvBindings', frames)
  BY <1>2 DEF IInv, TypeOK
<1> QED
  BY <1>1, <1>2, <1>3, <1>4, PushKeeps

LEMMA PieceKeeps ==
  ASSUME IInv, Piece
  PROVE  IInv'
<1> DEFINE x == [kind |-> "piece", env |-> env, scopes |-> localScopes]
<1>1. x \in Frame
  BY DEF IInv, TypeOK, Frame, PieceFrame
<1>2. Push(x) /\ UNCHANGED <<env, books, tempEnvBindings, touched>>
  BY DEF Piece, temps
<1>3. x.kind = "piece" /\ x.scopes = localScopes
  OBVIOUS
<1> HIDE DEF x
<1>4. /\ env' \in [Names -> Contents] /\ tempEnvBindings' \in Seq(Scope)
      /\ NoPrefix(plain, tempEnvBindings', frames)
  BY <1>2 DEF IInv, TypeOK
<1> QED
  BY <1>1, <1>2, <1>3, <1>4, PushKeeps

LEMMA PrefixKeeps ==
  ASSUME IInv, NEW n \in Names, NEW v \in Values, Prefix(n, v)
  PROVE  IInv'
<1> DEFINE x == [kind |-> "prefix", name |-> n, value |-> env[n]]
           b == [NoScope EXCEPT ![n] = env[n]]
<1>0. TypeOK /\ NoPrefix(plain, tempEnvBindings, frames) /\ env[n] \in Contents
  BY DEF IInv, TypeOK
<1>1. x \in Frame
  BY <1>0 DEF Frame, PrefixFrame
<1>2. /\ Push(x) /\ UNCHANGED <<books, touched>> /\ n \notin plain
      /\ env' = [env EXCEPT ![n] = v]
      /\ tempEnvBindings' = Append(tempEnvBindings, b)
  BY DEF Prefix
<1>3. x.kind = "prefix" /\ x.name = n
  OBVIOUS
<1>4. b \in Scope /\ \A m \in Names : m # n => b[m] = NoCell
  BY <1>0 DEF Scope, NoScope
<1> HIDE DEF x, b
<1>5. env' \in [Names -> Contents]
  BY <1>0, <1>2 DEF TypeOK, Contents
<1>6. /\ tempEnvBindings' \in Seq(Scope)
      /\ Extends(tempEnvBindings', tempEnvBindings)
      /\ tempEnvBindings'[Len(tempEnvBindings) + 1] = b
  BY <1>0, <1>2, <1>4, Pushing DEF TypeOK
<1>7. NoPrefix(plain, tempEnvBindings', frames)
  <2>1. ASSUME NEW i \in DOMAIN tempEnvBindings', NEW m \in plain
        PROVE  tempEnvBindings'[i][m] = NoCell
    <3>0. m \in Names /\ m # n
      BY <1>0, <1>2 DEF TypeOK
    <3>1. /\ Len(tempEnvBindings) \in Nat
          /\ DOMAIN tempEnvBindings = 1 .. Len(tempEnvBindings)
          /\ DOMAIN tempEnvBindings' = 1 .. Len(tempEnvBindings) + 1
      BY <1>0, <1>6, TypeFacts, LenProperties DEF Extends
    <3>2. CASE i \in 1 .. Len(tempEnvBindings)
      BY <3>1, <3>2, <1>0, <1>6 DEF NoPrefix, Extends
    <3>3. CASE i = Len(tempEnvBindings) + 1
      BY <3>0, <3>3, <1>4, <1>6
    <3> QED  BY <3>1, <3>2, <3>3
  <2> QED  BY <2>1, <1>0 DEF NoPrefix
<1>8. x.kind # "call" /\ ~IsFork(x) /\ x.kind # "subshell"
  BY <1>3 DEF IsFork
<1> QED
  BY <1>1, <1>2, <1>3, <1>5, <1>6, <1>7, <1>8, PushKeeps

LEMMA CallKeeps ==
  ASSUME IInv, Call
  PROVE  IInv'
<1> DEFINE x == [kind |-> "call"]
<1>0. /\ TypeOK /\ frames \in Seq(Frame) /\ Heights(frames, Depth) /\ SavedFit(frames)
      /\ BooksFit(localVarStack, fullyUnsetLocals, Depth)
      /\ NoPrefix(plain, tempEnvBindings, frames)
      /\ Kept(frames, localScopes, plain) /\ Depth \in Nat
  BY TypeFacts DEF IInv
<1>1. /\ frames' = Append(frames, x)
      /\ UNCHANGED <<env, localVarDepth, localVarStack, fullyUnsetLocals,
                     tempEnvBindings, touched, thrown, plain>>
      /\ localScopes' = Append(localScopes, NoScope)
  BY DEF Call, Push, temps
<1>2. x \in Frame /\ x.kind = "call"
  BY DEF Frame, CallFrame
<1> HIDE DEF x
<1>3. NoScope \in Scope
  BY DEF NoScope, Scope
<1>4. localScopes \in Seq(Scope)
  BY <1>0 DEF TypeOK
<1>5. /\ localScopes' \in Seq(Scope) /\ Extends(localScopes', localScopes)
      /\ Depth' = Depth + 1
  BY <1>1, <1>3, <1>4, Pushing DEF Extends, Depth
<1>6. frames' \in Seq(Frame)
  BY <1>0, <1>1, <1>2, Pushing
<1>7. TypeOK'
  <2>1. \A i \in DOMAIN frames' : frames'[i].kind \in Kinds
    BY <1>6, KindsTyped
  <2> QED  BY <1>0, <1>1, <1>5, <2>1 DEF TypeOK
<1>8. BooksFit(localVarStack', fullyUnsetLocals', Depth')
  <2>1. ASSUME NEW n \in Names, localVarStack[n] # NoCell
        PROVE  Ordered(localVarStack[n], Depth + 1)
    <3>1. localVarStack[n] \in Seq(Cell) /\ Ordered(localVarStack[n], Depth)
      BY <2>1, <1>0 DEF TypeOK, BooksFit
    <3>2. \A i \in DOMAIN localVarStack[n] : localVarStack[n][i].scopeIndex \in Nat
      <4>1. \A i \in DOMAIN localVarStack[n] : localVarStack[n][i] \in Cell
        BY <3>1, LenProperties, ElementOfSeq
      <4> QED  BY <4>1 DEF Cell
    <3> QED  BY <3>1, <3>2, <1>0 DEF Ordered
  <2>2. ASSUME NEW n \in Names, fullyUnsetLocals[n] # NoCell
        PROVE  fullyUnsetLocals[n] < Depth + 1
    <3>1. fullyUnsetLocals[n] < Depth /\ fullyUnsetLocals[n] \in Nat
      BY <2>2, <1>0 DEF TypeOK, BooksFit
    <3> QED  BY <3>1, <1>0
  <2>3. Depth + 1 > 0
    BY <1>0
  <2>4. BooksFit(localVarStack, fullyUnsetLocals, Depth + 1)
    BY <2>1, <2>2, <2>3 DEF BooksFit
  <2> QED  BY <2>4, <1>1, <1>5
<1>9. Heights(frames', Depth')
  <2>1. ~IsFork(x)
    BY <1>2 DEF IsFork
  <2>2. Heights(Append(frames, x), Depth + (IF x.kind = "call" THEN 1 ELSE 0))
    BY <1>0, <1>2, <2>1, HeightsPushed
  <2> QED  BY <2>2, <1>1, <1>2, <1>5
<1>10. SavedFit(frames') /\ NoPrefix(plain', tempEnvBindings', frames')
  <2>1. x.kind # "subshell" /\ x.kind # "prefix"
    BY <1>2
  <2> QED  BY <2>1, <1>0, <1>1, <1>2, SavedFitPushed, NoPrefixPushed
<1>11. Kept(frames', localScopes', plain')
  <2>1. ASSUME NEW i \in DOMAIN frames, frames[i].kind = "piece",
               NEW d \in 1 .. Len(frames[i].scopes), NEW n \in plain
        PROVE  localScopes'[d][n] = localScopes[d][n]
    <3>1. /\ Len(frames[i].scopes) \in Nat /\ Len(frames[i].scopes) <= Depth
      BY <1>0, <2>1, PieceDepth
    <3>2. d \in 1 .. Len(localScopes)
      BY <3>1, <1>0 DEF Depth
    <3> QED  BY <3>2, <1>5 DEF Extends
  <2>2. Kept(frames, localScopes', plain)
    BY <2>1, <1>0, KeptChanged
  <2>3. ~IsFork(x)
    BY <1>2 DEF IsFork
  <2> QED  BY <2>2, <2>3, <1>0, <1>1, <1>2, KeptPushed
<1> QED
  BY <1>6, <1>7, <1>8, <1>9, <1>10, <1>11 DEF IInv

\* A call ends: its scope goes, with its cells.
LEMMA CleanupKeeps ==
  ASSUME IInv, Is("call"), Cleanup, Pop,
         thrown' \in {"none", "return", "exit", "break"}
  PROVE  IInv'
<1>0. /\ TypeOK /\ frames \in Seq(Frame) /\ Heights(frames, Depth) /\ SavedFit(frames)
      /\ BooksFit(localVarStack, fullyUnsetLocals, Depth)
      /\ NoPrefix(plain, tempEnvBindings, frames)
      /\ Kept(frames, localScopes, plain) /\ Depth \in Nat
      /\ frames # <<>> /\ Last(frames).kind = "call"
  BY TypeFacts DEF IInv, Is
<1>1. /\ frames' = Front(frames) /\ localScopes' = Front(localScopes)
      /\ UNCHANGED <<localVarDepth, tempEnvBindings, touched, plain>>
  BY DEF Cleanup, Pop, temps
<1>2. /\ Depth > 0 /\ Heights(Front(frames), Depth - 1)
      /\ \A i \in DOMAIN Front(frames) :
           IsFork(frames[i]) => Len(frames[i].scopes) <= Depth - 1
  BY <1>0, HeightsPopped
<1>3. localScopes \in Seq(Scope) /\ localScopes # <<>>
  BY <1>0, <1>2 DEF TypeOK, Depth
<1>4. /\ localScopes' \in Seq(Scope) /\ Last(localScopes) \in Scope
      /\ Depth' = Depth - 1
      /\ \A d \in 1 .. Depth - 1 : localScopes'[d] = localScopes[d]
  BY <1>1, <1>3, FrontLast DEF Depth
<1>5. frames' \in Seq(Frame)
  BY <1>0, <1>1, Popping
<1>6. env' \in [Names -> Contents]
  <2>1. \A n \in Names : (IF Last(localScopes)[n] = NoCell THEN env[n]
                          ELSE Last(localScopes)[n]) \in Contents
    BY <1>0, <1>4 DEF TypeOK, Scope
  <2> QED  BY <2>1 DEF Cleanup
<1>7. ASSUME NEW n \in Names
      PROVE  /\ localVarStack'[n] \in Seq(Cell) \cup {NoCell}
             /\ localVarStack'[n] # NoCell => Depth - 1 > 0 /\ Ordered(localVarStack'[n], Depth - 1)
  <2>1. localVarStack'[n] = IF HasStack(n) THEN Trimmed(localVarStack[n]) ELSE NoCell
    BY DEF Cleanup
  <2>2. CASE ~HasStack(n)
    BY <2>1, <2>2
  <2>3. CASE HasStack(n)
    <3>1. localVarStack[n] \in Seq(Cell) /\ Ordered(localVarStack[n], Depth)
      BY <2>3, <1>0 DEF TypeOK, BooksFit, HasStack
    <3>2. /\ Trimmed(localVarStack[n]) \in Seq(Cell) \cup {NoCell}
          /\ Trimmed(localVarStack[n]) # NoCell =>
               Depth - 1 > 0 /\ Ordered(Trimmed(localVarStack[n]), Depth - 1)
      BY <3>1, <1>0, <1>2, Trimming
    <3> QED  BY <2>1, <2>3, <3>2
  <2> QED  BY <2>2, <2>3
<1>8. ASSUME NEW n \in Names
      PROVE  /\ fullyUnsetLocals'[n] \in Nat \cup {NoCell}
             /\ fullyUnsetLocals'[n] # NoCell => fullyUnsetLocals'[n] < Depth - 1
  <2>1. fullyUnsetLocals'[n] = IF fullyUnsetLocals[n] = Depth - 1 THEN NoCell
                               ELSE fullyUnsetLocals[n]
    BY DEF Cleanup
  <2>2. /\ fullyUnsetLocals[n] \in Nat \cup {NoCell}
        /\ fullyUnsetLocals[n] # NoCell =>
             fullyUnsetLocals[n] < Depth /\ fullyUnsetLocals[n] \in Nat
    BY <1>0 DEF TypeOK, BooksFit
  <2> QED  BY <2>1, <2>2, <1>0
<1>9. /\ localVarStack' \in [Names -> Seq(Cell) \cup {NoCell}]
      /\ fullyUnsetLocals' \in [Names -> Nat \cup {NoCell}]
  <2>1. localVarStack' = [n \in Names |-> localVarStack'[n]]
    BY DEF Cleanup
  <2>2. fullyUnsetLocals' = [n \in Names |-> fullyUnsetLocals'[n]]
    BY DEF Cleanup
  <2>3. localVarStack' \in [Names -> Seq(Cell) \cup {NoCell}]
    BY <2>1, <1>7
  <2>4. fullyUnsetLocals' \in [Names -> Nat \cup {NoCell}]
    BY <2>2, <1>8
  <2> QED  BY <2>3, <2>4
<1>10. TypeOK'
  <2>1. \A i \in DOMAIN frames' : frames'[i].kind \in Kinds
    BY <1>5, KindsTyped
  <2> QED  BY <1>0, <1>1, <1>4, <1>6, <1>9, <2>1 DEF TypeOK
<1>11. BooksFit(localVarStack', fullyUnsetLocals', Depth')
  BY <1>4, <1>7, <1>8 DEF BooksFit
<1>12. SavedFit(frames') /\ NoPrefix(plain', tempEnvBindings', frames')
  BY <1>0, <1>1, SavedFitPopped, NoPrefixPopped
<1>13. Heights(frames', Depth')
  BY <1>1, <1>2, <1>4
<1>14. Kept(frames', localScopes', plain')
  <2>1. Kept(Front(frames), localScopes, plain)
    BY <1>0, KeptPopped
  <2>2. \A i \in DOMAIN Front(frames) : Front(frames)[i] = frames[i]
    <3>1. Front(frames) \in Seq(Frame) /\ Extends(frames, Front(frames))
      BY <1>0, Popping
    <3> QED  BY <3>1, LenProperties DEF Extends
  <2>3. ASSUME NEW i \in DOMAIN Front(frames), Front(frames)[i].kind = "piece",
               NEW d \in 1 .. Len(Front(frames)[i].scopes), NEW n \in plain
        PROVE  localScopes'[d][n] = localScopes[d][n]
    <3>1. Len(Front(frames)[i].scopes) \in Nat
      <4>1. Front(frames) \in Seq(Frame)
        BY <1>1, <1>5
      <4> QED  BY <4>1, <1>2, <2>3, PieceDepth
    <3>2. Len(Front(frames)[i].scopes) <= Depth - 1
      BY <1>2, <2>2, <2>3 DEF IsFork
    <3>3. d \in 1 .. Depth - 1
      BY <3>1, <3>2, <1>0
    <3> QED  BY <3>3, <1>4
  <2>4. Kept(Front(frames), localScopes', plain)
    BY <2>1, <2>3, KeptChanged
  <2> QED  BY <2>4, <1>1
<1> QED
  BY <1>5, <1>10, <1>11, <1>12, <1>13, <1>14 DEF IInv

\* A construct ends that leaves the books as they are.
LEMMA PopKeeps ==
  ASSUME IInv, frames # <<>>, Last(frames).kind # "call", Pop, UNCHANGED books,
         env' \in [Names -> Contents], touched' = touched,
         tempEnvBindings' = tempEnvBindings \/ tempEnvBindings' = Front(tempEnvBindings),
         thrown' \in {"none", "return", "exit", "break"}
  PROVE  IInv'
<1>0. /\ TypeOK /\ frames \in Seq(Frame) /\ Heights(frames, Depth) /\ SavedFit(frames)
      /\ BooksFit(localVarStack, fullyUnsetLocals, Depth)
      /\ NoPrefix(plain, tempEnvBindings, frames)
      /\ Kept(frames, localScopes, plain)
  BY DEF IInv
<1>1. /\ frames' = Front(frames) /\ plain' = plain /\ Depth' = Depth
      /\ UNCHANGED <<localScopes, localVarDepth, localVarStack, fullyUnsetLocals>>
  BY DEF Pop, books, Depth
<1>2. frames' \in Seq(Frame)
  BY <1>0, <1>1, Popping
<1>3. /\ tempEnvBindings' \in Seq(Scope)
      /\ \A i \in DOMAIN tempEnvBindings' :
           i \in DOMAIN tempEnvBindings /\ tempEnvBindings'[i] = tempEnvBindings[i]
  <2>1. tempEnvBindings \in Seq(Scope)
    BY <1>0 DEF TypeOK
  <2>2. CASE tempEnvBindings' = tempEnvBindings
    BY <2>1, <2>2
  <2>3. CASE tempEnvBindings' = Front(tempEnvBindings) /\ tempEnvBindings # <<>>
    <3>1. /\ Front(tempEnvBindings) \in Seq(Scope)
          /\ Extends(tempEnvBindings, Front(tempEnvBindings))
      BY <2>1, <2>3, Popping
    <3>2. /\ DOMAIN tempEnvBindings = 1 .. Len(tempEnvBindings)
          /\ DOMAIN Front(tempEnvBindings) = 1 .. Len(Front(tempEnvBindings))
          /\ Len(Front(tempEnvBindings)) \in Nat
      BY <2>1, <3>1, LenProperties
    <3> QED  BY <2>3, <3>1, <3>2 DEF Extends
  <2>4. CASE tempEnvBindings' = Front(tempEnvBindings) /\ tempEnvBindings = <<>>
    <3>1. Len(<<>>) - 1 < 1 /\ 1 \in Int /\ Len(<<>>) - 1 \in Int
      BY EmptySeq
    <3>2. Front(<<>>) = <<>>
      BY <3>1, SubSeqEmpty DEF Front
    <3> QED  BY <2>1, <2>4, <3>2
  <2> QED  BY <2>2, <2>3, <2>4
<1>4. TypeOK'
  <2>1. \A i \in DOMAIN frames' : frames'[i].kind \in Kinds
    BY <1>2, KindsTyped
  <2> QED  BY <1>0, <1>1, <1>3, <2>1 DEF TypeOK
<1>5. BooksFit(localVarStack', fullyUnsetLocals', Depth')
  BY <1>0, <1>1
<1>6. SavedFit(frames')
  BY <1>0, <1>1, SavedFitPopped
<1>7. Heights(frames', Depth')
  BY <1>0, <1>1, HeightsPopped
<1>8. NoPrefix(plain', tempEnvBindings', frames')
  <2>1. NoPrefix(plain, tempEnvBindings, Front(frames))
    BY <1>0, NoPrefixPopped
  <2> QED  BY <2>1, <1>1, <1>3 DEF NoPrefix
<1>9. Kept(frames', localScopes', plain')
  BY <1>0, <1>1, KeptPopped
<1> QED
  BY <1>2, <1>4, <1>5, <1>6, <1>7, <1>8, <1>9 DEF IInv

LEMMA RestoreShellKeeps ==
  ASSUME IInv, Is("subshell"), RestoreShell, Pop,
         thrown' \in {"none", "return", "exit", "break"}
  PROVE  IInv'
<1> DEFINE x == Last(frames)
<1>0. /\ TypeOK /\ frames \in Seq(Frame) /\ Heights(frames, Depth) /\ SavedFit(frames)
      /\ NoPrefix(plain, tempEnvBindings, frames)
      /\ Kept(frames, localScopes, plain)
      /\ frames # <<>> /\ x.kind = "subshell"
  BY DEF IInv, Is
<1>1. /\ frames' = Front(frames) /\ plain' = plain
      /\ env' = x.env /\ localScopes' = x.scopes /\ localVarDepth' = x.depth
      /\ localVarStack' = x.stack /\ fullyUnsetLocals' = x.fully
      /\ UNCHANGED <<tempEnvBindings, touched>>
  BY DEF RestoreShell, Pop, temps
<1>2. x \in Frame /\ frames' \in Seq(Frame)
  BY <1>0, <1>1, Popping
<1>3. x \in SubshellFrame
  BY <1>0, <1>2, FrameTypes
<1>4. Depth' = Len(x.scopes) /\ Len(x.scopes) = Depth
  BY <1>0, <1>1, HeightsPopped DEF Depth, IsFork
<1>5. TypeOK'
  <2>1. \A i \in DOMAIN frames' : frames'[i].kind \in Kinds
    BY <1>2, KindsTyped
  <2> QED  BY <1>0, <1>1, <1>3, <2>1 DEF TypeOK, SubshellFrame
<1>6. BooksFit(localVarStack', fullyUnsetLocals', Depth')
  BY <1>0, <1>1, <1>4, SavedFitPopped
<1>7. SavedFit(frames') /\ NoPrefix(plain', tempEnvBindings', frames')
  BY <1>0, <1>1, SavedFitPopped, NoPrefixPopped
<1>8. Heights(frames', Depth')
  BY <1>0, <1>1, <1>4, HeightsPopped
<1>9. Kept(frames', localScopes', plain')
  BY <1>0, <1>1, KeptPopped
<1> QED
  BY <1>2, <1>5, <1>6, <1>7, <1>8, <1>9 DEF IInv

LEMMA RestoreKeeps ==
  ASSUME IInv, Is("prefix"), Restore, Pop,
         thrown' \in {"none", "return", "exit", "break"}
  PROVE  IInv'
<1> DEFINE x == Last(frames)
<1>0. frames # <<>> /\ x.kind = "prefix" /\ TypeOK /\ frames \in Seq(Frame)
  BY DEF Is, IInv
<1>1. x \in PrefixFrame
  BY <1>0, Popping, FrameTypes
<1>2. /\ UNCHANGED <<books, touched>> /\ tempEnvBindings' = Front(tempEnvBindings)
      /\ env' = IF fullyUnsetLocals[x.name] # NoCell THEN env
                ELSE [env EXCEPT ![x.name] = x.value]
  BY DEF Restore
<1>3. env' \in [Names -> Contents]
  BY <1>0, <1>1, <1>2 DEF TypeOK, PrefixFrame
<1> QED
  BY <1>0, <1>2, <1>3, PopKeeps

LEMMA RestoreValuesKeeps ==
  ASSUME IInv, Is("piece"), RestoreValues, Pop,
         thrown' \in {"none", "return", "exit", "break"}
  PROVE  IInv'
<1> DEFINE x == Last(frames)
<1>0. frames # <<>> /\ x.kind = "piece" /\ frames \in Seq(Frame)
  BY DEF Is, IInv
<1>1. x \in PieceFrame
  BY <1>0, Popping, FrameTypes
<1>2. UNCHANGED <<books, tempEnvBindings, touched>> /\ env' = x.env
  BY DEF RestoreValues, temps
<1>3. env' \in [Names -> Contents]
  BY <1>1, <1>2 DEF PieceFrame
<1> QED
  BY <1>0, <1>2, <1>3, PopKeeps

LEMMA NotRestoredKeeps ==
  ASSUME IInv, Is("prefix"), NotRestored, Pop,
         thrown' \in {"none", "return", "exit", "break"}
  PROVE  IInv'
<1>0. frames # <<>> /\ Last(frames).kind = "prefix" /\ TypeOK
  BY DEF Is, IInv
<1>1. UNCHANGED <<env, books, tempEnvBindings, touched>>
  BY DEF NotRestored, temps
<1>2. env' \in [Names -> Contents]
  BY <1>0, <1>1 DEF TypeOK
<1> QED
  BY <1>0, <1>1, <1>2, PopKeeps

LEMMA EndKeeps ==
  ASSUME IInv, End
  PROVE  IInv'
<1>1. Pop /\ thrown' \in {"none", "return", "exit", "break"}
  BY DEF End, IInv, TypeOK
<1>2. \/ Is("call") /\ Cleanup
      \/ Is("prefix") /\ Restore
      \/ Is("subshell") /\ RestoreShell
      \/ Is("piece") /\ RestoreValues
  BY DEF End
<1> QED
  BY <1>1, <1>2, CleanupKeeps, RestoreKeeps, RestoreShellKeeps, RestoreValuesKeeps

LEMMA UnwindKeeps ==
  ASSUME IInv, Unwind
  PROVE  IInv'
<1>1. Pop /\ thrown' \in {"none", "return", "exit", "break"}
  BY DEF Unwind, IInv, TypeOK
<1>2. \/ Is("call") /\ Cleanup
      \/ Is("prefix") /\ NotRestored
      \/ Is("subshell") /\ RestoreShell
      \/ Is("piece") /\ RestoreValues
  BY DEF Unwind
<1> QED
  BY <1>1, <1>2, CleanupKeeps, NotRestoredKeeps, RestoreShellKeeps, RestoreValuesKeeps

LEMMA ThrowKeeps ==
  ASSUME IInv, Throw
  PROVE  IInv'
<1>1. /\ UNCHANGED <<env, localScopes, localVarDepth, localVarStack, fullyUnsetLocals,
                     tempEnvBindings, touched, frames, plain>>
      /\ thrown' \in {"none", "return", "exit", "break"}
  BY DEF Throw, books, temps
<1>2. TypeOK'
  BY <1>1 DEF IInv, TypeOK
<1>3. Depth' = Depth
  BY <1>1 DEF Depth
<1> QED
  BY <1>1, <1>2, <1>3 DEF IInv

LEMMA Inductive == IInv /\ [Next]_vars => IInv'
<1> SUFFICES ASSUME IInv, [Next]_vars PROVE IInv'
  OBVIOUS
<1>1. ASSUME NEW n \in Names, Command(n) PROVE IInv'
  BY <1>1, CommandKeeps
<1>2. CASE Call
  BY <1>2, CallKeeps
<1>3. CASE Subshell
  BY <1>3, SubshellKeeps
<1>4. CASE Piece
  BY <1>4, PieceKeeps
<1>5. ASSUME NEW n \in Names, NEW v \in Values, Prefix(n, v) PROVE IInv'
  BY <1>5, PrefixKeeps
<1>6. CASE End
  BY <1>6, EndKeeps
<1>7. CASE Throw
  BY <1>7, ThrowKeeps
<1>8. CASE Unwind
  BY <1>8, UnwindKeeps
<1>9. CASE UNCHANGED vars
  <2>1. UNCHANGED <<env, localScopes, localVarDepth, localVarStack, fullyUnsetLocals,
                    tempEnvBindings, touched, frames, thrown, plain>>
    BY <1>9 DEF vars, books, temps
  <2>2. TypeOK' /\ Depth' = Depth
    BY <2>1 DEF IInv, TypeOK, Depth
  <2> QED  BY <2>1, <2>2 DEF IInv
<1> QED
  BY <1>1, <1>2, <1>3, <1>4, <1>5, <1>6, <1>7, <1>8, <1>9 DEF Next

LEMMA Always == Spec => []IInv
  BY Initially, Inductive, PTL DEF Spec

-----------------------------------------------------------------------------
(* The books fit the calls *)

\* Every variable keeps its type, for any names, values and bounds: cleanup never
\* takes away a scope that is not there and no cell gets an index below zero, on every
\* way out of calls, prefixed commands, subshells and substitutions.
THEOREM TypeCorrect == Spec => []TypeOK
<1>1. IInv => TypeOK
  BY DEF IInv
<1> QED
  BY <1>1, Always, PTL

\* Saved cells, and records of the last one's unset, are those of calls in progress,
\* in the order of the calls: clearLocalVarStackForScope, which looks at the top of
\* each stack only, leaves none behind, whatever script runs.
THEOREM BooksAreRight == Spec => []BooksMatchCalls
<1>1. IInv => BooksMatchCalls
  BY DEF IInv, BooksFit, Ordered, BooksMatchCalls, HasStack
<1> QED
  BY <1>1, Always, PTL

-----------------------------------------------------------------------------
(* The cells that the one map and the scopes stand for *)

Inner(s, n, i) == {j \in (i + 1) .. Len(s) : s[j][n] # NoCell}
Low(T) == CHOOSE j \in T : \A k \in T : j <= k

LEMMA CellOfInner ==
  ASSUME NEW n, NEW e, NEW s, NEW i
  PROVE  CellOf(n, e, s, i) =
           IF Inner(s, n, i) = {} THEN e[n] ELSE s[Low(Inner(s, n, i))][n]
  BY DEF CellOf, Inner, Low

LEMMA LowIs ==
  ASSUME NEW T, T \subseteq Nat, T # {}
  PROVE  /\ Low(T) \in T /\ \A k \in T : Low(T) <= k
         /\ \A m \in T : (\A k \in T : m <= k) => Low(T) = m
<1>1. Low(T) \in T /\ \A k \in T : Low(T) <= k
  BY Smallest DEF Low
<1>2. ASSUME NEW m \in T, \A k \in T : m <= k
      PROVE  Low(T) = m
  <2>1. m <= Low(T) /\ Low(T) <= m /\ m \in Nat /\ Low(T) \in Nat
    BY <1>1, <1>2
  <2> QED  BY <2>1
<1> QED
  BY <1>1, <1>2

LEMMA InnerNat ==
  ASSUME NEW s, Len(s) \in Nat, NEW n, NEW i \in Nat
  PROVE  /\ Inner(s, n, i) \subseteq Nat
         /\ \A j \in Inner(s, n, i) : j \in 1 .. Len(s) /\ i < j
  BY DEF Inner

LEMMA CellType ==
  ASSUME NEW e \in [Names -> Contents], NEW s \in Seq(Scope), NEW n \in Names, NEW i \in Nat
  PROVE  CellOf(n, e, s, i) \in Contents /\ CellOf(n, e, s, i) # NoCell
<1>1. Len(s) \in Nat
  BY LenProperties
<1>2. CellOf(n, e, s, i) \in Contents
  <2>1. CASE Inner(s, n, i) = {}
    BY <2>1, CellOfInner
  <2>2. CASE Inner(s, n, i) # {}
    <3> DEFINE j == Low(Inner(s, n, i))
    <3>1. j \in Inner(s, n, i)
      BY <2>2, <1>1, InnerNat, LowIs
    <3>2. j \in 1 .. Len(s) /\ s[j][n] # NoCell
      BY <3>1, <1>1, InnerNat DEF Inner
    <3>3. s[j] \in Scope
      BY <3>2, ElementOfSeq
    <3>4. s[j][n] \in Contents
      BY <3>2, <3>3 DEF Scope
    <3>5. CellOf(n, e, s, i) = s[j][n]
      BY <2>2, CellOfInner
    <3> QED  BY <3>4, <3>5
  <2> QED  BY <2>1, <2>2
<1> QED
  BY <1>2, MarkersAssumption DEF Contents

\* What the cell of scope i depends on.
AlikeInside(n, e, f, s, t, i) ==
  /\ i \in Nat /\ Len(s) \in Nat
  /\ Inner(t, n, i) = Inner(s, n, i)
  /\ \A j \in Inner(s, n, i) : t[j][n] = s[j][n]
  /\ Inner(s, n, i) = {} => f[n] = e[n]

LEMMA CellSame ==
  ASSUME NEW n, NEW e, NEW f, NEW s, NEW t, NEW i, AlikeInside(n, e, f, s, t, i)
  PROVE  CellOf(n, f, t, i) = CellOf(n, e, s, i)
<1> USE DEF AlikeInside
<1>1. CASE Inner(s, n, i) = {}
  BY <1>1, CellOfInner
<1>2. CASE Inner(s, n, i) # {}
  <2>1. Low(Inner(s, n, i)) \in Inner(s, n, i)
    BY <1>2, InnerNat, LowIs
  <2> QED  BY <2>1, <1>2, CellOfInner
<1> QED
  BY <1>1, <1>2

\* The value of a name moves into scope q, which is inside all those that hide
\* something: the cells of the scopes outside q stay what they were.
MovesInto(n, e, s, t, i, q) ==
  /\ i \in Nat /\ q \in Nat /\ Len(s) \in Nat /\ Len(t) \in Nat
  /\ Inner(t, n, i) = Inner(s, n, i) \cup {q}
  /\ \A j \in Inner(s, n, i) : j <= q /\ t[j][n] = s[j][n]
  /\ t[q][n] = e[n]

LEMMA CellMoves ==
  ASSUME NEW n, NEW e, NEW f, NEW s, NEW t, NEW i, NEW q, MovesInto(n, e, s, t, i, q)
  PROVE  CellOf(n, f, t, i) = CellOf(n, e, s, i)
<1> USE DEF MovesInto
<1>0. /\ Inner(s, n, i) \subseteq Nat /\ Inner(t, n, i) \subseteq Nat
  BY InnerNat
<1>1. CASE Inner(s, n, i) = {}
  <2>1. q \in Inner(t, n, i) /\ \A k \in Inner(t, n, i) : q <= k
    BY <1>1
  <2>2. Low(Inner(t, n, i)) = q
    BY <2>1, <1>0, LowIs
  <2> QED  BY <1>1, <2>1, <2>2, CellOfInner
<1>2. CASE Inner(s, n, i) # {}
  <2> DEFINE m == Low(Inner(s, n, i))
  <2>1. m \in Inner(s, n, i) /\ \A k \in Inner(s, n, i) : m <= k
    BY <1>0, <1>2, LowIs
  <2>2. m \in Inner(t, n, i) /\ \A k \in Inner(t, n, i) : m <= k
    BY <2>1
  <2>3. Low(Inner(t, n, i)) = m
    BY <2>2, <1>0, LowIs
  <2>4. t[m][n] = s[m][n]
    BY <2>1
  <2>5. Inner(t, n, i) # {}
    BY <2>2
  <2> HIDE DEF m
  <2>6. CellOf(n, f, t, i) = t[m][n]
    BY <2>3, <2>5, CellOfInner
  <2>7. CellOf(n, e, s, i) = s[m][n]
    BY <1>2, CellOfInner DEF m
  <2> QED  BY <2>4, <2>6, <2>7
<1> QED
  BY <1>1, <1>2

\* The view of values e and scopes s, for the plain names p; of the frames.
Global(p, e, s) == [n \in Names |-> IF n \in p THEN CellOf(n, e, s, 0) ELSE Unset]

InScope(p, e, s, i) ==
  [n \in Names |-> IF n \in p /\ s[i][n] # NoCell THEN CellOf(n, e, s, i) ELSE NoCell]

InScopes(p, e, s) == [i \in DOMAIN s |-> InScope(p, e, s, i)]

Held(p, f) ==
  [global |-> Global(p, f.env, f.scopes), scopes |-> InScopes(p, f.env, f.scopes)]

ForksOf(fs) == {i \in DOMAIN fs : IsFork(fs[i])}

ShellsOf(p, fs) ==
  [d \in 1 .. Cardinality(ForksOf(fs)) |-> Held(p, fs[Nth(ForksOf(fs), d)])]

\* The view changes in cell n of scope q only.
ChangesCell(p, e, f, s, t, q, n, v) ==
  /\ DOMAIN t = DOMAIN s /\ q \in DOMAIN s /\ n \in Names
  /\ InScope(p, f, t, q)[n] = v
  /\ \A i \in DOMAIN s : \A m \in Names : ~(i = q /\ m = n) =>
       InScope(p, f, t, i)[m] = InScope(p, e, s, i)[m]

LEMMA OneCell ==
  ASSUME NEW p, NEW e, NEW f, NEW s, NEW t, NEW q, NEW n, NEW v,
         ChangesCell(p, e, f, s, t, q, n, v)
  PROVE  InScopes(p, f, t) = [InScopes(p, e, s) EXCEPT ![q][n] = v]
<1> USE DEF ChangesCell
<1> DEFINE A == InScopes(p, e, s)
           B == InScopes(p, f, t)
           r == [A[q] EXCEPT ![n] = v]
<1>1. /\ DOMAIN A = DOMAIN s /\ DOMAIN B = DOMAIN s
      /\ \A i \in DOMAIN s : A[i] = InScope(p, e, s, i) /\ B[i] = InScope(p, f, t, i)
  BY DEF InScopes
<1>2. B = [i \in DOMAIN s |-> B[i]]
  BY <1>1 DEF InScopes
<1>3. [A EXCEPT ![q] = r] = [i \in DOMAIN s |-> IF i = q THEN r ELSE A[i]]
  BY <1>1
<1>4. ASSUME NEW i \in DOMAIN s
      PROVE  B[i] = IF i = q THEN r ELSE A[i]
  <2>1. /\ B[i] = [m \in Names |-> B[i][m]]
        /\ A[i] = [m \in Names |-> A[i][m]]
    BY <1>1 DEF InScope
  <2>2. CASE i # q
    <3>1. \A m \in Names : B[i][m] = A[i][m]
      BY <1>1, <2>2
    <3> HIDE DEF A, B
    <3> QED  BY <2>1, <2>2, <3>1
  <2>3. CASE i = q
    <3>1. r = [m \in Names |-> IF m = n THEN v ELSE A[i][m]]
      <4> HIDE DEF A, B
      <4> QED  BY <2>1, <2>3
    <3>2. \A m \in Names : B[i][m] = IF m = n THEN v ELSE A[i][m]
      BY <1>1, <2>3
    <3> HIDE DEF A, B, r
    <3> QED  BY <2>1, <2>3, <3>1, <3>2
  <2> QED  BY <2>2, <2>3
<1> HIDE DEF A, B, r
<1>5. B = [A EXCEPT ![q] = r]
  BY <1>2, <1>3, <1>4
<1> QED
  BY <1>5 DEF A, B, r

\* Names that are not plain do not show.
Alike(p, e, f, s, t) ==
  /\ s \in Seq(Scope) /\ t \in Seq(Scope) /\ Len(s) = Len(t)
  /\ \A n \in p \cap Names :
       e[n] = f[n] /\ \A i \in 1 .. Len(s) : s[i][n] = t[i][n]

LEMMA SameView ==
  ASSUME NEW p, NEW e, NEW f, NEW s, NEW t, Alike(p, e, f, s, t)
  PROVE  Global(p, f, t) = Global(p, e, s) /\ InScopes(p, f, t) = InScopes(p, e, s)
<1> USE DEF Alike
<1>1. /\ Len(s) \in Nat /\ Len(t) \in Nat
      /\ DOMAIN s = 1 .. Len(s) /\ DOMAIN t = 1 .. Len(s)
  BY LenProperties
<1>2. ASSUME NEW n \in p \cap Names, NEW i \in Nat
      PROVE  CellOf(n, f, t, i) = CellOf(n, e, s, i)
  <2>1. \A j \in (i + 1) .. Len(s) : j \in 1 .. Len(s)
    BY <1>1
  <2>2. Inner(t, n, i) = Inner(s, n, i)
    BY <2>1 DEF Inner
  <2>3. \A j \in Inner(s, n, i) : t[j][n] = s[j][n]
    BY <2>1 DEF Inner
  <2>4. AlikeInside(n, e, f, s, t, i)
    BY <1>1, <2>2, <2>3 DEF AlikeInside
  <2> QED  BY <2>4, CellSame
<1>3. Global(p, f, t) = Global(p, e, s)
  BY <1>2 DEF Global
<1>4. ASSUME NEW i \in 1 .. Len(s)
      PROVE  InScope(p, f, t, i) = InScope(p, e, s, i)
  <2>1. i \in Nat
    OBVIOUS
  <2>2. \A n \in Names : n \in p =>
          t[i][n] = s[i][n] /\ CellOf(n, f, t, i) = CellOf(n, e, s, i)
    BY <1>2, <2>1
  <2> QED  BY <2>2 DEF InScope
<1> QED
  BY <1>1, <1>3, <1>4 DEF InScopes

\* Values and scopes e and s turn into f and t, for a command on the plain name n.
Turns(p, n, e, f, s, t) ==
  /\ n \in p \cap Names
  /\ e \in [Names -> Contents] /\ f \in [Names -> Contents]
  /\ s \in Seq(Scope) /\ t \in Seq(Scope)
  /\ \A m \in Names \ {n} : f[m] = e[m]

\* A new value goes to the innermost cell, or to the global one.
LEMMA WriteView ==
  ASSUME NEW p, NEW e, NEW f, NEW s, NEW n, Turns(p, n, e, f, s, s)
  PROVE  \/ /\ \A i \in DOMAIN s : InScope(p, e, s, i)[n] = NoCell
            /\ Global(p, f, s) = [Global(p, e, s) EXCEPT ![n] = f[n]]
            /\ InScopes(p, f, s) = InScopes(p, e, s)
         \/ \E q \in DOMAIN s :
              /\ InScope(p, e, s, q)[n] # NoCell
              /\ \A i \in DOMAIN s : InScope(p, e, s, i)[n] # NoCell => i <= q
              /\ Global(p, f, s) = Global(p, e, s)
              /\ InScopes(p, f, s) = [InScopes(p, e, s) EXCEPT ![q][n] = f[n]]
<1> USE DEF Turns
<1> DEFINE D == {i \in DOMAIN s : s[i][n] # NoCell}
<1>1. Len(s) \in Nat /\ DOMAIN s = 1 .. Len(s)
  BY LenProperties
<1>2. \A i \in DOMAIN s : InScope(p, e, s, i)[n] # NoCell <=> i \in D
  <2>1. \A i \in DOMAIN s : i \in Nat
    BY <1>1
  <2> QED  BY <2>1, CellType DEF InScope
<1>3. ASSUME NEW m \in Names, m # n, NEW i \in Nat
      PROVE  CellOf(m, f, s, i) = CellOf(m, e, s, i)
  <2>1. AlikeInside(m, e, f, s, s, i)
    BY <1>1, <1>3 DEF AlikeInside
  <2> QED  BY <2>1, CellSame
<1>4. CASE D = {}
  <2>1. Inner(s, n, 0) = {}
    BY <1>1, <1>4 DEF Inner
  <2>2. CellOf(n, f, s, 0) = f[n]
    BY <2>1, CellOfInner
  <2>3. Global(p, f, s) = [Global(p, e, s) EXCEPT ![n] = f[n]]
    BY <1>3, <2>2 DEF Global
  <2>4. ASSUME NEW i \in DOMAIN s
        PROVE  InScope(p, f, s, i) = InScope(p, e, s, i)
    <3>1. i \in Nat /\ s[i][n] = NoCell
      BY <1>1, <1>4
    <3> QED  BY <3>1, <1>3 DEF InScope
  <2>5. InScopes(p, f, s) = InScopes(p, e, s)
    BY <2>4 DEF InScopes
  <2> QED  BY <1>2, <1>4, <2>3, <2>5
<1>5. CASE D # {}
  <2>1. PICK q \in D : \A i \in D : i <= q
    <3>1. D \subseteq 0 .. Len(s)
      BY <1>1
    <3> HIDE DEF D
    <3> QED  BY <1>1, <1>5, <3>1, Largest
  <2>2. q \in 1 .. Len(s) /\ q \in Nat /\ s[q][n] # NoCell
    BY <1>1
  <2>3. Inner(s, n, q) = {}
    <3>1. ASSUME NEW j \in (q + 1) .. Len(s)
          PROVE  s[j][n] = NoCell
      <4>1. j \in DOMAIN s /\ ~(j <= q)
        BY <1>1, <2>2
      <4> QED  BY <2>1, <4>1
    <3> QED  BY <3>1 DEF Inner
  <2>4. CellOf(n, f, s, q) = f[n]
    BY <2>3, CellOfInner
  <2>5. ASSUME NEW i \in Nat, i < q
        PROVE  CellOf(n, f, s, i) = CellOf(n, e, s, i)
    <3>1. q \in Inner(s, n, i)
      BY <2>2, <2>5, <1>1 DEF Inner
    <3>2. AlikeInside(n, e, f, s, s, i)
      BY <1>1, <3>1 DEF AlikeInside
    <3> QED  BY <3>2, CellSame
  <2>6. Global(p, f, s) = Global(p, e, s)
    <3>1. 0 < q
      BY <2>2
    <3> QED  BY <3>1, <1>3, <2>5 DEF Global
  <2>7. InScope(p, f, s, q)[n] = f[n]
    BY <2>2, <2>4 DEF InScope
  <2>8. ASSUME NEW i \in DOMAIN s, NEW m \in Names, ~(i = q /\ m = n)
        PROVE  InScope(p, f, s, i)[m] = InScope(p, e, s, i)[m]
    <3>1. i \in Nat
      BY <1>1
    <3>2. CASE m # n
      BY <3>1, <3>2, <1>3 DEF InScope
    <3>3. CASE m = n /\ s[i][n] # NoCell
      <4>1. i < q
        BY <2>1, <2>2, <2>8, <3>1, <3>3
      <4> QED  BY <3>1, <3>3, <4>1, <2>5 DEF InScope
    <3>4. CASE m = n /\ s[i][n] = NoCell
      BY <3>4 DEF InScope
    <3> QED  BY <3>2, <3>3, <3>4
  <2>9. InScopes(p, f, s) = [InScopes(p, e, s) EXCEPT ![q][n] = f[n]]
    <3>1. q \in DOMAIN s /\ n \in Names
      OBVIOUS
    <3>2. ChangesCell(p, e, f, s, s, q, n, f[n])
      BY <2>7, <2>8, <3>1 DEF ChangesCell
    <3> QED  BY <3>2, OneCell
  <2>10. q \in DOMAIN s
    BY <1>1, <2>2
  <2> QED  BY <1>2, <2>1, <2>6, <2>9, <2>10
<1> QED
  BY <1>4, <1>5

\* In t, which is s otherwise, the last scope hides value v of name n.
Hides(t, s, n, v) == t = [s EXCEPT ![Len(s)][n] = v]

\* A declaration: the value of the name moves into the last scope, and the name gets
\* a cell of its own.
LEMMA DeclareView ==
  ASSUME NEW p, NEW e, NEW f, NEW s, NEW t, NEW n, Turns(p, n, e, f, s, t),
         Len(s) > 0, s[Len(s)][n] = NoCell,
         Hides(t, s, n, e[n])
  PROVE  /\ Global(p, f, t) = Global(p, e, s)
         /\ InScopes(p, f, t) = [InScopes(p, e, s) EXCEPT ![Len(s)][n] = f[n]]
<1> USE DEF Turns
<1> DEFINE q == Len(s)
<1>1. q \in Nat /\ DOMAIN s = 1 .. q /\ q \in DOMAIN s /\ s[q] \in Scope
  <2>1. q \in Nat /\ DOMAIN s = 1 .. q
    BY LenProperties
  <2>2. q \in 1 .. Len(s)
    BY <2>1
  <2> QED  BY <2>1, <2>2, ElementOfSeq
<1>2. /\ Len(t) = q /\ DOMAIN t = 1 .. q
      /\ \A i \in 1 .. q : t[i] = IF i = q THEN [s[q] EXCEPT ![n] = e[n]] ELSE s[i]
  <2>1. [s[q] EXCEPT ![n] = e[n]] \in Scope
    BY <1>1 DEF Scope
  <2>2. t = [s EXCEPT ![q] = [s[q] EXCEPT ![n] = e[n]]]
    BY DEF Hides
  <2> HIDE DEF q
  <2> QED  BY <1>1, <2>1, <2>2, ExceptSeq, LenProperties DEF q
<1>3. /\ t[q][n] = e[n]
      /\ \A i \in 1 .. q : \A m \in Names : ~(i = q /\ m = n) => t[i][m] = s[i][m]
  BY ZenonT(60), <1>1, <1>2 DEF Scope
<1>4. e[n] # NoCell
  BY MarkersAssumption DEF Contents
<1> HIDE DEF q
<1>5. ASSUME NEW m \in Names, m # n, NEW i \in Nat
      PROVE  CellOf(m, f, t, i) = CellOf(m, e, s, i)
  <2>1. \A j \in (i + 1) .. Len(s) : j \in 1 .. q
    BY <1>1 DEF q
  <2>a. \A j \in (i + 1) .. Len(s) : t[j][m] = s[j][m]
    BY <1>3, <1>5, <2>1
  <2>b. Len(t) = Len(s)
    BY <1>2 DEF q
  <2>2. Inner(t, m, i) = Inner(s, m, i)
    BY <2>a, <2>b DEF Inner
  <2>3. \A j \in Inner(s, m, i) : t[j][m] = s[j][m]
    BY <2>a DEF Inner
  <2>4. f[m] = e[m]
    BY <1>5
  <2>5. Len(s) \in Nat
    BY <1>1 DEF q
  <2>6. AlikeInside(m, e, f, s, t, i)
    BY <2>2, <2>3, <2>4, <2>5 DEF AlikeInside
  <2> QED  BY <2>6, CellSame
<1>6. ASSUME NEW i \in Nat, i < q
      PROVE  CellOf(n, f, t, i) = CellOf(n, e, s, i)
  <2>1. \A j \in (i + 1) .. q : j \in 1 .. q
    BY <1>1
  <2>2. q \in (i + 1) .. q
    BY <1>1, <1>6
  <2>a. \A j \in (i + 1) .. q : j # q => t[j][n] = s[j][n]
    BY <1>3, <2>1
  <2>b. s[q][n] = NoCell /\ t[q][n] # NoCell /\ Len(s) = q /\ Len(t) = q
    BY <1>2, <1>3, <1>4 DEF q
  <2>c. Inner(s, n, i) = {j \in (i + 1) .. q : s[j][n] # NoCell}
    BY <2>b DEF Inner
  <2>d. Inner(t, n, i) = {j \in (i + 1) .. q : t[j][n] # NoCell}
    BY <2>b DEF Inner
  <2>3. Inner(t, n, i) = Inner(s, n, i) \cup {q}
    BY <2>a, <2>b, <2>c, <2>d, <2>2
  <2>4. \A j \in Inner(s, n, i) : j <= q /\ t[j][n] = s[j][n]
    <3>1. \A j \in (i + 1) .. q : j <= q
      BY <1>1
    <3> QED  BY <3>1, <2>a, <2>b, <2>c
  <2>6. Len(s) \in Nat /\ Len(t) \in Nat /\ q \in Nat
    BY <1>1, <1>2 DEF q
  <2>7. t[q][n] = e[n]
    BY <1>3
  <2>8. MovesInto(n, e, s, t, i, q)
    BY <2>3, <2>4, <2>6, <2>7 DEF MovesInto
  <2> QED  BY <2>8, CellMoves
<1>7. Global(p, f, t) = Global(p, e, s)
  <2>1. 0 < q
    BY DEF q
  <2> QED  BY <2>1, <1>5, <1>6 DEF Global
<1>8. InScope(p, f, t, q)[n] = f[n]
  <2>1. Inner(t, n, q) = {}
    BY <1>1, <1>2 DEF Inner
  <2>2. CellOf(n, f, t, q) = f[n]
    BY <2>1, CellOfInner
  <2> QED  BY <2>2, <1>3, <1>4 DEF InScope
<1>9. ASSUME NEW i \in DOMAIN s, NEW m \in Names, ~(i = q /\ m = n)
      PROVE  InScope(p, f, t, i)[m] = InScope(p, e, s, i)[m]
  <2>1. i \in Nat /\ i \in 1 .. q /\ t[i][m] = s[i][m]
    BY <1>1, <1>3, <1>9
  <2>2. CASE m # n
    BY <2>1, <2>2, <1>5 DEF InScope
  <2>3. CASE m = n
    <3>1. i < q
      BY <1>1, <1>9, <2>1, <2>3
    <3> QED  BY <2>1, <2>3, <3>1, <1>6 DEF InScope
  <2> QED  BY <2>2, <2>3
<1>10. InScopes(p, f, t) = [InScopes(p, e, s) EXCEPT ![q][n] = f[n]]
  <2>1. DOMAIN t = DOMAIN s /\ q \in DOMAIN s /\ n \in Names
    BY <1>1, <1>2
  <2>2. ChangesCell(p, e, f, s, t, q, n, f[n])
    BY <2>1, <1>8, <1>9 DEF ChangesCell
  <2> QED  BY <2>2, OneCell
<1> QED
  BY <1>7, <1>10 DEF q

\* The scope that declares a name gives it up: the value it hid comes back.
Without(s, q, n) == [s EXCEPT ![q][n] = NoCell]

LEMMA DropView ==
  ASSUME NEW p, NEW e, NEW f, NEW s, NEW t, NEW n, Turns(p, n, e, f, s, t),
         NEW q \in DOMAIN s, s[q][n] # NoCell,
         \A i \in DOMAIN s : s[i][n] # NoCell => i <= q,
         f[n] = s[q][n],
         t = Without(s, q, n)
  PROVE  /\ Global(p, f, t) = Global(p, e, s)
         /\ InScopes(p, f, t) = [InScopes(p, e, s) EXCEPT ![q][n] = NoCell]
<1> USE DEF Turns
<1> DEFINE l == Len(s)
<1>1. l \in Nat /\ DOMAIN s = 1 .. l /\ q \in 1 .. l /\ q \in Nat /\ s[q] \in Scope
  <2>1. l \in Nat /\ DOMAIN s = 1 .. l
    BY LenProperties
  <2> QED  BY <2>1, ElementOfSeq
<1>2. /\ Len(t) = l /\ DOMAIN t = 1 .. l
      /\ \A i \in 1 .. l : t[i] = IF i = q THEN [s[q] EXCEPT ![n] = NoCell] ELSE s[i]
  <2>1. [s[q] EXCEPT ![n] = NoCell] \in Scope
    BY <1>1 DEF Scope
  <2>2. t = [s EXCEPT ![q] = [s[q] EXCEPT ![n] = NoCell]]
    BY DEF Without
  <2> HIDE DEF l
  <2> QED  BY <1>1, <2>1, <2>2, ExceptSeq, LenProperties DEF l
<1>3. /\ t[q][n] = NoCell
      /\ \A i \in 1 .. l : \A m \in Names : ~(i = q /\ m = n) => t[i][m] = s[i][m]
  BY <1>1, <1>2 DEF Scope
<1> HIDE DEF l
<1>5. ASSUME NEW m \in Names, m # n, NEW i \in Nat
      PROVE  CellOf(m, f, t, i) = CellOf(m, e, s, i)
  <2>1. \A j \in (i + 1) .. Len(s) : j \in 1 .. l
    BY <1>1 DEF l
  <2>2. Inner(t, m, i) = Inner(s, m, i)
    BY <1>2, <1>3, <1>5, <2>1 DEF Inner, l
  <2>3. \A j \in Inner(s, m, i) : t[j][m] = s[j][m]
    BY <1>3, <1>5, <2>1 DEF Inner
  <2>4. f[m] = e[m]
    BY <1>5
  <2>5. Len(s) \in Nat
    BY <1>1 DEF l
  <2>6. AlikeInside(m, e, f, s, t, i)
    BY <2>2, <2>3, <2>4, <2>5 DEF AlikeInside
  <2> QED  BY <2>6, CellSame
<1>6. ASSUME NEW i \in Nat, i < q
      PROVE  CellOf(n, f, t, i) = CellOf(n, e, s, i)
  <2>1. \A j \in (i + 1) .. l : j \in 1 .. l
    BY <1>1
  <2>2. q \in (i + 1) .. l
    BY <1>1, <1>6
  <2>3. Inner(s, n, i) = Inner(t, n, i) \cup {q}
    BY <1>1, <1>2, <1>3, <2>1, <2>2 DEF Inner, l
  <2>4. \A j \in Inner(t, n, i) : j # q /\ s[j][n] = t[j][n]
    BY <1>2, <1>3, <2>1 DEF Inner, l
  <2>5. \A j \in Inner(t, n, i) : j <= q
    <3>1. \A j \in Inner(s, n, i) : j \in DOMAIN s /\ s[j][n] # NoCell
      BY <1>1, <2>1 DEF Inner, l
    <3> QED  BY <2>3, <3>1
  <2>6. CellOf(n, e, s, i) = CellOf(n, f, t, i)
    <3>1. Len(s) \in Nat /\ Len(t) \in Nat /\ q \in Nat
      BY <1>1, <1>2 DEF l
    <3>2. s[q][n] = f[n]
      OBVIOUS
    <3>3. MovesInto(n, f, t, s, i, q)
      BY <2>3, <2>4, <2>5, <3>1, <3>2 DEF MovesInto
    <3> QED  BY <3>3, CellMoves
  <2> QED  BY <2>6
<1>7. Global(p, f, t) = Global(p, e, s)
  <2>1. 0 < q
    BY <1>1
  <2> QED  BY <2>1, <1>5, <1>6 DEF Global
<1>8. InScope(p, f, t, q)[n] = NoCell
  BY <1>3 DEF InScope
<1>9. ASSUME NEW i \in DOMAIN s, NEW m \in Names, ~(i = q /\ m = n)
      PROVE  InScope(p, f, t, i)[m] = InScope(p, e, s, i)[m]
  <2>1. i \in Nat /\ i \in 1 .. l /\ t[i][m] = s[i][m]
    BY <1>1, <1>3, <1>9
  <2>2. CASE m # n
    BY <2>1, <2>2, <1>5 DEF InScope
  <2>3. CASE m = n /\ s[i][n] # NoCell
    <3>1. i < q
      BY <1>1, <1>9, <2>1, <2>3
    <3> QED  BY <2>1, <2>3, <3>1, <1>6 DEF InScope
  <2>4. CASE m = n /\ s[i][n] = NoCell
    BY <2>1, <2>4 DEF InScope
  <2> QED  BY <2>2, <2>3, <2>4
<1>10. InScopes(p, f, t) = [InScopes(p, e, s) EXCEPT ![q][n] = NoCell]
  <2>1. DOMAIN t = DOMAIN s /\ q \in DOMAIN s /\ n \in Names
    BY <1>1, <1>2
  <2>2. ChangesCell(p, e, f, s, t, q, n, NoCell)
    BY <2>1, <1>8, <1>9 DEF ChangesCell
  <2> QED  BY <2>2, OneCell
<1> QED
  BY <1>7, <1>10

LEMMA InScopesSeq ==
  ASSUME NEW p, NEW e \in [Names -> Contents], NEW s \in Seq(Scope)
  PROVE  /\ InScopes(p, e, s) \in Seq(Scope)
         /\ Len(InScopes(p, e, s)) = Len(s)
         /\ DOMAIN InScopes(p, e, s) = 1 .. Len(s)
         /\ \A i \in 1 .. Len(s) : InScopes(p, e, s)[i] = InScope(p, e, s, i)
<1>1. Len(s) \in Nat /\ DOMAIN s = 1 .. Len(s)
  BY LenProperties
<1>2. ASSUME NEW i \in 1 .. Len(s)
      PROVE  InScope(p, e, s, i) \in Scope
  <2>1. \A n \in Names : CellOf(n, e, s, i) \in Contents
    BY CellType
  <2> QED  BY <2>1 DEF InScope, Scope
<1>3. InScopes(p, e, s) = [i \in 1 .. Len(s) |-> InScope(p, e, s, i)]
  BY <1>1 DEF InScopes
<1> QED
  BY <1>1, <1>2, <1>3

\* A call begins: a scope without cells.
LEMMA EnterView ==
  ASSUME NEW p, NEW e \in [Names -> Contents], NEW s \in Seq(Scope)
  PROVE  /\ Global(p, e, Append(s, NoScope)) = Global(p, e, s)
         /\ InScopes(p, e, Append(s, NoScope)) = Append(InScopes(p, e, s), NoScope)
<1> DEFINE t == Append(s, NoScope)
           l == Len(s)
<1>0. NoScope \in Scope /\ \A n \in Names : NoScope[n] = NoCell
  BY DEF NoScope, Scope
<1>1. /\ l \in Nat /\ t \in Seq(Scope) /\ Len(t) = l + 1 /\ t[l + 1] = NoScope
      /\ \A i \in 1 .. l : t[i] = s[i]
  BY <1>0, Pushing, LenProperties DEF Extends
<1> HIDE DEF t, l
<1>2. ASSUME NEW n \in Names, NEW i \in Nat
      PROVE  CellOf(n, e, t, i) = CellOf(n, e, s, i)
  <2>1. \A j \in (i + 1) .. l + 1 : j \in 1 .. l \/ j = l + 1
    BY <1>1
  <2>2. \A j \in (i + 1) .. l : j \in 1 .. l /\ j \in (i + 1) .. l + 1
    BY <1>1
  <2>3. \A j \in 1 .. l : j \in (i + 1) .. l + 1 => j \in (i + 1) .. l
    BY <1>1
  <2>4. Inner(t, n, i) = Inner(s, n, i)
    BY <1>0, <1>1, <2>1, <2>2, <2>3 DEF Inner, l
  <2>5. \A j \in Inner(s, n, i) : t[j][n] = s[j][n]
    BY <1>1, <2>2 DEF Inner, l
  <2>6. AlikeInside(n, e, e, s, t, i)
    BY <1>1, <2>4, <2>5 DEF AlikeInside, l
  <2> QED  BY <2>6, CellSame
<1>3. Global(p, e, t) = Global(p, e, s)
  BY <1>2 DEF Global
<1>4. ASSUME NEW i \in 1 .. l
      PROVE  InScope(p, e, t, i) = InScope(p, e, s, i)
  BY <1>1, <1>2 DEF InScope
<1>5. InScope(p, e, t, l + 1) = NoScope
  BY <1>0, <1>1 DEF InScope, NoScope
<1>6. InScopes(p, e, t) = Append(InScopes(p, e, s), NoScope)
  <2> DEFINE A == InScopes(p, e, s)
             B == InScopes(p, e, t)
  <2>1. /\ A \in Seq(Scope) /\ Len(A) = l
        /\ B \in Seq(Scope) /\ Len(B) = l + 1
        /\ \A i \in 1 .. l : A[i] = InScope(p, e, s, i)
        /\ \A i \in 1 .. l + 1 : B[i] = InScope(p, e, t, i)
    BY <1>1, InScopesSeq DEF l
  <2> HIDE DEF A, B
  <2>2. /\ Append(A, NoScope) \in Seq(Scope) /\ Len(Append(A, NoScope)) = l + 1
        /\ Append(A, NoScope)[l + 1] = NoScope
        /\ \A i \in 1 .. l : Append(A, NoScope)[i] = A[i]
    BY <1>0, <2>1, Pushing DEF Extends
  <2>3. \A i \in 1 .. l + 1 : i \in 1 .. l \/ i = l + 1
    BY <1>1
  <2>4. \A i \in 1 .. Len(B) : B[i] = Append(A, NoScope)[i]
    BY SMTT(30), <1>1, <1>4, <1>5, <2>1, <2>2, <2>3
  <2>5. B = Append(A, NoScope)
    BY <2>1, <2>2, <2>4, SeqEqual
  <2> QED  BY <2>5 DEF A, B
<1> QED
  BY <1>3, <1>6 DEF t

\* A call ends: the values that its scope hid come back, and the cells of the others
\* are what they were.
LEMMA LeaveView ==
  ASSUME NEW p, NEW e \in [Names -> Contents], NEW f \in [Names -> Contents],
         NEW s \in Seq(Scope), s # <<>>,
         \A n \in Names : f[n] = IF Last(s)[n] = NoCell THEN e[n] ELSE Last(s)[n]
  PROVE  /\ Global(p, f, Front(s)) = Global(p, e, s)
         /\ InScopes(p, f, Front(s)) = Front(InScopes(p, e, s))
<1> DEFINE t == Front(s)
           l == Len(s)
<1>1. /\ t \in Seq(Scope) /\ l \in Nat \ {0} /\ Len(t) = l - 1 /\ s[l] = Last(s)
      /\ \A i \in 1 .. l - 1 : t[i] = s[i]
  BY FrontLast DEF Last
<1> HIDE DEF t, l
<1>2. ASSUME NEW n \in Names, NEW i \in Nat, i < l
      PROVE  CellOf(n, f, t, i) = CellOf(n, e, s, i)
  <2>1. \A j \in (i + 1) .. l : j \in (i + 1) .. l - 1 \/ j = l
    BY <1>1
  <2>2. \A j \in (i + 1) .. l - 1 : j \in 1 .. l - 1 /\ j \in (i + 1) .. l /\ j <= l
    BY <1>1
  <2>3. l \in (i + 1) .. l
    BY <1>1, <1>2
  <2>4. \A j \in Inner(t, n, i) : s[j][n] = t[j][n] /\ j <= l
    BY <1>1, <2>2 DEF Inner
  <2>5. CASE s[l][n] = NoCell
    <3>1. Inner(t, n, i) = Inner(s, n, i)
      BY <1>1, <2>1, <2>2, <2>5 DEF Inner, l
    <3>2. f[n] = e[n]
      BY <1>1, <2>5
    <3>3. Len(s) \in Nat
      BY <1>1 DEF l
    <3>4. AlikeInside(n, e, f, s, t, i)
      BY <2>4, <3>1, <3>2, <3>3 DEF AlikeInside
    <3> QED  BY <3>4, CellSame
  <2>6. CASE s[l][n] # NoCell
    <3>1. Inner(s, n, i) = Inner(t, n, i) \cup {l}
      BY <1>1, <2>1, <2>2, <2>3, <2>6 DEF Inner, l
    <3>2. s[l][n] = f[n]
      BY <1>1, <2>6
    <3>3. l \in Nat /\ Len(s) \in Nat /\ Len(t) \in Nat
      BY <1>1 DEF l
    <3>4. MovesInto(n, f, t, s, i, l)
      BY <2>4, <3>1, <3>2, <3>3 DEF MovesInto
    <3> QED  BY <3>4, CellMoves
  <2> QED  BY <2>5, <2>6
<1>3. Global(p, f, t) = Global(p, e, s)
  <2>1. 0 < l
    BY <1>1
  <2> QED  BY <2>1, <1>2 DEF Global
<1>4. ASSUME NEW i \in 1 .. l - 1
      PROVE  InScope(p, f, t, i) = InScope(p, e, s, i)
  <2>1. i \in Nat /\ i < l /\ t[i] = s[i]
    BY <1>1
  <2> QED  BY <2>1, <1>2 DEF InScope
<1>5. InScopes(p, f, t) = Front(InScopes(p, e, s))
  <2> DEFINE A == InScopes(p, e, s)
             B == InScopes(p, f, t)
  <2> HIDE DEF A, B
  <2>0. A \in Seq(Scope) /\ Len(A) = l /\ \A i \in 1 .. l : A[i] = InScope(p, e, s, i)
    BY InScopesSeq DEF A, l
  <2>1. /\ B \in Seq(Scope) /\ Len(B) = l - 1
        /\ \A i \in 1 .. l - 1 : B[i] = InScope(p, f, t, i)
    <3>1. B \in Seq(Scope) /\ Len(B) = Len(t) /\ \A i \in 1 .. Len(t) : B[i] = InScope(p, f, t, i)
      BY <1>1, InScopesSeq DEF B
    <3> QED  BY <1>1, <3>1
  <2>2. A # <<>>
    BY <1>1, <2>0
  <2>3. /\ Front(A) \in Seq(Scope) /\ Len(Front(A)) = l - 1
        /\ \A i \in 1 .. l - 1 : Front(A)[i] = A[i]
    BY <2>0, <2>2, FrontLast
  <2>4. \A i \in 1 .. l - 1 : i \in 1 .. l
    BY <1>1
  <2>5. \A i \in 1 .. Len(B) : B[i] = Front(A)[i]
    BY <1>4, <2>0, <2>1, <2>3, <2>4
  <2>6. B = Front(A)
    BY <2>1, <2>3, <2>5, SeqEqual
  <2> QED  BY <2>6 DEF A, B
<1> QED
  BY <1>3, <1>5 DEF t

\* What the shells around hold, when the frames grow by one.
Grows(p, f, g, x) ==
  /\ p \subseteq Names /\ f \in Seq(Frame) /\ g \in Seq(Frame)
  /\ Extends(g, f) /\ x = g[Len(f) + 1]

LEMMA ShellsGrow ==
  ASSUME NEW p, NEW f, NEW g, NEW x, Grows(p, f, g, x)
  PROVE  /\ ~IsFork(x) => ShellsOf(p, g) = ShellsOf(p, f)
         /\ IsFork(x) => /\ ShellsOf(p, g) = Append(ShellsOf(p, f), Held(p, x))
                         /\ Len(ShellsOf(p, g)) \in Nat \ {0}
                         /\ ShellsOf(p, g)[Len(ShellsOf(p, g))] = Held(p, x)
                         /\ ShellsOf(p, f) =
                              SubSeq(ShellsOf(p, g), 1, Len(ShellsOf(p, g)) - 1)
<1> USE DEF Grows
<1> DEFINE l == Len(f)
           F == ForksOf(f)
           G == ForksOf(g)
           T == {Held(p, y) : y \in Frame}
<1>0. x = g[l + 1] /\ g[l + 1] = x
  OBVIOUS
<1>1. /\ l \in Nat /\ DOMAIN f = 1 .. l /\ DOMAIN g = 1 .. l + 1
      /\ \A i \in 1 .. l : g[i] = f[i]
  BY LenProperties DEF Extends
<1>2. F \subseteq 1 .. l
  BY <1>1 DEF ForksOf
<1>3. \A i : i \in 1 .. l + 1 <=> (i \in 1 .. l \/ i = l + 1)
  BY <1>1
<1>4. Cardinality(F) \in Nat
  BY <1>1, <1>2, SubInterval
<1>5. ASSUME NEW d \in 1 .. Cardinality(F)
      PROVE  Nth(F, d) \in 1 .. l /\ f[Nth(F, d)] \in Frame
  <2>1. Nth(F, d) \in F
    BY <1>1, <1>2, NthMember
  <2>2. Nth(F, d) \in 1 .. l
    BY <1>2, <2>1
  <2> QED  BY <2>2, ElementOfSeq
<1>6. /\ ShellsOf(p, f) \in Seq(T) /\ Len(ShellsOf(p, f)) = Cardinality(F)
      /\ \A d \in 1 .. Cardinality(F) : ShellsOf(p, f)[d] = Held(p, f[Nth(F, d)])
  <2>1. \A d \in 1 .. Cardinality(F) : Held(p, f[Nth(F, d)]) \in T
    BY <1>5
  <2> HIDE DEF T, F
  <2> QED  BY <1>4, <2>1 DEF ShellsOf, F
<1>7. ASSUME ~IsFork(x)
      PROVE  ShellsOf(p, g) = ShellsOf(p, f)
  <2>1. G = F
    BY <1>1, <1>3, <1>7 DEF ForksOf
  <2>2. \A d \in 1 .. Cardinality(F) : g[Nth(F, d)] = f[Nth(F, d)]
    BY <1>1, <1>5
  <2> HIDE DEF F
  <2> QED  BY <2>1, <2>2 DEF ShellsOf, F
<1>8. ASSUME IsFork(x)
      PROVE  /\ ShellsOf(p, g) = Append(ShellsOf(p, f), Held(p, x))
             /\ Len(ShellsOf(p, g)) \in Nat \ {0}
             /\ ShellsOf(p, g)[Len(ShellsOf(p, g))] = Held(p, x)
             /\ ShellsOf(p, f) = SubSeq(ShellsOf(p, g), 1, Len(ShellsOf(p, g)) - 1)
  <2> DEFINE A == ShellsOf(p, f)
             B == ShellsOf(p, g)
             c == Cardinality(F)
  <2>1. G = F \cup {l + 1}
    BY <1>1, <1>3, <1>8 DEF ForksOf
  <2>2. /\ Cardinality(G) = c + 1 /\ Nth(G, c + 1) = l + 1
        /\ \A d \in 1 .. c : Nth(G, d) = Nth(F, d)
    <3> HIDE DEF F, G, l
    <3>1. l \in Nat /\ Grown(F, G, l)
      BY <1>1, <1>2, <2>1 DEF Grown
    <3> QED  BY <3>1, NthGrows
  <2>3. B = [d \in 1 .. c + 1 |-> Held(p, g[Nth(G, d)])]
    BY <2>2 DEF ShellsOf
  <2>4. \A d \in 1 .. c : g[Nth(G, d)] = f[Nth(F, d)]
    BY <1>1, <1>5, <2>2
  <2>5. /\ \A d \in 1 .. c : B[d] = A[d] /\ A[d] \in T
        /\ B[c + 1] = Held(p, x)
    <3>1. \A d \in 1 .. c : d \in 1 .. c + 1
      BY <1>4
    <3>2. c + 1 \in 1 .. c + 1
      BY <1>4
    <3>3. \A d \in 1 .. c : A[d] \in T
      BY <1>6, ElementOfSeq
    <3> HIDE DEF A, B, T
    <3> QED  BY <1>6, <2>2, <2>3, <2>4, <3>1, <3>2, <3>3 DEF A
  <2>6. Held(p, x) \in T
    <3>1. l + 1 \in 1 .. Len(g)
      BY <1>1 DEF Extends
    <3>2. x \in Frame
      BY <3>1, ElementOfSeq
    <3> QED  BY <3>2
  <2>7. A \in Seq(T) /\ Len(A) = c /\ c \in Nat
    BY <1>4, <1>6
  <2> DEFINE h == Held(p, x)
  <2>8. B \in Seq(T) /\ Len(B) = c + 1
    <3>1. \A d \in 1 .. c + 1 : B[d] \in T
      <4>1. \A d \in 1 .. c + 1 : d \in 1 .. c \/ d = c + 1
        BY <2>7
      <4> HIDE DEF A, B, T, c
      <4> QED  BY <2>5, <2>6, <4>1
    <3>2. c + 1 \in Nat
      BY <2>7
    <3>3. DOMAIN B = 1 .. c + 1 /\ B = [d \in 1 .. c + 1 |-> B[d]]
      BY <2>3
    <3> HIDE DEF A, B, T, c
    <3>4. B \in [1 .. c + 1 -> T]
      BY <3>1, <3>3
    <3>5. B \in Seq(T)
      BY <3>2, <3>4
    <3> QED  BY <3>2, <3>3, <3>5
  <2> HIDE DEF A, B, T, c, h
  <2>9. B = Append(A, h)
    <3>1. /\ Append(A, h) \in Seq(T) /\ Len(Append(A, h)) = c + 1
          /\ Append(A, h)[c + 1] = h
          /\ \A i \in 1 .. c : Append(A, h)[i] = A[i]
      BY <2>6, <2>7, Pushing DEF Extends, h
    <3>2. \A i \in 1 .. c + 1 : i \in 1 .. c \/ i = c + 1
      BY <2>7
    <3>3. \A i \in 1 .. Len(B) : B[i] = Append(A, h)[i]
      BY <2>5, <2>8, <3>1, <3>2 DEF h
    <3> QED  BY <2>8, <3>1, <3>3, SeqEqual
  <2>10. A = SubSeq(B, 1, Len(B) - 1)
    <3>1. B # <<>>
      BY <2>7, <2>8
    <3>2. /\ Front(B) \in Seq(T) /\ Len(Front(B)) = Len(B) - 1
          /\ \A i \in 1 .. Len(B) - 1 : Front(B)[i] = B[i]
      BY <2>8, <3>1, FrontLast
    <3>3. Len(B) - 1 = c
      BY <2>7, <2>8
    <3>4. \A i \in 1 .. Len(A) : A[i] = Front(B)[i]
      BY <2>5, <2>7, <3>2, <3>3
    <3>5. A = Front(B)
      BY <2>7, <3>2, <3>3, <3>4, SeqEqual
    <3> QED  BY <3>5 DEF Front
  <2>11. Len(B) \in Nat \ {0} /\ B[Len(B)] = h
    BY <2>5, <2>7, <2>8 DEF h
  <2> QED  BY <2>9, <2>10, <2>11 DEF A, B, h
<1> QED
  BY <1>7, <1>8

-----------------------------------------------------------------------------
(* Variables have dynamic scope *)

\* The mapping of ImplementsScopes, in the state and in the next one.
LEMMA Mapping ==
  /\ CellsGlobal(env, localScopes) = Global(plain, env, localScopes)
  /\ CellsScopes(env, localScopes) = InScopes(plain, env, localScopes)
  /\ Shells = ShellsOf(plain, frames)
<1>1. CellsGlobal(env, localScopes) = Global(plain, env, localScopes)
  BY DEF CellsGlobal, Global
<1>2. CellsScopes(env, localScopes) = InScopes(plain, env, localScopes)
  BY DEF CellsScopes, InScopes, InScope
<1>3. Shells = ShellsOf(plain, frames)
  BY DEF Shells, ShellsOf, Held, Forks, ForksOf, IsFork, CellsGlobal, Global, CellsScopes, InScopes, InScope
<1> QED
  BY <1>1, <1>2, <1>3

LEMMA NextMapping ==
  /\ CellsGlobal(env, localScopes)' = Global(plain', env', localScopes')
  /\ CellsScopes(env, localScopes)' = InScopes(plain', env', localScopes')
  /\ Shells' = ShellsOf(plain', frames')
<1>1. CellsGlobal(env, localScopes)' = Global(plain', env', localScopes')
  BY DEF CellsGlobal, Global
<1>2. CellsScopes(env, localScopes)' = InScopes(plain', env', localScopes')
  BY DEF CellsScopes, InScopes, InScope
<1>3. Shells' = ShellsOf(plain', frames')
  BY DEF Shells, ShellsOf, Held, Forks, ForksOf, IsFork, CellsGlobal, Global, CellsScopes, InScopes, InScope
<1> QED
  BY <1>1, <1>2, <1>3

LEMMA Begins == Init => Cells!Init
<1> SUFFICES ASSUME Init PROVE Cells!Init
  OBVIOUS
<1>1. env \in [Names -> Contents] /\ localScopes = <<>> /\ frames = <<>>
  BY DEF Init
<1>2. Global(plain, env, <<>>) \in [Names -> Contents]
  <2>1. <<>> \in Seq(Scope) /\ 0 \in Nat
    OBVIOUS
  <2>2. ASSUME NEW n \in Names PROVE CellOf(n, env, <<>>, 0) \in Contents
    BY <1>1, <2>1, CellType
  <2>3. Unset \in Contents
    BY DEF Contents
  <2> QED  BY <2>2, <2>3 DEF Global
<1>3. InScopes(plain, env, <<>>) = <<>>
  BY DEF InScopes
<1>4. ShellsOf(plain, <<>>) = <<>>
  <2>1. ForksOf(<<>>) = {}
    BY DEF ForksOf
  <2>2. Cardinality(ForksOf(<<>>)) = 0
    BY <2>1, FS_EmptySet
  <2>3. 1 .. 0 = {}
    OBVIOUS
  <2> QED  BY <2>2, <2>3 DEF ShellsOf
<1> QED
  BY <1>1, <1>2, <1>3, <1>4, Mapping DEF Cells!Init, Cells!Contents, Contents

LEMMA ToEnter ==
  ASSUME Global(plain', env', localScopes') = Global(plain, env, localScopes),
         InScopes(plain', env', localScopes') =
           Append(InScopes(plain, env, localScopes), NoScope),
         ShellsOf(plain', frames') = ShellsOf(plain, frames)
  PROVE  Cells!Enter
  BY Mapping, NextMapping DEF Cells!Enter, NoScope

\* Steps of the abstract shell, told apart by what they do to the view.
LEMMA ToLeave ==
  ASSUME Global(plain', env', localScopes') = Global(plain, env, localScopes),
         InScopes(plain, env, localScopes) # <<>>,
         InScopes(plain', env', localScopes') = Front(InScopes(plain, env, localScopes)),
         ShellsOf(plain', frames') = ShellsOf(plain, frames)
  PROVE  Cells!Leave
  BY Mapping, NextMapping DEF Cells!Leave, Front

LEMMA ToFork ==
  ASSUME Global(plain', env', localScopes') = Global(plain, env, localScopes),
         InScopes(plain', env', localScopes') = InScopes(plain, env, localScopes),
         ShellsOf(plain', frames') =
           Append(ShellsOf(plain, frames),
                  [global |-> Global(plain, env, localScopes),
                   scopes |-> InScopes(plain, env, localScopes)])
  PROVE  Cells!Fork
  BY Mapping, NextMapping DEF Cells!Fork

LEMMA ToJoin ==
  ASSUME NEW x, ShellsOf(plain, frames) # <<>>,
         ShellsOf(plain, frames)[Len(ShellsOf(plain, frames))] = Held(plain, x),
         Global(plain', env', localScopes') = Global(plain, x.env, x.scopes),
         InScopes(plain', env', localScopes') = InScopes(plain, x.env, x.scopes),
         ShellsOf(plain', frames') =
           SubSeq(ShellsOf(plain, frames), 1, Len(ShellsOf(plain, frames)) - 1)
  PROVE  Cells!Join
<1>1. /\ Held(plain, x).global = Global(plain, x.env, x.scopes)
      /\ Held(plain, x).scopes = InScopes(plain, x.env, x.scopes)
  BY DEF Held
<1> QED
  BY <1>1, Mapping, NextMapping DEF Cells!Join

LEMMA ToStutter ==
  ASSUME Global(plain', env', localScopes') = Global(plain, env, localScopes),
         InScopes(plain', env', localScopes') = InScopes(plain, env, localScopes),
         ShellsOf(plain', frames') = ShellsOf(plain, frames)
  PROVE  UNCHANGED Cells!vars
  BY Mapping, NextMapping DEF Cells!vars

LEMMA ToDeclare ==
  ASSUME NEW n \in Names, NEW v \in Contents,
         InScopes(plain, env, localScopes) # <<>>,
         Global(plain', env', localScopes') = Global(plain, env, localScopes),
         InScopes(plain', env', localScopes') =
           [InScopes(plain, env, localScopes)
              EXCEPT ![Len(InScopes(plain, env, localScopes))][n] = v],
         ShellsOf(plain', frames') = ShellsOf(plain, frames)
  PROVE  Cells!Declare(n)
  BY Mapping, NextMapping DEF Cells!Declare, Cells!Contents, Contents

\* The scope whose cell a command reaches.
LEMMA Reached ==
  ASSUME NEW n,
         NEW q \in DOMAIN InScopes(plain, env, localScopes),
         InScopes(plain, env, localScopes)[q][n] # NoCell,
         \A i \in DOMAIN InScopes(plain, env, localScopes) :
           InScopes(plain, env, localScopes)[i][n] # NoCell => i <= q
  PROVE  Cells!Innermost(n, q)
  BY Mapping DEF Cells!Innermost, Cells!Declaring

LEMMA ToWriteGlobal ==
  ASSUME NEW n \in Names, NEW v \in Contents,
         \A i \in DOMAIN InScopes(plain, env, localScopes) :
           InScopes(plain, env, localScopes)[i][n] = NoCell,
         Global(plain', env', localScopes') = [Global(plain, env, localScopes) EXCEPT ![n] = v],
         InScopes(plain', env', localScopes') = InScopes(plain, env, localScopes),
         ShellsOf(plain', frames') = ShellsOf(plain, frames)
  PROVE  Cells!Write(n)
<1>1. Cells!Declaring(n) = {}
  BY Mapping DEF Cells!Declaring
<1>2. v \in Cells!Contents
  BY DEF Cells!Contents, Contents
<1> QED
  BY <1>1, <1>2, Mapping, NextMapping DEF Cells!Write

LEMMA ToWriteScope ==
  ASSUME NEW n \in Names, NEW v \in Contents,
         NEW q \in DOMAIN InScopes(plain, env, localScopes), Cells!Innermost(n, q),
         Global(plain', env', localScopes') = Global(plain, env, localScopes),
         InScopes(plain', env', localScopes') =
           [InScopes(plain, env, localScopes) EXCEPT ![q][n] = v],
         ShellsOf(plain', frames') = ShellsOf(plain, frames)
  PROVE  Cells!Write(n)
<1>1. v \in Cells!Contents
  BY DEF Cells!Contents, Contents
<1> QED
  BY <1>1, Mapping, NextMapping DEF Cells!Write

LEMMA ToRemove ==
  ASSUME NEW n \in Names,
         NEW q \in DOMAIN InScopes(plain, env, localScopes), Cells!Innermost(n, q),
         Global(plain', env', localScopes') = Global(plain, env, localScopes),
         InScopes(plain', env', localScopes') =
           [InScopes(plain, env, localScopes) EXCEPT ![q][n] = NoCell],
         ShellsOf(plain', frames') = ShellsOf(plain, frames)
  PROVE  Cells!Remove(n)
  BY Mapping, NextMapping DEF Cells!Remove

\* An assignment, a declaration, an unset or a read.
LEMMA CommandMaps ==
  ASSUME IInv, NEW n \in Names, Command(n)
  PROVE  Cells!Write(n) \/ Cells!Declare(n) \/ Cells!Remove(n) \/ UNCHANGED Cells!vars
<1> DEFINE V == InScopes(plain, env, localScopes)
           W == InScopes(plain, env', localScopes')
<1>1. /\ TypeOK /\ NoPrefix(plain, tempEnvBindings, frames)
      /\ BooksFit(localVarStack, fullyUnsetLocals, Depth)
  BY DEF IInv
<1>2. Sound(n) /\ plain' = plain /\ frames' = frames
  BY <1>1, CommandsAreSound
<1>3. /\ env \in [Names -> Contents] /\ localScopes \in Seq(Scope) /\ plain \subseteq Names
      /\ env' \in [Names -> Contents] /\ localScopes' \in Seq(Scope)
      /\ Len(localScopes') = Len(localScopes)
      /\ \A m \in Names \ {n} : env'[m] = env[m]
      /\ \A m \in Names \ {n} : \A i \in 1 .. Len(localScopes) :
           localScopes'[i][m] = localScopes[i][m]
      /\ env'[n] \in Contents
  BY <1>1, <1>2 DEF Sound, Column, TypeOK, Depth
<1>4. ShellsOf(plain', frames') = ShellsOf(plain, frames)
  BY <1>2
<1>5. /\ DOMAIN V = DOMAIN localScopes
      /\ \A i \in DOMAIN localScopes : V[i] = InScope(plain, env, localScopes, i)
  BY DEF InScopes
<1>6. /\ Len(V) = Len(localScopes) /\ Len(localScopes) \in Nat
      /\ DOMAIN localScopes = 1 .. Len(localScopes)
  BY <1>3, InScopesSeq, LenProperties
<1> HIDE DEF V, W
<1>7. CASE n \notin plain
  <2>1. \A m \in plain \cap Names : m \in Names \ {n}
    BY <1>7
  <2>2. Global(plain, env', localScopes') = Global(plain, env, localScopes) /\ W = V
    BY SMTT(30), <1>3, <2>1, SameView DEF V, W, Alike
  <2> QED  BY <2>2, <1>2, <1>4, ToStutter DEF V, W
<1>8. CASE n \in plain
  <2>0. Turns(plain, n, env, env', localScopes, localScopes')
    BY <1>3, <1>8 DEF Turns
  <2>1. Writes(n) \/ Declares(n) \/ Drops(n)
    BY <1>1, <1>2, <1>8, NotBound DEF Sound
  <2>2. CASE Writes(n)
    <3>1. localScopes' = localScopes
      BY <2>2 DEF Writes
    <3>2. \/ /\ \A i \in DOMAIN localScopes : InScope(plain, env, localScopes, i)[n] = NoCell
             /\ Global(plain, env', localScopes) = [Global(plain, env, localScopes) EXCEPT ![n] = env'[n]]
             /\ W = V
          \/ \E q \in DOMAIN localScopes :
               /\ InScope(plain, env, localScopes, q)[n] # NoCell
               /\ \A i \in DOMAIN localScopes :
                    InScope(plain, env, localScopes, i)[n] # NoCell => i <= q
               /\ Global(plain, env', localScopes) = Global(plain, env, localScopes)
               /\ W = [V EXCEPT ![q][n] = env'[n]]
      BY SMTT(30), <1>3, <2>0, <3>1, WriteView DEF V, W
    <3>3. CASE /\ \A i \in DOMAIN localScopes : InScope(plain, env, localScopes, i)[n] = NoCell
               /\ Global(plain, env', localScopes) = [Global(plain, env, localScopes) EXCEPT ![n] = env'[n]]
               /\ W = V
      <4>1. \A i \in DOMAIN V : V[i][n] = NoCell
        BY <1>5, <3>3
      <4> QED  BY <4>1, <1>2, <1>3, <1>4, <3>1, <3>3, ToWriteGlobal DEF V, W
    <3>4. ASSUME NEW q \in DOMAIN localScopes,
                 InScope(plain, env, localScopes, q)[n] # NoCell,
                 \A i \in DOMAIN localScopes :
                   InScope(plain, env, localScopes, i)[n] # NoCell => i <= q,
                 Global(plain, env', localScopes) = Global(plain, env, localScopes),
                 W = [V EXCEPT ![q][n] = env'[n]]
          PROVE  Cells!Write(n)
      <4>1. /\ q \in DOMAIN V /\ V[q][n] # NoCell
            /\ \A i \in DOMAIN V : V[i][n] # NoCell => i <= q
        BY <1>5, <3>4
      <4>2. Cells!Innermost(n, q)
        BY <4>1, Reached DEF V
      <4> QED  BY <4>1, <4>2, <1>2, <1>3, <1>4, <3>1, <3>4, ToWriteScope DEF V, W
    <3> QED  BY <3>2, <3>3, <3>4
  <2>3. CASE Declares(n)
    <3>1. /\ Len(localScopes) > 0 /\ localScopes[Len(localScopes)][n] = NoCell
          /\ Hides(localScopes', localScopes, n, env[n])
      BY <2>3 DEF Declares, Depth, Hides
    <3>2. /\ Global(plain, env', localScopes') = Global(plain, env, localScopes)
          /\ W = [V EXCEPT ![Len(V)][n] = env'[n]]
      BY <1>3, <1>6, <2>0, <3>1, DeclareView DEF V, W
    <3>3. V # <<>>
      BY <1>6, <3>1
    <3> QED  BY <3>2, <3>3, <1>2, <1>3, <1>4, ToDeclare DEF V, W
  <2>4. CASE Drops(n)
    <3> DEFINE q == InnerScope(n)
    <3>1. /\ Scopes(n) # {} /\ env'[n] = localScopes[q][n]
          /\ localScopes' = Without(localScopes, q, n)
      BY <2>4 DEF Drops, Without
    <3>2. /\ q \in DOMAIN localScopes /\ localScopes[q][n] # NoCell
          /\ \A j \in DOMAIN localScopes : localScopes[j][n] # NoCell => j <= q
      BY <3>1, <1>1, ScopeFacts DEF Scopes
    <3> HIDE DEF q
    <3>3. /\ Global(plain, env', localScopes') = Global(plain, env, localScopes)
          /\ W = [V EXCEPT ![q][n] = NoCell]
      BY SMTT(30), <1>3, <2>0, <3>1, <3>2, DropView DEF V, W
    <3>4. /\ q \in DOMAIN V /\ V[q][n] # NoCell
          /\ \A i \in DOMAIN V : V[i][n] # NoCell => i <= q
      <4>1. \A i \in DOMAIN localScopes : V[i][n] # NoCell <=> localScopes[i][n] # NoCell
        <5>1. \A i \in DOMAIN localScopes : i \in Nat
          BY <1>6
        <5> QED  BY <5>1, <1>3, <1>5, <1>8, CellType DEF InScope
      <4> QED  BY <4>1, <1>5, <3>2
    <3>5. Cells!Innermost(n, q)
      BY <3>4, Reached DEF V
    <3> QED  BY <3>3, <3>4, <3>5, <1>2, <1>4, ToRemove DEF V, W
  <2> QED  BY <2>1, <2>2, <2>3, <2>4
<1> QED
  BY <1>7, <1>8

\* Constructs on their way in.
LEMMA ShellsPushed ==
  ASSUME TypeOK, frames \in Seq(Frame), NEW x \in Frame, Push(x)
  PROVE  /\ plain' = plain
         /\ ~IsFork(x) => ShellsOf(plain', frames') = ShellsOf(plain, frames)
         /\ IsFork(x) =>
              ShellsOf(plain', frames') = Append(ShellsOf(plain, frames), Held(plain, x))
<1>1. frames' = Append(frames, x) /\ plain' = plain
  BY DEF Push
<1>2. /\ frames' \in Seq(Frame) /\ Extends(frames', frames)
      /\ frames'[Len(frames) + 1] = x
  BY <1>1, Pushing
<1>3. Grows(plain, frames, frames', x)
  BY <1>2 DEF TypeOK, Grows
<1> QED
  BY <1>1, <1>3, ShellsGrow

LEMMA CallMaps ==
  ASSUME IInv, Call
  PROVE  Cells!Enter
<1> DEFINE x == [kind |-> "call"]
<1>1. /\ TypeOK /\ frames \in Seq(Frame) /\ env \in [Names -> Contents] /\ localScopes \in Seq(Scope)
  BY DEF IInv, TypeOK
<1>2. x \in Frame /\ ~IsFork(x) /\ Push(x)
  BY DEF Frame, CallFrame, IsFork, Call
<1>3. env' = env /\ localScopes' = Append(localScopes, NoScope)
  BY DEF Call
<1> HIDE DEF x
<1>4. /\ ShellsOf(plain', frames') = ShellsOf(plain, frames) /\ plain' = plain
  BY <1>1, <1>2, ShellsPushed
<1>5. /\ Global(plain, env, Append(localScopes, NoScope)) = Global(plain, env, localScopes)
      /\ InScopes(plain, env, Append(localScopes, NoScope)) =
           Append(InScopes(plain, env, localScopes), NoScope)
  BY <1>1, EnterView
<1> QED
  BY <1>3, <1>4, <1>5, ToEnter

LEMMA PrefixMaps ==
  ASSUME IInv, NEW n \in Names, NEW v \in Values, Prefix(n, v)
  PROVE  UNCHANGED Cells!vars
<1> DEFINE x == [kind |-> "prefix", name |-> n, value |-> env[n]]
<1>1. /\ TypeOK /\ frames \in Seq(Frame) /\ env \in [Names -> Contents] /\ localScopes \in Seq(Scope)
  BY DEF IInv, TypeOK
<1>2. x \in Frame /\ ~IsFork(x) /\ Push(x)
  BY <1>1 DEF Frame, PrefixFrame, IsFork, Prefix
<1>3. n \notin plain /\ env' = [env EXCEPT ![n] = v] /\ localScopes' = localScopes
  BY DEF Prefix, books
<1> HIDE DEF x
<1>4. /\ ShellsOf(plain', frames') = ShellsOf(plain, frames) /\ plain' = plain
  BY <1>1, <1>2, ShellsPushed
<1>5. Alike(plain, env, env', localScopes, localScopes)
  BY <1>1, <1>3 DEF Alike
<1>6. /\ Global(plain, env', localScopes) = Global(plain, env, localScopes)
      /\ InScopes(plain, env', localScopes) = InScopes(plain, env, localScopes)
  BY <1>5, SameView
<1> QED
  BY <1>3, <1>4, <1>6, ToStutter

LEMMA SubshellMaps ==
  ASSUME IInv, Subshell
  PROVE  Cells!Fork
<1> DEFINE x == [kind |-> "subshell", env |-> env, scopes |-> localScopes,
                 depth |-> localVarDepth, stack |-> localVarStack,
                 fully |-> fullyUnsetLocals]
<1>1. TypeOK /\ frames \in Seq(Frame)
  BY DEF IInv
<1>2. x \in Frame
  BY DEF IInv, TypeOK, Frame, SubshellFrame
<1>3. IsFork(x) /\ x.env = env /\ x.scopes = localScopes
  BY DEF IsFork
<1>4. Push(x) /\ env' = env /\ localScopes' = localScopes
  BY DEF Subshell, books
<1> HIDE DEF x
<1>5. /\ ShellsOf(plain', frames') = Append(ShellsOf(plain, frames), Held(plain, x))
      /\ plain' = plain
  BY <1>1, <1>2, <1>3, <1>4, ShellsPushed
<1> QED
  BY <1>3, <1>4, <1>5, ToFork DEF Held

LEMMA PieceMaps ==
  ASSUME IInv, Piece
  PROVE  Cells!Fork
<1> DEFINE x == [kind |-> "piece", env |-> env, scopes |-> localScopes]
<1>1. TypeOK /\ frames \in Seq(Frame)
  BY DEF IInv
<1>2. x \in Frame
  BY DEF IInv, TypeOK, Frame, PieceFrame
<1>3. IsFork(x) /\ x.env = env /\ x.scopes = localScopes
  BY DEF IsFork
<1>4. Push(x) /\ env' = env /\ localScopes' = localScopes
  BY DEF Piece, books
<1> HIDE DEF x
<1>5. /\ ShellsOf(plain', frames') = Append(ShellsOf(plain, frames), Held(plain, x))
      /\ plain' = plain
  BY <1>1, <1>2, <1>3, <1>4, ShellsPushed
<1> QED
  BY <1>3, <1>4, <1>5, ToFork DEF Held

\* Constructs on their way out.
LEMMA ShellsPopped ==
  ASSUME TypeOK, frames \in Seq(Frame), frames # <<>>, Pop
  PROVE  /\ plain' = plain /\ Last(frames) \in Frame
         /\ ~IsFork(Last(frames)) => ShellsOf(plain', frames') = ShellsOf(plain, frames)
         /\ IsFork(Last(frames)) =>
              /\ ShellsOf(plain, frames) # <<>>
              /\ ShellsOf(plain, frames)[Len(ShellsOf(plain, frames))] =
                   Held(plain, Last(frames))
              /\ ShellsOf(plain', frames') =
                   SubSeq(ShellsOf(plain, frames), 1, Len(ShellsOf(plain, frames)) - 1)
<1>1. frames' = Front(frames) /\ plain' = plain
  BY DEF Pop
<1>2. /\ frames' \in Seq(Frame) /\ Extends(frames, frames') /\ Last(frames) \in Frame
      /\ Last(frames) = frames[Len(frames') + 1]
  BY <1>1, Popping
<1>3. Len(<<>>) = 0
  OBVIOUS
<1>4. Len(ShellsOf(plain, frames)) \in Nat \ {0} => ShellsOf(plain, frames) # <<>>
  BY <1>3
<1>5. Grows(plain, frames', frames, Last(frames))
  BY <1>2 DEF TypeOK, Grows
<1> QED
  BY <1>1, <1>2, <1>4, <1>5, ShellsGrow

LEMMA CleanupMaps ==
  ASSUME IInv, Is("call"), Cleanup, Pop
  PROVE  Cells!Leave
<1>1. /\ TypeOK /\ frames \in Seq(Frame) /\ env \in [Names -> Contents] /\ localScopes \in Seq(Scope)
      /\ Heights(frames, Depth) /\ frames # <<>> /\ Last(frames).kind = "call"
  BY DEF IInv, TypeOK, Is
<1>2. Depth > 0 /\ ~IsFork(Last(frames))
  BY <1>1, HeightsPopped DEF IsFork
<1>3. localScopes # <<>>
  BY <1>2 DEF Depth
<1>4. /\ env' = [n \in Names |-> IF Last(localScopes)[n] = NoCell THEN env[n]
                                 ELSE Last(localScopes)[n]]
      /\ localScopes' = Front(localScopes)
  BY DEF Cleanup
<1>5. /\ ShellsOf(plain', frames') = ShellsOf(plain, frames) /\ plain' = plain
  BY <1>1, <1>2, ShellsPopped
<1>6. Last(localScopes) \in Scope
  BY <1>1, <1>3, Popping
<1>7. env' \in [Names -> Contents]
  BY <1>1, <1>4, <1>6 DEF Scope
<1>8. \A n \in Names : env'[n] = IF Last(localScopes)[n] = NoCell THEN env[n]
                                 ELSE Last(localScopes)[n]
  BY <1>4
<1>9. /\ Global(plain, env', Front(localScopes)) = Global(plain, env, localScopes)
      /\ InScopes(plain, env', Front(localScopes)) = Front(InScopes(plain, env, localScopes))
  BY <1>1, <1>3, <1>7, <1>8, LeaveView
<1>10. InScopes(plain, env, localScopes) # <<>>
  BY <1>1, <1>2, InScopesSeq DEF Depth
<1> QED
  BY <1>4, <1>5, <1>9, <1>10, ToLeave

LEMMA RestoreMaps ==
  ASSUME IInv, Is("prefix"), Restore, Pop
  PROVE  UNCHANGED Cells!vars
<1> DEFINE x == Last(frames)
<1>1. /\ TypeOK /\ frames \in Seq(Frame) /\ env \in [Names -> Contents]
      /\ localScopes \in Seq(Scope) /\ NoPrefix(plain, tempEnvBindings, frames)
      /\ frames # <<>> /\ x.kind = "prefix"
  BY DEF IInv, TypeOK, Is
<1>2. /\ ShellsOf(plain', frames') = ShellsOf(plain, frames) /\ plain' = plain
  BY <1>1, ShellsPopped DEF IsFork
<1>3. x.name \notin plain
  <2>1. Len(frames) \in Nat /\ DOMAIN frames = 1 .. Len(frames) /\ Len(frames) # 0
    BY <1>1, LenProperties, EmptySeq
  <2>2. Len(frames) \in DOMAIN frames
    BY <2>1
  <2> QED  BY <1>1, <2>2 DEF NoPrefix, Last
<1>4. /\ localScopes' = localScopes
      /\ env' = IF fullyUnsetLocals[x.name] # NoCell THEN env
                ELSE [env EXCEPT ![x.name] = x.value]
  BY DEF Restore, books
<1> HIDE DEF x
<1>5. Alike(plain, env, env', localScopes, localScopes)
  BY <1>1, <1>3, <1>4 DEF Alike
<1>6. /\ Global(plain, env', localScopes) = Global(plain, env, localScopes)
      /\ InScopes(plain, env', localScopes) = InScopes(plain, env, localScopes)
  BY <1>5, SameView
<1> QED
  BY <1>2, <1>4, <1>6, ToStutter

LEMMA NotRestoredMaps ==
  ASSUME IInv, Is("prefix"), NotRestored, Pop
  PROVE  UNCHANGED Cells!vars
<1>1. TypeOK /\ frames \in Seq(Frame) /\ frames # <<>> /\ Last(frames).kind = "prefix"
  BY DEF IInv, Is
<1>2. /\ ShellsOf(plain', frames') = ShellsOf(plain, frames) /\ plain' = plain
  BY <1>1, ShellsPopped DEF IsFork
<1>3. env' = env /\ localScopes' = localScopes
  BY DEF NotRestored, books
<1> QED
  BY <1>2, <1>3, ToStutter

\* A subshell gives back the values and the scopes.
LEMMA RestoreShellMaps ==
  ASSUME IInv, Is("subshell"), RestoreShell, Pop
  PROVE  Cells!Join
<1>1. /\ TypeOK /\ frames \in Seq(Frame) /\ frames # <<>>
      /\ Last(frames).kind = "subshell"
  BY DEF IInv, Is
<1>2. IsFork(Last(frames))
  BY <1>1 DEF IsFork
<1>3. /\ plain' = plain /\ ShellsOf(plain, frames) # <<>>
      /\ ShellsOf(plain, frames)[Len(ShellsOf(plain, frames))] = Held(plain, Last(frames))
      /\ ShellsOf(plain', frames') =
           SubSeq(ShellsOf(plain, frames), 1, Len(ShellsOf(plain, frames)) - 1)
  BY <1>1, <1>2, ShellsPopped
<1>4. env' = Last(frames).env /\ localScopes' = Last(frames).scopes
  BY DEF RestoreShell
<1> QED
  BY <1>3, <1>4, ToJoin

\* A substitution or a command of a pipeline gives back the values only; the scopes
\* of the calls around hide what they hid.
LEMMA RestoreValuesMaps ==
  ASSUME IInv, Is("piece"), RestoreValues, Pop
  PROVE  Cells!Join
<1> DEFINE x == Last(frames)
<1>1. /\ TypeOK /\ frames \in Seq(Frame) /\ frames # <<>> /\ x.kind = "piece"
      /\ Heights(frames, Depth) /\ Kept(frames, localScopes, plain)
      /\ localScopes \in Seq(Scope)
  BY DEF IInv, Is, TypeOK
<1>2. IsFork(x) /\ x \in PieceFrame
  BY <1>1, Popping, FrameTypes DEF IsFork
<1>3. /\ plain' = plain /\ ShellsOf(plain, frames) # <<>>
      /\ ShellsOf(plain, frames)[Len(ShellsOf(plain, frames))] = Held(plain, x)
      /\ ShellsOf(plain', frames') =
           SubSeq(ShellsOf(plain, frames), 1, Len(ShellsOf(plain, frames)) - 1)
  BY <1>1, <1>2, ShellsPopped
<1>4. env' = x.env /\ localScopes' = localScopes
  BY DEF RestoreValues, books
<1>5. Len(x.scopes) = Len(localScopes) /\ x.scopes \in Seq(Scope)
  BY <1>1, <1>2, HeightsPopped DEF Depth, PieceFrame
<1>6. Holds(localScopes, x, plain)
  <2>1. Len(frames) \in Nat /\ DOMAIN frames = 1 .. Len(frames) /\ Len(frames) # 0
    BY <1>1, LenProperties, EmptySeq
  <2>2. Len(frames) \in DOMAIN frames /\ frames[Len(frames)].kind = "piece"
    BY <1>1, <2>1 DEF Last
  <2>3. Holds(localScopes, frames[Len(frames)], plain)
    BY <1>1, <2>2 DEF Kept
  <2> QED  BY <2>3 DEF Last
<1> HIDE DEF x
<1>7. Alike(plain, x.env, env', x.scopes, localScopes)
  BY <1>1, <1>4, <1>5, <1>6 DEF Alike, Holds
<1>8. /\ Global(plain, env', localScopes) = Global(plain, x.env, x.scopes)
      /\ InScopes(plain, env', localScopes) = InScopes(plain, x.env, x.scopes)
  BY <1>7, SameView
<1> QED
  BY <1>3, <1>4, <1>8, ToJoin

\* Every step is a step of DynamicScope, or one that it does not see.
LEMMA StepMaps == IInv /\ [Next]_vars => [Cells!Next]_(Cells!vars)
<1> SUFFICES ASSUME IInv, [Next]_vars PROVE Cells!Next \/ UNCHANGED Cells!vars
  OBVIOUS
<1>1. ASSUME NEW n \in Names, Command(n) PROVE Cells!Next \/ UNCHANGED Cells!vars
  BY <1>1, CommandMaps DEF Cells!Next
<1>2. CASE Call
  BY <1>2, CallMaps DEF Cells!Next
<1>3. CASE Subshell
  BY <1>3, SubshellMaps DEF Cells!Next
<1>4. CASE Piece
  BY <1>4, PieceMaps DEF Cells!Next
<1>5. ASSUME NEW n \in Names, NEW v \in Values, Prefix(n, v)
      PROVE  Cells!Next \/ UNCHANGED Cells!vars
  BY <1>5, PrefixMaps
<1>6. CASE End \/ Unwind
  <2>1. Pop
    BY <1>6 DEF End, Unwind
  <2>2. CASE Is("call") /\ Cleanup
    BY <2>1, <2>2, CleanupMaps DEF Cells!Next
  <2>3. CASE Is("prefix") /\ Restore
    BY <2>1, <2>3, RestoreMaps
  <2>4. CASE Is("prefix") /\ NotRestored
    BY <2>1, <2>4, NotRestoredMaps
  <2>5. CASE Is("subshell") /\ RestoreShell
    BY <2>1, <2>5, RestoreShellMaps DEF Cells!Next
  <2>6. CASE Is("piece") /\ RestoreValues
    BY <2>1, <2>6, RestoreValuesMaps DEF Cells!Next
  <2> QED  BY <1>6, <2>2, <2>3, <2>4, <2>5, <2>6 DEF End, Unwind
<1>7. CASE Throw \/ UNCHANGED vars
  <2>1. env' = env /\ localScopes' = localScopes /\ frames' = frames /\ plain' = plain
    BY <1>7 DEF Throw, vars, books
  <2> QED  BY <2>1, ToStutter
<1> QED
  BY <1>1, <1>2, <1>3, <1>4, <1>5, <1>6, <1>7 DEF Next

\* A name that is neither prefixed nor declared local in a substitution has dynamic
\* scope, whatever script runs: one map of values and what the calls hide stand for a
\* cell per call and name; an assignment or an unset reaches the innermost cell and no
\* other, a call takes its cells with it on every way out of it, and subshells,
\* substitutions and pipelines leave no trace.
THEOREM ScopesAreDynamic == Spec => ImplementsScopes
<1>1. Init => Cells!Init
  BY Begins
<1>2. IInv /\ [Next]_vars => [Cells!Next]_(Cells!vars)
  BY StepMaps
<1> QED
  BY <1>1, <1>2, Always, PTL DEF Spec, ImplementsScopes, Cells!Spec
=============================================================================
