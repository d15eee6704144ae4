-------------------------- MODULE ExecCallsProofs --------------------------
(***************************************************************************)
(* Proofs about ExecCalls, for every number of calls, every set of Bash    *)
(* objects and every configuration of them.  The patches of the box depend *)
(* on its reference count only, and the property speaks of executions: the *)
(* inductive invariant says that the handles held are those of the guarded *)
(* executions that run, and that the count is their number.                *)
(***************************************************************************)
EXTENDS ExecCalls, FiniteSetTheorems, TLAPS

Guarded(e) == Config[shell[e]] # "absent"

(* The ids beyond the calls made are not in use.                           *)
Unused == \A e \in Execs : e > used => st[e] = "new" /\ sets[e] = {}

(* The handles held, and the box that gave them.                           *)
HandlesHeld ==
  /\ handles = {e \in Execs : Running(e) /\ Guarded(e) /\ box = "on"}
  /\ \A e \in Execs : Running(e) /\ Guarded(e) => box # "none"

(* What the box knows of its handles.                                      *)
BoxCounts ==
  /\ box \in {"none", "on", "off"}
  /\ handles \in SUBSET Execs
  /\ refs \in Nat /\ refs = Cardinality(handles)
  /\ patched \in BOOLEAN /\ (patched <=> refs > 0)

CallsOK ==
  /\ used \in 0..MaxExecs
  /\ st \in [Execs -> {"new", "entering", "running", "calling", "resolved", "rejected"}]
  /\ shell \in [Execs -> Shells]
  /\ parent \in [Execs -> Execs \cup {Host}]
  /\ count \in [Execs -> 0..(MaxCount + 1)]
  /\ sets \in [Execs -> SUBSET Execs]
  /\ how \in [Execs -> {"none", "await", "race"}]
  /\ on \in [Execs -> SUBSET Execs]

IInv == CallsOK /\ BoxCounts /\ Unused /\ HandlesHeld

-----------------------------------------------------------------------------
(* Sets of executions.                                                     *)

LEMMA ExecsFinite ==
  /\ IsFiniteSet(Execs)
  /\ \A S \in SUBSET Execs : IsFiniteSet(S) /\ Cardinality(S) \in Nat
<1>1. IsFiniteSet(1..MaxExecs)
  <2>1. 1 \in Int /\ MaxExecs \in Int
    BY ExecAssumption
  <2> QED BY <2>1, FS_Interval
<1>2. IsFiniteSet(Execs)
  BY <1>1 DEF Execs
<1>3. ASSUME NEW S \in SUBSET Execs
      PROVE  IsFiniteSet(S) /\ Cardinality(S) \in Nat
  <2>1. IsFiniteSet(S)
    BY <1>2, FS_Subset
  <2> QED BY <2>1, FS_CardinalityType
<1> QED BY <1>2, <1>3

LEMMA FreshCalls ==
  ASSUME CallsOK, Unused, NEW n \in Nat, used + n <= MaxExecs
  PROVE  /\ Fresh(n) \in SUBSET Execs
         /\ Cardinality(Fresh(n)) = n
         /\ used + n \in 0..MaxExecs
         /\ \A e \in Fresh(n) : st[e] = "new"
         /\ \A e \in Execs : e > used + n => e > used /\ e \notin Fresh(n)
<1>1. used \in Nat
  BY ExecAssumption DEF CallsOK
<1>2. Cardinality(Fresh(n)) = n
  BY <1>1, FS_Interval DEF Fresh
<1> QED
  BY <1>1, <1>2, ExecAssumption DEF Fresh, Execs, Unused

-----------------------------------------------------------------------------
(* The box: its count follows the handles it gives and takes back.         *)

LEMMA ActivateCounts ==
  ASSUME BoxCounts, NEW E \in SUBSET Execs, NEW s \in Shells,
         E \cap handles = {}, Activate(E, s)
  PROVE  /\ BoxCounts'
         /\ box # "none" => box' = box
         /\ Config[s] # "absent" /\ E # {} => box' # "none"
         /\ handles' = IF Config[s] # "absent" /\ box' = "on" THEN handles \cup E ELSE handles
<1>1. CASE Config[s] = "absent" \/ E = {}
  BY <1>1 DEF Activate, boxVars, BoxCounts
<1>2. CASE Config[s] # "absent" /\ E # {}
  <2>1. box' = BoxFor(s) /\ BoxFor(s) \in {"on", "off"}
    BY <1>2, ExecAssumption DEF Activate, BoxFor, BoxCounts
  <2>2. CASE BoxFor(s) = "on"
    <3>1. /\ refs' = refs + Cardinality(E)
          /\ patched' = (IF refs = 0 THEN TRUE ELSE patched)
          /\ handles' = handles \cup E
      BY <1>2, <2>2 DEF Activate
    <3>2. /\ IsFiniteSet(handles) /\ IsFiniteSet(E)
          /\ Cardinality(E) \in Nat /\ Cardinality(handles) \in Nat
      BY ExecsFinite DEF BoxCounts
    <3>3. Cardinality(handles \cup E) = Cardinality(handles) + Cardinality(E)
      <4>1. Cardinality(handles \cap E) = 0
        BY FS_EmptySet, handles \cap E = {}
      <4>2. Cardinality(handles \cup E)
              = Cardinality(handles) + Cardinality(E) - Cardinality(handles \cap E)
        BY <3>2, FS_Union
      <4> QED BY <3>2, <4>1, <4>2
    <3>4. Cardinality(E) > 0
      BY <1>2, <3>2, FS_EmptySet
    <3>5. /\ refs' \in Nat /\ refs' > 0 /\ refs' = Cardinality(handles')
          /\ handles' \in SUBSET Execs
      BY <3>1, <3>2, <3>3, <3>4 DEF BoxCounts
    <3>6. patched' = TRUE
      BY <3>1 DEF BoxCounts
    <3> QED BY <1>2, <2>1, <2>2, <3>1, <3>5, <3>6 DEF BoxCounts, BoxFor
  <2>3. CASE BoxFor(s) = "off"
    BY <1>2, <2>1, <2>3 DEF Activate, BoxCounts, BoxFor
  <2> QED BY <2>1, <2>2, <2>3
<1> QED BY <1>1, <1>2

LEMMA DeactivateCounts ==
  ASSUME BoxCounts, NEW e \in Execs, Deactivate(e)
  PROVE  /\ BoxCounts'
         /\ box' = box
         /\ handles' = handles \ {e}
<1>1. IsFiniteSet(handles) /\ Cardinality(handles \ {e}) \in Nat
  BY ExecsFinite DEF BoxCounts
<1>2. Cardinality(handles \ {e}) = IF e \in handles THEN refs - 1 ELSE refs
  BY <1>1, FS_RemoveElement DEF BoxCounts
<1>3. CASE e \in handles
  <2>1. /\ refs' = refs - 1
        /\ patched' = (IF refs = 1 THEN FALSE ELSE patched)
        /\ handles' = handles \ {e} /\ box' = box
    BY <1>3 DEF Deactivate
  <2>2. refs' \in Nat /\ refs' = Cardinality(handles')
    BY <1>1, <1>2, <1>3, <2>1
  <2>3. patched' \in BOOLEAN /\ (patched' <=> refs' > 0)
    <3>1. CASE refs = 1
      BY <2>1, <3>1
    <3>2. CASE refs # 1
      BY <2>1, <2>2, <3>2 DEF BoxCounts
    <3> QED BY <3>1, <3>2
  <2> QED BY <2>1, <2>2, <2>3 DEF BoxCounts
<1>4. CASE e \notin handles
  BY <1>4 DEF Deactivate, BoxCounts
<1> QED BY <1>3, <1>4

-----------------------------------------------------------------------------
(* The calls.                                                              *)

LEMMA InitIInv == Init => IInv
<1> SUFFICES ASSUME Init PROVE IInv
  OBVIOUS
<1>1. CallsOK
  BY ExecAssumption DEF Init, CallsOK, Execs
<1>2. BoxCounts
  <2>1. box = "none" /\ handles = {} /\ refs = 0 /\ patched = FALSE
    BY DEF Init
  <2>2. refs = Cardinality(handles)
    BY <2>1, FS_EmptySet
  <2>3. patched \in BOOLEAN /\ (patched <=> refs > 0)
    <3>1. ~(refs > 0)
      BY <2>1
    <3> QED BY <2>1, <3>1
  <2> QED BY <2>1, <2>2, <2>3 DEF BoxCounts
<1>3. Unused /\ HandlesHeld
  BY DEF Init, Unused, HandlesHeld, Running
<1> QED BY <1>1, <1>2, <1>3 DEF IInv

(* What exec leaves for n new calls of shell s, of a kind that may run at  *)
(* once, whatever the caller does to st and count.                         *)
ExecEffect(n, s, kind) ==
  /\ used' \in 0..MaxExecs /\ used' = used + n
  /\ shell' \in [Execs -> Shells]
  /\ parent' \in [Execs -> Execs \cup {Host}]
  /\ sets' \in [Execs -> SUBSET Execs]
  /\ BoxCounts'
  /\ box # "none" => box' = box
  /\ Begins(kind) \in {"resolved", "entering", "running"}
  /\ Begins(kind) = "running" /\ Config[s] # "absent" => box' # "none"
  /\ handles' = IF Begins(kind) = "running" /\ Config[s] # "absent" /\ box' = "on"
                THEN handles \cup Fresh(n) ELSE handles
  /\ \A e \in Execs : shell'[e] = IF e \in Fresh(n) THEN s ELSE shell[e]

LEMMA ExecKeeps ==
  ASSUME IInv, NEW n \in Nat, used + n <= MaxExecs, n > 0,
         NEW s \in Shells, NEW by \in Execs \cup {Host},
         NEW passed \in SUBSET Execs, NEW kind,
         Exec(Fresh(n), s, by, passed, kind)
  PROVE  ExecEffect(n, s, kind)
<1> DEFINE E == IF Begins(kind) = "running" THEN Fresh(n) ELSE {}
<1>1. /\ Fresh(n) \in SUBSET Execs /\ Cardinality(Fresh(n)) = n
      /\ used + n \in 0..MaxExecs
      /\ \A e \in Fresh(n) : st[e] = "new"
  BY FreshCalls DEF IInv
<1>2. E \cap handles = {}
  BY <1>1 DEF IInv, HandlesHeld, Running
<1>3. Activate(E, s)
  BY DEF Exec
<1>4. /\ BoxCounts' /\ (box # "none" => box' = box)
      /\ Config[s] # "absent" /\ E # {} => box' # "none"
      /\ handles' = IF Config[s] # "absent" /\ box' = "on" THEN handles \cup E ELSE handles
  <2> E \in SUBSET Execs
    BY <1>1
  <2> HIDE DEF E
  <2> QED BY <1>2, <1>3, ActivateCounts DEF IInv
<1>5. Fresh(n) # {}
  BY <1>1, FS_EmptySet
<1>6. /\ used' = used + n
      /\ shell' \in [Execs -> Shells]
      /\ parent' \in [Execs -> Execs \cup {Host}]
      /\ sets' \in [Execs -> SUBSET Execs]
      /\ \A e \in Execs : shell'[e] = IF e \in Fresh(n) THEN s ELSE shell[e]
  BY <1>1 DEF Exec, IInv, CallsOK
<1>7. Begins(kind) \in {"resolved", "entering", "running"}
  BY ExecAssumption DEF Begins
<1> QED BY <1>1, <1>4, <1>5, <1>6, <1>7 DEF ExecEffect

(* An execution that is not new changes no handle by how it is called:     *)
(* what is left to show is where the new ones and the old ones are.        *)
LEMMA NewCallsKeep ==
  ASSUME IInv, NEW n \in Nat, used + n <= MaxExecs, n > 0,
         NEW s \in Shells, NEW kind, ExecEffect(n, s, kind),
         \A e \in Execs \ Fresh(n) : sets'[e] = sets[e],
         \A e \in Fresh(n) : st'[e] = Begins(kind),
         \A e \in Execs \ Fresh(n) :
           \/ st'[e] = st[e]
           \/ Running(e) /\ Running(e)'
  PROVE  Unused' /\ HandlesHeld'
<1>1. /\ Fresh(n) \in SUBSET Execs
      /\ \A e \in Fresh(n) : st[e] = "new"
      /\ \A e \in Execs : e > used + n => e > used /\ e \notin Fresh(n)
  BY FreshCalls DEF IInv
<1>2. Unused'
  <2> SUFFICES ASSUME NEW e \in Execs, e > used + n
               PROVE  st'[e] = "new" /\ sets'[e] = {}
    BY DEF Unused, ExecEffect
  <2>1. e > used /\ e \in Execs \ Fresh(n)
    BY <1>1
  <2>2. st[e] = "new" /\ sets[e] = {}
    BY <2>1 DEF IInv, Unused
  <2> QED BY <2>1, <2>2 DEF Running
<1>3. ASSUME NEW e \in Execs \ Fresh(n)
      PROVE  (Running(e)' <=> Running(e)) /\ (Guarded(e)' <=> Guarded(e))
  BY <1>3 DEF Running, Guarded, ExecEffect
<1>4. ASSUME NEW e \in Fresh(n)
      PROVE  /\ Running(e)' <=> Begins(kind) = "running"
             /\ Guarded(e)' <=> Config[s] # "absent"
             /\ ~Running(e)
  BY <1>1, <1>4 DEF Running, Guarded, ExecEffect
<1>5. \A e \in Execs : Running(e)' /\ Guarded(e)' => box' # "none"
  <2> SUFFICES ASSUME NEW e \in Execs, Running(e)', Guarded(e)'
               PROVE  box' # "none"
    OBVIOUS
  <2>1. CASE e \in Fresh(n)
    BY <2>1, <1>4 DEF ExecEffect
  <2>2. CASE e \notin Fresh(n)
    BY <2>2, <1>3 DEF ExecEffect, IInv, HandlesHeld
  <2> QED BY <2>1, <2>2
<1>6. handles' = {e \in Execs : Running(e)' /\ Guarded(e)' /\ box' = "on"}
  <2>1. \A e \in handles' : e \in Execs
    BY DEF ExecEffect, BoxCounts
  <2>2. ASSUME NEW e \in Execs
        PROVE  e \in handles' <=> Running(e)' /\ Guarded(e)' /\ box' = "on"
    <3>1. CASE e \in Fresh(n)
      <4>1. e \notin handles
        BY <3>1, <1>4 DEF IInv, HandlesHeld
      <4> QED BY <3>1, <4>1, <1>4 DEF ExecEffect
    <3>2. CASE e \notin Fresh(n)
      <4>1. e \in handles' <=> e \in handles
        BY <3>2 DEF ExecEffect
      <4>2. e \in handles <=> Running(e) /\ Guarded(e) /\ box = "on"
        BY DEF IInv, HandlesHeld
      <4>3. Running(e) /\ Guarded(e) => box' = box
        BY DEF IInv, HandlesHeld, ExecEffect
      <4> QED BY <3>2, <4>1, <4>2, <4>3, <1>3
    <3> QED BY <3>1, <3>2
  <2> QED BY <2>1, <2>2
<1> QED BY <1>2, <1>5, <1>6 DEF HandlesHeld

LEMMA HostCallKeeps ==
  ASSUME IInv, NEW s \in Shells, HostCall(s)
  PROVE  IInv'
<1>1. PICK kind \in {"blank", "realpath", "plain"} :
        /\ used < MaxExecs
        /\ Exec(Fresh(1), s, Host, {}, kind)
        /\ st' = [st EXCEPT ![used + 1] = Begins(kind)]
        /\ count' = [count EXCEPT ![used + 1] = 1]
        /\ UNCHANGED <<how, on>>
  BY DEF HostCall
<1>2. used \in Nat /\ used + 1 <= MaxExecs /\ 1 \in Nat /\ 1 > 0
  BY <1>1, ExecAssumption DEF IInv, CallsOK
<1>3. Fresh(1) = {used + 1} /\ used + 1 \in Execs
  BY <1>2, ExecAssumption DEF Fresh, Execs
<1>4. ExecEffect(1, s, kind)
  <2>1. Host \in Execs \cup {Host} /\ {} \in SUBSET Execs
    OBVIOUS
  <2> QED BY <1>1, <1>2, <2>1, ExecKeeps
<1>5. CallsOK'
  <2>1. st' \in [Execs -> {"new", "entering", "running", "calling", "resolved", "rejected"}]
    BY <1>1, <1>4 DEF IInv, CallsOK, ExecEffect
  <2>2. count' \in [Execs -> 0..(MaxCount + 1)]
    <3>1. 1 \in 0..(MaxCount + 1)
      BY ExecAssumption
    <3> QED BY <1>1, <3>1 DEF IInv, CallsOK
  <2> QED BY <1>1, <1>4, <2>1, <2>2 DEF IInv, CallsOK, ExecEffect
<1>6. Unused' /\ HandlesHeld'
  <2>1. \A e \in Fresh(1) : st'[e] = Begins(kind)
    BY <1>1, <1>3 DEF IInv, CallsOK
  <2>2. \A e \in Execs \ Fresh(1) : st'[e] = st[e]
    BY <1>1, <1>3 DEF IInv, CallsOK
  <2>3. \A e \in Execs \ Fresh(1) : sets'[e] = sets[e]
    BY <1>1 DEF Exec
  <2> QED BY <1>2, <1>4, <2>1, <2>2, <2>3, NewCallsKeep
<1> QED BY <1>4, <1>5, <1>6 DEF IInv, ExecEffect

LEMMA NestKeeps ==
  ASSUME IInv, NEW e \in Execs, NEW way \in {"await", "race"}, NEW n \in Nat, n > 0,
         NEW passed \in SUBSET Execs, NEW kind, Nest(e, way, n, passed, kind)
  PROVE  IInv'
<1>1. /\ st[e] = "running" /\ count[e] < MaxCount
      /\ used + n <= MaxExecs
      /\ Exec(Fresh(n), shell[e], e, passed, kind)
      /\ st' = [x \in Execs |-> IF x = e THEN "calling"
                                ELSE IF x \in Fresh(n) THEN Begins(kind) ELSE st[x]]
      /\ count' = [x \in Execs |-> IF x = e THEN count[e] + 1
                                   ELSE IF x \in Fresh(n) THEN 1 ELSE count[x]]
      /\ how' = [how EXCEPT ![e] = way]
      /\ on' = [on EXCEPT ![e] = Fresh(n)]
  BY DEF Nest, Command
<1>2. shell[e] \in Shells
  BY DEF IInv, CallsOK
<1>3. /\ Fresh(n) \in SUBSET Execs
      /\ \A x \in Fresh(n) : st[x] = "new"
  BY <1>1, FreshCalls DEF IInv
<1>4. e \notin Fresh(n)
  BY <1>1, <1>3
<1>5. ExecEffect(n, shell[e], kind)
  BY <1>1, <1>2, ExecKeeps
<1>6. CallsOK'
  <2>1. st' \in [Execs -> {"new", "entering", "running", "calling", "resolved", "rejected"}]
    BY <1>1, <1>5 DEF IInv, CallsOK, ExecEffect
  <2>2. count' \in [Execs -> 0..(MaxCount + 1)]
    <3>1. 1 \in 0..(MaxCount + 1) /\ count[e] + 1 \in 0..(MaxCount + 1)
      BY <1>1, ExecAssumption DEF IInv, CallsOK
    <3> QED BY <1>1, <3>1 DEF IInv, CallsOK
  <2>3. how' \in [Execs -> {"none", "await", "race"}] /\ on' \in [Execs -> SUBSET Execs]
    BY <1>1, <1>3 DEF IInv, CallsOK
  <2> QED BY <1>1, <1>5, <2>1, <2>2, <2>3 DEF IInv, CallsOK, ExecEffect
<1>7. Unused' /\ HandlesHeld'
  <2>1. \A x \in Fresh(n) : st'[x] = Begins(kind)
    BY <1>1, <1>3, <1>4
  <2>2. ASSUME NEW x \in Execs \ Fresh(n)
        PROVE  st'[x] = st[x] \/ (Running(x) /\ Running(x)')
    BY <1>1 DEF Running
  <2>3. \A x \in Execs \ Fresh(n) : sets'[x] = sets[x]
    BY <1>1 DEF Exec
  <2> QED BY <1>1, <1>2, <1>5, <2>1, <2>2, <2>3, NewCallsKeep
<1> QED BY <1>5, <1>6, <1>7 DEF IInv, ExecEffect

(* Steps that leave the box alone and no execution starts or ends.         *)
LEMMA SameRunning ==
  ASSUME IInv, UNCHANGED <<used, shell, boxVars>>,
         \A x \in Execs : (Running(x)' <=> Running(x)) /\ (st[x] = "new" => st'[x] = "new"),
         \A x \in Execs : st[x] = "new" => sets'[x] = sets[x]
  PROVE  BoxCounts' /\ Unused' /\ HandlesHeld'
<1>1. BoxCounts'
  BY DEF IInv, BoxCounts, boxVars
<1>2. Unused'
  BY DEF IInv, Unused
<1>3. \A x \in Execs : Guarded(x)' <=> Guarded(x)
  BY DEF Guarded
<1>4. box' = box /\ handles' = handles
  BY DEF boxVars
<1>5. HandlesHeld'
  <2>1. \A x \in Execs : Running(x)' /\ Guarded(x)' => box' # "none"
    BY <1>3, <1>4 DEF IInv, HandlesHeld
  <2>2. handles' = {x \in Execs : Running(x)' /\ Guarded(x)' /\ box' = "on"}
    <3>1. handles = {x \in Execs : Running(x) /\ Guarded(x) /\ box = "on"}
      BY DEF IInv, HandlesHeld
    <3> QED BY <1>3, <1>4, <3>1
  <2> QED BY <2>1, <2>2 DEF HandlesHeld
<1> QED BY <1>1, <1>2, <1>5

LEMMA CommandsKeep ==
  ASSUME IInv, NEW e \in Execs, Plain(e) \/ Assign(e)
  PROVE  IInv'
<1>1. /\ st[e] = "running" /\ count[e] < MaxCount
      /\ count' = [count EXCEPT ![e] = @ + 1]
      /\ UNCHANGED <<used, st, shell, parent, how, on, boxVars>>
      /\ sets' \in {sets, [sets EXCEPT ![e] = @ \cup {e}]}
  BY DEF Plain, Assign, Command
<1>2. count' \in [Execs -> 0..(MaxCount + 1)]
  <2>1. count[e] + 1 \in 0..(MaxCount + 1)
    BY <1>1, ExecAssumption DEF IInv, CallsOK
  <2> QED BY <1>1, <2>1 DEF IInv, CallsOK
<1>3. CallsOK'
  BY <1>1, <1>2 DEF IInv, CallsOK
<1>4. \A x \in Execs : st[x] = "new" => sets'[x] = sets[x]
  BY <1>1 DEF IInv, CallsOK
<1>5. \A x \in Execs : (Running(x)' <=> Running(x)) /\ (st[x] = "new" => st'[x] = "new")
  BY <1>1 DEF Running
<1> QED BY <1>1, <1>3, <1>4, <1>5, SameRunning DEF IInv

LEMMA AwaitsKeep ==
  ASSUME IInv, NEW e \in Execs, Resume(e) \/ TimerWins(e)
  PROVE  IInv'
<1>1. /\ st[e] = "calling"
      /\ st' = [st EXCEPT ![e] = "running"]
      /\ how' = [how EXCEPT ![e] = "none"]
      /\ on' = [on EXCEPT ![e] = {}]
      /\ UNCHANGED <<used, shell, parent, count, sets, boxVars>>
  BY DEF Resume, TimerWins
<1>2. CallsOK'
  BY <1>1 DEF IInv, CallsOK
<1>3. \A x \in Execs : (Running(x)' <=> Running(x)) /\ (st[x] = "new" => st'[x] = "new")
  BY <1>1 DEF Running, IInv, CallsOK
<1> QED BY <1>1, <1>2, <1>3, SameRunning DEF IInv

LEMMA EnteredKeeps ==
  ASSUME IInv, NEW e \in Execs, Entered(e)
  PROVE  IInv'
<1>1. /\ st[e] = "entering"
      /\ st' = [st EXCEPT ![e] = "running"]
      /\ Activate({e}, shell[e])
      /\ UNCHANGED <<used, shell, parent, count, sets, how, on>>
  BY DEF Entered
<1>2. CallsOK'
  BY <1>1 DEF IInv, CallsOK
<1>3. e \notin handles /\ shell[e] \in Shells
  BY <1>1 DEF IInv, HandlesHeld, Running, CallsOK
<1>4. /\ BoxCounts'
      /\ box # "none" => box' = box
      /\ Config[shell[e]] # "absent" => box' # "none"
      /\ handles' = IF Config[shell[e]] # "absent" /\ box' = "on"
                    THEN handles \cup {e} ELSE handles
  <2>1. {e} \in SUBSET Execs /\ {e} \cap handles = {} /\ {e} # {}
    BY <1>3
  <2> QED BY <1>1, <1>3, <2>1, ActivateCounts DEF IInv
<1>5. Unused'
  BY <1>1 DEF IInv, Unused, CallsOK
<1>6. ASSUME NEW x \in Execs
      PROVE  /\ Running(x)' <=> (Running(x) \/ x = e)
             /\ Guarded(x)' <=> Guarded(x)
  BY <1>1 DEF Running, Guarded, IInv, CallsOK
<1>7. \A x \in Execs : Running(x)' /\ Guarded(x)' => box' # "none"
  BY <1>4, <1>6 DEF IInv, HandlesHeld, Guarded
<1>8. handles' = {x \in Execs : Running(x)' /\ Guarded(x)' /\ box' = "on"}
  <2>1. \A x \in handles' : x \in Execs
    BY <1>4 DEF BoxCounts
  <2>2. ASSUME NEW x \in Execs
        PROVE  x \in handles' <=> Running(x)' /\ Guarded(x)' /\ box' = "on"
    <3>1. CASE x = e
      BY <3>1, <1>3, <1>4, <1>6 DEF Guarded
    <3>2. CASE x # e
      <4>1. x \in handles' <=> x \in handles
        BY <3>2, <1>4
      <4>2. x \in handles <=> Running(x) /\ Guarded(x) /\ box = "on"
        BY DEF IInv, HandlesHeld
      <4>3. Running(x) /\ Guarded(x) => box' = box
        BY <1>4 DEF IInv, HandlesHeld
      <4> QED BY <3>2, <4>1, <4>2, <4>3, <1>6
    <3> QED BY <3>1, <3>2
  <2> QED BY <2>1, <2>2
<1> QED BY <1>2, <1>4, <1>5, <1>7, <1>8 DEF IInv, HandlesHeld

LEMMA EndKeeps ==
  ASSUME IInv, NEW e \in Execs, NEW out \in {"resolved", "rejected"}, End(e, out)
  PROVE  IInv'
<1>1. /\ st[e] = "running"
      /\ st' = [st EXCEPT ![e] = out]
      /\ Deactivate(e)
      /\ UNCHANGED <<used, shell, parent, count, sets, how, on>>
  BY DEF End
<1>2. CallsOK'
  BY <1>1 DEF IInv, CallsOK
<1>3. BoxCounts' /\ box' = box /\ handles' = handles \ {e}
  BY <1>1, DeactivateCounts DEF IInv
<1>4. Unused'
  BY <1>1 DEF IInv, Unused, CallsOK
<1>5. ASSUME NEW x \in Execs
      PROVE  /\ Running(x)' <=> (Running(x) /\ x # e)
             /\ Guarded(x)' <=> Guarded(x)
  BY <1>1 DEF Running, Guarded, IInv, CallsOK
<1>6. \A x \in Execs : Running(x)' /\ Guarded(x)' => box' # "none"
  BY <1>3, <1>5 DEF IInv, HandlesHeld
<1>7. handles' = {x \in Execs : Running(x)' /\ Guarded(x)' /\ box' = "on"}
  <2>1. handles = {x \in Execs : Running(x) /\ Guarded(x) /\ box = "on"}
    BY DEF IInv, HandlesHeld
  <2> QED BY <1>3, <1>5, <2>1
<1> QED BY <1>2, <1>3, <1>4, <1>6, <1>7 DEF IInv, HandlesHeld

LEMMA NextKeeps ==
  ASSUME IInv, [Next]_vars
  PROVE  IInv'
<1>1. CASE \E s \in Shells : HostCall(s)
  BY <1>1, HostCallKeeps
<1>2. ASSUME NEW e \in Execs, Progress(e) \/ TimerWins(e)
      PROVE  IInv'
  <2>1. CASE Entered(e)
    BY <2>1, EnteredKeeps
  <2>2. CASE Plain(e) \/ Assign(e)
    BY <2>2, CommandsKeep
  <2>3. CASE BashC(e)
    <3>1. PICK kind \in {"blank", "realpath", "plain"} : Nest(e, "await", 1, sets[e], kind)
      BY <2>3 DEF BashC
    <3>2. 1 \in Nat /\ 1 > 0 /\ sets[e] \in SUBSET Execs
      BY DEF IInv, CallsOK
    <3> QED BY <3>1, <3>2, NestKeeps
  <2>4. CASE Xargs(e)
    <3>1. PICK n \in 2..MaxProcs : Nest(e, "await", n, {}, "plain")
      BY <2>4 DEF Xargs
    <3>2. n \in Nat /\ n > 0
      BY <3>1, ExecAssumption
    <3> QED BY <3>1, <3>2, NestKeeps
  <2>5. CASE Timeout(e)
    <3>1. 1 \in Nat /\ 1 > 0
      OBVIOUS
    <3> QED BY <2>5, <3>1, NestKeeps DEF Timeout
  <2>6. CASE Resume(e) \/ TimerWins(e)
    BY <2>6, AwaitsKeep
  <2>7. CASE End(e, "resolved") \/ End(e, "rejected")
    BY <2>7, EndKeeps
  <2> QED BY <1>2, <2>1, <2>2, <2>3, <2>4, <2>5, <2>6, <2>7 DEF Progress
<1>3. CASE UNCHANGED vars
  BY <1>3 DEF vars, callVars, boxVars, IInv, CallsOK, BoxCounts, Unused, HandlesHeld,
              Running, Guarded
<1> QED BY <1>1, <1>2, <1>3 DEF Next, Finished

-----------------------------------------------------------------------------
(* The theorems.                                                           *)

THEOREM Invariance == Spec => []IInv
<1>1. IInv /\ [Next]_vars => IInv'
  BY NextKeeps
<1> QED BY InitIInv, <1>1, PTL DEF Spec

(* Every variable keeps its type for any number of calls and any limit: no *)
(* script runs more commands than its limit and the reference count is     *)
(* never negative, whatever nests, overlaps or fails.                      *)
THEOREM TypeCorrect == Spec => []TypeOK
<1>1. IInv => TypeOK
  BY DEF IInv, CallsOK, BoxCounts, TypeOK
<1> QED BY Invariance, <1>1, PTL

(* The process is patched exactly while a guarded script runs, for any set *)
(* of Bash objects with any options: deactivate never takes the patches    *)
(* off under a script that still runs and never leaves them behind.        *)
THEOREM PatchesCorrect == Spec => []PatchesMatchExecutions
<1>1. IInv => PatchesMatchExecutions
  <2> SUFFICES ASSUME IInv PROVE PatchesMatchExecutions
    OBVIOUS
  <2>1. patched <=> refs > 0
    BY DEF IInv, BoxCounts
  <2>2. refs > 0 <=> handles # {}
    <3>1. IsFiniteSet(handles)
      BY ExecsFinite DEF IInv, BoxCounts
    <3>2. Cardinality(handles) = 0 <=> handles = {}
      BY <3>1, FS_EmptySet
    <3> QED BY <3>2 DEF IInv, BoxCounts
  <2>3. handles # {} <=> box = "on" /\ \E e \in Execs : Running(e) /\ Config[shell[e]] # "absent"
    <3>1. handles = {e \in Execs : Running(e) /\ Config[shell[e]] # "absent" /\ box = "on"}
      BY DEF IInv, HandlesHeld, Guarded
    <3> QED BY <3>1
  <2> QED BY <2>1, <2>2, <2>3 DEF PatchesMatchExecutions
<1> QED BY Invariance, <1>1, PTL

LEMMA ExecIsolates ==
  ASSUME IInv, NEW n \in Nat, used + n <= MaxExecs, NEW s, NEW by,
         NEW passed, NEW kind, Exec(Fresh(n), s, by, passed, kind),
         NEW x \in Execs, sets'[x] # sets[x]
  PROVE  st[x] = "new" /\ sets[x] = {} /\ parent'[x] = by /\ sets'[x] = passed
<1>1. x \in Fresh(n)
  BY DEF Exec
<1>2. x > used
  BY <1>1, ExecAssumption DEF Fresh, IInv, CallsOK
<1> QED BY <1>1, <1>2 DEF Exec, IInv, Unused

(* The environment of an execution changes by its own commands only, and a *)
(* new one starts with no more than its caller had.                        *)
THEOREM EnvironmentCorrect == Spec => EnvironmentIsolated
<1> DEFINE Isolated ==
      \A x \in Execs : sets'[x] # sets[x] =>
        \/ st[x] = "running" /\ sets'[x] = sets[x] \cup {x}
        \/ st[x] = "new" /\ parent'[x] # Host /\ sets'[x] \subseteq sets[parent'[x]]
<1>1. IInv /\ [Next]_vars => [Isolated]_vars
  <2> SUFFICES ASSUME IInv, Next, NEW x \in Execs, sets'[x] # sets[x]
               PROVE  \/ st[x] = "running" /\ sets'[x] = sets[x] \cup {x}
                      \/ st[x] = "new" /\ parent'[x] # Host /\ sets'[x] \subseteq sets[parent'[x]]
    OBVIOUS
  <2> used \in Nat
    BY ExecAssumption DEF IInv, CallsOK
  <2>1. CASE \E s \in Shells : HostCall(s)
    <3>1. PICK s \in Shells, kind \in {"blank", "realpath", "plain"} :
            used < MaxExecs /\ Exec(Fresh(1), s, Host, {}, kind)
      BY <2>1 DEF HostCall
    <3>2. 1 \in Nat /\ used + 1 <= MaxExecs
      BY <3>1, ExecAssumption
    <3> QED BY <3>1, <3>2, ExecIsolates
  <2>2. ASSUME NEW e \in Execs, NEW way, NEW n \in Nat, NEW passed, NEW kind,
               passed \subseteq sets[e], Nest(e, way, n, passed, kind)
        PROVE  st[x] = "new" /\ parent'[x] # Host /\ sets'[x] \subseteq sets[parent'[x]]
    <3>1. used + n <= MaxExecs /\ Exec(Fresh(n), shell[e], e, passed, kind)
      BY <2>2 DEF Nest
    <3>2. st[x] = "new" /\ parent'[x] = e /\ sets'[x] = passed
      BY <3>1, ExecIsolates
    <3> QED BY <2>2, <3>2 DEF Host, Execs
  <2>3. ASSUME NEW e \in Execs, BashC(e) \/ Xargs(e) \/ Timeout(e)
        PROVE  \E way, passed, kind : \E n \in Nat :
                 passed \subseteq sets[e] /\ Nest(e, way, n, passed, kind)
    <3>1. 1 \in Nat /\ \A n \in 2..MaxProcs : n \in Nat
      BY ExecAssumption
    <3> QED BY <2>3, <3>1 DEF BashC, Xargs, Timeout
  <2>4. ASSUME NEW e \in Execs, Assign(e)
        PROVE  st[x] = "running" /\ sets'[x] = sets[x] \cup {x}
    BY <2>4 DEF Assign, Command, IInv, CallsOK
  <2>5. ASSUME NEW e \in Execs,
               \/ Entered(e) \/ Plain(e) \/ Resume(e) \/ TimerWins(e)
               \/ End(e, "resolved") \/ End(e, "rejected")
        PROVE  FALSE
    BY <2>5 DEF Entered, Plain, Resume, TimerWins, End
  <2>6. CASE Finished
    BY <2>6 DEF Finished, vars, callVars
  <2> QED BY <2>1, <2>2, <2>3, <2>4, <2>5, <2>6 DEF Next, Progress
<1> QED BY Invariance, <1>1, PTL DEF Spec, EnvironmentIsolated

=============================================================================
