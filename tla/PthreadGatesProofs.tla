-------------------------- MODULE PthreadGatesProofs --------------------------
(***************************************************************************)
(* The read-write lock excludes, the barrier lets its threads go together  *)
(* and the routine of the once control runs first and once, for any number *)
(* of threads, any count of the barrier and any bounds.  The three objects *)
(* share only pc, so the inductive invariant is the conjunction of one     *)
(* invariant per object, and each action disturbs one of them.             *)
(***************************************************************************)
EXTENDS PthreadGates, FiniteSetTheorems, TLAPS

(* Where a thread can be. *)
PcName == {"run", "barrier", "once", "routine", "once wait", "passed"}

(* The read locks held, one pair for each. *)
ReadLocks == {x \in Thread \X (1 .. MaxReads) : x[2] <= holds[x[1]]}

(* The state counts the read locks held, or is -1 for the one writer. *)
RwInv ==
  \/ /\ \A t \in Thread : holds[t] >= 0
     /\ state = Cardinality(ReadLocks)
  \/ /\ state = -1
     /\ \E w \in Thread : holds[w] = -1 /\ \A t \in Thread \ {w} : holds[t] = 0

(* Who waits for the end of phase p. *)
Waiting(p) == {t \in Thread : pc[t] = "barrier" /\ my_phase[t] = p}

(* The present phase has the threads that wait in it, count of them, and has let none go;
   a later phase has none; an earlier one has had Total threads, the waiting among them. *)
BarrierInv ==
  /\ \A t \in Thread : pc[t] = "barrier" => my_phase[t] <= phase
  /\ \A p \in Phase :
       /\ p = phase => arrived[p] = Waiting(p) /\ Cardinality(arrived[p]) = count
       /\ p > phase => arrived[p] = {}
       /\ p >= phase => gone[p] = {} /\ serial[p] = {}
       /\ p < phase => /\ Cardinality(arrived[p]) = Total /\ Cardinality(serial[p]) = 1
                       /\ gone[p] \subseteq arrived[p] /\ Waiting(p) \subseteq arrived[p]

(* The routine has been started exactly when the control is not 0, one thread runs it while
   the control is 1, and none has passed before the control is 2. *)
OnceInv ==
  /\ ran = IF once_control = 0 THEN 0 ELSE 1
  /\ \A t, u \in Thread : pc[t] = "routine" /\ pc[u] = "routine" => t = u
  /\ \A t \in Thread : pc[t] = "routine" => once_control = 1
  /\ \A t \in Thread : pc[t] = "passed" => once_control = 2

GatesInv == TypeOK /\ RwInv /\ BarrierInv /\ OnceInv

-------------------------------------------------------------------------------
(* The read locks are finitely many. *)
LEMMA ReadLocksFinite == IsFiniteSet(ReadLocks)
<1>1. IsFiniteSet(1 .. MaxReads)
  BY FS_Interval, GatesAssumption
<1>2. IsFiniteSet(Thread \X (1 .. MaxReads))
  BY Zenon, <1>1, FS_Product, GatesAssumption
<1> QED BY Zenon, <1>2, FS_Subset DEF ReadLocks

(* A set of threads is finite. *)
LEMMA ThreadsFinite == ASSUME NEW S \in SUBSET Thread PROVE IsFiniteSet(S)
BY Zenon, FS_Subset, GatesAssumption

LEMMA GatesInit == Init => GatesInv
<1> SUFFICES ASSUME Init PROVE GatesInv
  BY Zenon
<1> USE GatesAssumption
<1>1. TypeOK
  BY DEF Init, TypeOK, Phase
<1>2. RwInv
  <2>1. ReadLocks = {}
    BY DEF ReadLocks, Init
  <2> QED BY <2>1, FS_EmptySet DEF RwInv, Init
<1>3. BarrierInv
  BY FS_EmptySet DEF BarrierInv, Waiting, Init, Phase
<1>4. OnceInv
  BY Zenon DEF OnceInv, Init
<1> QED BY Zenon, <1>1, <1>2, <1>3, <1>4 DEF GatesInv

-------------------------------------------------------------------------------
(* Each object is kept by the steps that do not concern it. *)
LEMMA RwKept == ASSUME RwInv, UNCHANGED rwVars PROVE RwInv'
BY Zenon DEF RwInv, ReadLocks, rwVars

LEMMA BarrierKept ==
  ASSUME BarrierInv, UNCHANGED barrierVars,
         \A u \in Thread : pc'[u] = "barrier" <=> pc[u] = "barrier"
  PROVE  BarrierInv'
<1>1. \A p \in Phase : Waiting(p)' = Waiting(p)
  BY Zenon DEF Waiting, barrierVars
<1>2. \A u \in Thread : pc'[u] = "barrier" => my_phase'[u] <= phase'
  BY Zenon DEF BarrierInv, barrierVars
<1> QED BY Zenon, <1>1, <1>2 DEF BarrierInv, barrierVars

LEMMA OnceKept ==
  ASSUME OnceInv, UNCHANGED onceVars,
         \A u \in Thread : pc'[u] \in {"routine", "passed"} => pc'[u] = pc[u]
  PROVE  OnceInv'
BY Zenon DEF OnceInv, onceVars

-------------------------------------------------------------------------------
(* pthread_rwlock_rdlock adds one read lock. *)
LEMMA RdlockKeeps == ASSUME GatesInv, NEW t \in Thread, Rdlock(t) PROVE GatesInv'
<1>0. state \in Int /\ holds \in [Thread -> -1 .. MaxReads] /\ MaxReads \in Nat
  BY Zenon, GatesAssumption DEF GatesInv, TypeOK
<1>1. /\ holds[t] \in 0 .. MaxReads - 1 /\ state >= 0
      /\ state' = state + 1 /\ holds' = [holds EXCEPT ![t] = holds[t] + 1]
  BY Zenon DEF Rdlock
<1>2. holds[t] + 1 \in 1 .. MaxReads
  BY <1>0, <1>1
<1>3. state' \in Int /\ holds' \in [Thread -> -1 .. MaxReads]
  BY <1>0, <1>1, <1>2
<1>4. TypeOK'
  BY Zenon, <1>3 DEF Rdlock, GatesInv, TypeOK, barrierVars, onceVars
<1>5. RwInv'
  <2>1. /\ \A u \in Thread : holds[u] >= 0
        /\ state = Cardinality(ReadLocks)
    BY <1>0, <1>1 DEF GatesInv, RwInv
  <2>2. ReadLocks' = ReadLocks \cup {<<t, holds[t] + 1>>}
    BY <1>0, <1>1, <1>2 DEF ReadLocks
  <2>3. <<t, holds[t] + 1>> \notin ReadLocks
    BY <1>0, <1>1 DEF ReadLocks
  <2>4. Cardinality(ReadLocks') = Cardinality(ReadLocks) + 1
    BY Zenon, <2>2, <2>3, ReadLocksFinite, FS_AddElement
  <2>5. \A u \in Thread : holds'[u] >= 0
    BY <1>0, <1>1, <1>2, <2>1
  <2> QED BY Zenon, <1>1, <2>1, <2>4, <2>5 DEF RwInv
<1>6. BarrierInv'
  BY Zenon, BarrierKept DEF Rdlock, GatesInv
<1>7. OnceInv'
  BY Zenon, OnceKept DEF Rdlock, GatesInv
<1> QED BY Zenon, <1>4, <1>5, <1>6, <1>7 DEF GatesInv

(* pthread_rwlock_wrlock makes the lock its caller's alone. *)
LEMMA WrlockKeeps == ASSUME GatesInv, NEW t \in Thread, Wrlock(t) PROVE GatesInv'
<1>0. state \in Int /\ holds \in [Thread -> -1 .. MaxReads] /\ MaxReads \in Nat
  BY Zenon, GatesAssumption DEF GatesInv, TypeOK
<1>1. state = 0 /\ state' = -1 /\ holds' = [holds EXCEPT ![t] = -1]
  BY Zenon DEF Wrlock
<1>2. state' \in Int /\ holds' \in [Thread -> -1 .. MaxReads]
  BY <1>0, <1>1
<1>3. TypeOK'
  BY Zenon, <1>2 DEF Wrlock, GatesInv, TypeOK, barrierVars, onceVars
<1>4. RwInv'
  <2>1. /\ \A u \in Thread : holds[u] >= 0
        /\ Cardinality(ReadLocks) = 0
    BY <1>0, <1>1 DEF GatesInv, RwInv
  <2>2. ReadLocks = {}
    BY Zenon, <2>1, ReadLocksFinite, FS_EmptySet
  <2>3. \A u \in Thread : holds[u] = 0
    <3>1. SUFFICES ASSUME NEW u \in Thread, holds[u] # 0 PROVE <<u, 1>> \in ReadLocks
      BY Zenon, <2>2
    <3> QED BY <1>0, <2>1, <3>1 DEF ReadLocks
  <2>4. holds'[t] = -1 /\ \A u \in Thread \ {t} : holds'[u] = 0
    BY Zenon, <1>0, <1>1, <2>3
  <2> QED BY Zenon, <1>1, <2>4 DEF RwInv
<1>5. BarrierInv'
  BY Zenon, BarrierKept DEF Wrlock, GatesInv
<1>6. OnceInv'
  BY Zenon, OnceKept DEF Wrlock, GatesInv
<1> QED BY Zenon, <1>3, <1>4, <1>5, <1>6 DEF GatesInv

(* pthread_rwlock_unlock gives up the writer's lock, or one read lock of its caller. *)
LEMMA RwUnlockKeeps == ASSUME GatesInv, NEW t \in Thread, RwUnlock(t) PROVE GatesInv'
<1>0. state \in Int /\ holds \in [Thread -> -1 .. MaxReads] /\ MaxReads \in Nat
  BY Zenon, GatesAssumption DEF GatesInv, TypeOK
<1>1. /\ holds[t] # 0
      /\ state' = IF state < 0 THEN 0 ELSE IF state > 0 THEN state - 1 ELSE state
      /\ holds' = [holds EXCEPT ![t] = IF holds[t] = -1 THEN 0 ELSE holds[t] - 1]
  BY Zenon DEF RwUnlock
<1>2. (IF holds[t] = -1 THEN 0 ELSE holds[t] - 1) \in -1 .. MaxReads
  BY <1>0, <1>1
<1>3. state' \in Int /\ holds' \in [Thread -> -1 .. MaxReads]
  BY <1>0, <1>1, <1>2
<1>4. TypeOK'
  BY Zenon, <1>3 DEF RwUnlock, GatesInv, TypeOK, barrierVars, onceVars
<1>5. RwInv'
  <2>1. CASE /\ \A u \in Thread : holds[u] >= 0
             /\ state = Cardinality(ReadLocks)
    <3>0. holds[t] \in 1 .. MaxReads /\ holds[t] # -1
      BY <1>0, <1>1, <2>1
    <3>1. holds[t] \in 1 .. MaxReads /\ holds' = [holds EXCEPT ![t] = holds[t] - 1]
      BY Zenon, <1>1, <3>0
    <3>2. ReadLocks' = ReadLocks \ {<<t, holds[t]>>}
      BY <1>0, <3>1 DEF ReadLocks
    <3>3. <<t, holds[t]>> \in ReadLocks
      BY <3>1 DEF ReadLocks
    <3>4. Cardinality(ReadLocks') = Cardinality(ReadLocks) - 1
      BY Zenon, <3>2, <3>3, ReadLocksFinite, FS_RemoveElement
    <3>5. Cardinality(ReadLocks) \in Nat /\ Cardinality(ReadLocks) # 0
      BY Zenon, <3>3, ReadLocksFinite, FS_EmptySet, FS_CardinalityType
    <3>6. state' = state - 1
      BY <1>1, <2>1, <3>5
    <3>7. \A u \in Thread : holds'[u] >= 0
      BY <1>0, <2>1, <3>1
    <3> QED BY Zenon, <2>1, <3>4, <3>6, <3>7 DEF RwInv
  <2>2. CASE /\ state = -1
             /\ \E w \in Thread : holds[w] = -1 /\ \A u \in Thread \ {w} : holds[u] = 0
    <3>1. holds[t] = -1 /\ \A u \in Thread \ {t} : holds[u] = 0
      BY Zenon, <1>1, <2>2
    <3>2. state' = 0
      BY <1>1, <2>2
    <3>3. \A u \in Thread : holds'[u] = 0
      BY Zenon, <1>0, <1>1, <3>1
    <3>4. ReadLocks' = {}
      BY <3>3 DEF ReadLocks
    <3> QED BY <3>2, <3>3, <3>4, FS_EmptySet DEF RwInv
  <2> QED BY Zenon, <2>1, <2>2 DEF GatesInv, RwInv
<1>6. BarrierInv'
  BY Zenon, BarrierKept DEF RwUnlock, GatesInv
<1>7. OnceInv'
  BY Zenon, OnceKept DEF RwUnlock, GatesInv
<1> QED BY Zenon, <1>4, <1>5, <1>6, <1>7 DEF GatesInv

-------------------------------------------------------------------------------
(* The last to come to a phase of the barrier opens it: the phase has had Total threads. *)
LEMMA BarrierOpens ==
  ASSUME GatesInv, NEW t \in Thread, BarrierWait(t), count + 1 >= Total
  PROVE  GatesInv'
<1>a. phase \in Phase
  BY Zenon DEF BarrierWait
<1>b. phase \in Nat
  BY <1>a, GatesAssumption DEF Phase
<1>0. /\ count \in 0 .. Total - 1 /\ phase \in Phase /\ phase \in Nat
      /\ my_phase \in [Thread -> Phase]
      /\ arrived \in [Phase -> SUBSET Thread] /\ gone \in [Phase -> SUBSET Thread]
      /\ serial \in [Phase -> SUBSET Thread]
  BY Zenon, <1>a, <1>b DEF GatesInv, TypeOK
<1>1. /\ pc[t] = "run" /\ count' = 0 /\ phase' = phase + 1 /\ my_phase' = my_phase /\ pc' = pc
      /\ arrived' = [arrived EXCEPT ![phase] = arrived[phase] \cup {t}]
      /\ serial' = [serial EXCEPT ![phase] = serial[phase] \cup {t}]
      /\ gone' = [gone EXCEPT ![phase] = gone[phase] \cup {t}]
  BY Zenon DEF BarrierWait
<1>2. UNCHANGED <<rwVars, onceVars>>
  BY Zenon DEF BarrierWait
<1>3. TypeOK'
  <2>1. count' \in 0 .. Total - 1 /\ phase' \in 0 .. MaxPhase
    BY <1>0, <1>1, GatesAssumption DEF Phase
  <2>2. /\ arrived' \in [Phase -> SUBSET Thread] /\ gone' \in [Phase -> SUBSET Thread]
        /\ serial' \in [Phase -> SUBSET Thread]
    BY Zenon, <1>0, <1>1
  <2> QED BY Zenon, <1>1, <1>2, <2>1, <2>2 DEF GatesInv, TypeOK, rwVars, onceVars
<1>4. BarrierInv'
  <2>1. /\ arrived[phase] = Waiting(phase) /\ Cardinality(arrived[phase]) = count
        /\ gone[phase] = {} /\ serial[phase] = {}
    BY <1>0 DEF GatesInv, BarrierInv
  <2>2. \A p : Waiting(p)' = Waiting(p)
    BY Zenon, <1>1 DEF Waiting
  <2>3. /\ Cardinality(arrived[phase] \cup {t}) = Total
        /\ Cardinality(serial[phase] \cup {t}) = 1
    <3>1. t \notin arrived[phase] /\ IsFiniteSet(arrived[phase])
      BY Zenon, <1>0, <1>1, <2>1, ThreadsFinite DEF Waiting
    <3>2. Cardinality(arrived[phase] \cup {t}) = count + 1
      BY Zenon, <2>1, <3>1, FS_AddElement
    <3>3. serial[phase] \cup {t} = {t}
      BY Zenon, <2>1
    <3>4. count + 1 = Total
      BY <1>0, GatesAssumption
    <3> QED BY Zenon, <3>2, <3>3, <3>4, FS_Singleton
  <2>4. \A u \in Thread : pc'[u] = "barrier" => my_phase'[u] <= phase'
    BY <1>0, <1>1 DEF GatesInv, BarrierInv, Phase
  <2>5. ASSUME NEW p \in Phase
        PROVE  /\ p >= phase' => arrived'[p] = {} /\ gone'[p] = {} /\ serial'[p] = {}
               /\ p < phase' =>
                    /\ Cardinality(arrived'[p]) = Total /\ Cardinality(serial'[p]) = 1
                    /\ gone'[p] \subseteq arrived'[p] /\ Waiting(p) \subseteq arrived'[p]
    <3>1. CASE p = phase
      BY <1>0, <1>1, <2>1, <2>3, <3>1
    <3>2. CASE p # phase
      <4>1. /\ arrived'[p] = arrived[p] /\ serial'[p] = serial[p] /\ gone'[p] = gone[p]
            /\ p \in Int
        BY <1>0, <1>1, <3>2 DEF Phase
      <4>2. CASE p > phase
        BY <1>0, <1>1, <4>1, <4>2 DEF GatesInv, BarrierInv
      <4>3. CASE p < phase
        BY <1>0, <1>1, <4>1, <4>3 DEF GatesInv, BarrierInv
      <4> QED BY <1>0, <3>2, <4>1, <4>2, <4>3
    <3> QED BY Zenon, <3>1, <3>2
  <2>6. ASSUME NEW p \in Phase, p = phase'
        PROVE  arrived'[p] = Waiting(p)' /\ Cardinality(arrived'[p]) = count'
    <3>1. Waiting(p) = {}
      BY <1>0, <1>1, <2>6 DEF Waiting, GatesInv, BarrierInv
    <3>2. arrived'[p] = {}
      BY <2>5, <2>6, <1>0, <1>1
    <3> QED BY Zenon, <1>1, <2>2, <3>1, <3>2, FS_EmptySet
  <2>7. \A p \in Phase : p > phase' => p >= phase'
    BY <1>0, <1>1 DEF Phase
  <2> QED BY Zenon, <2>2, <2>4, <2>5, <2>6, <2>7 DEF BarrierInv
<1>5. RwInv' /\ OnceInv'
  BY Zenon, <1>1, <1>2, RwKept, OnceKept DEF GatesInv
<1> QED BY Zenon, <1>3, <1>4, <1>5 DEF GatesInv

(* Who is not the last waits in the phase and is counted. *)
LEMMA BarrierFills ==
  ASSUME GatesInv, NEW t \in Thread, BarrierWait(t), ~(count + 1 >= Total)
  PROVE  GatesInv'
<1>a. phase \in Phase
  BY Zenon DEF BarrierWait
<1>b. phase \in Nat
  BY <1>a, GatesAssumption DEF Phase
<1>0. /\ count \in 0 .. Total - 1 /\ phase \in Phase /\ phase \in Nat
      /\ my_phase \in [Thread -> Phase] /\ pc \in [Thread -> PcName]
      /\ arrived \in [Phase -> SUBSET Thread]
  BY Zenon, <1>a, <1>b DEF GatesInv, TypeOK, PcName
<1>1. /\ pc[t] = "run" /\ count' = count + 1 /\ phase' = phase /\ serial' = serial /\ gone' = gone
      /\ arrived' = [arrived EXCEPT ![phase] = arrived[phase] \cup {t}]
      /\ my_phase' = [my_phase EXCEPT ![t] = phase]
      /\ pc' = [pc EXCEPT ![t] = "barrier"]
  BY Zenon DEF BarrierWait
<1>2. UNCHANGED <<rwVars, onceVars>>
  BY Zenon DEF BarrierWait
<1>3. TypeOK'
  <2>1. count' \in 0 .. Total - 1
    BY <1>0, <1>1, GatesAssumption
  <2>2. /\ arrived' \in [Phase -> SUBSET Thread] /\ my_phase' \in [Thread -> Phase]
        /\ pc' \in [Thread -> PcName]
    BY Zenon, <1>0, <1>1 DEF PcName
  <2> QED BY Zenon, <1>1, <1>2, <2>1, <2>2 DEF GatesInv, TypeOK, rwVars, onceVars, PcName
<1>4. BarrierInv'
  <2>1. arrived[phase] = Waiting(phase) /\ Cardinality(arrived[phase]) = count
    BY Zenon, <1>0 DEF GatesInv, BarrierInv
  <2>2. Waiting(phase)' = Waiting(phase) \cup {t}
    BY Zenon, <1>0, <1>1 DEF Waiting
  <2>3. Cardinality(arrived[phase] \cup {t}) = count + 1
    <3>1. t \notin arrived[phase] /\ IsFiniteSet(arrived[phase])
      BY Zenon, <1>0, <1>1, <2>1, ThreadsFinite DEF Waiting
    <3> QED BY Zenon, <2>1, <3>1, FS_AddElement
  <2>4. \A u \in Thread : pc'[u] = "barrier" => my_phase'[u] <= phase'
    BY <1>0, <1>1 DEF GatesInv, BarrierInv
  <2>5. ASSUME NEW p \in Phase, p # phase
        PROVE  arrived'[p] = arrived[p] /\ Waiting(p)' = Waiting(p)
    BY Zenon, <1>0, <1>1, <2>5 DEF Waiting
  <2>6. ASSUME NEW p \in Phase
        PROVE  /\ p = phase' => arrived'[p] = Waiting(p)' /\ Cardinality(arrived'[p]) = count'
               /\ p > phase' => arrived'[p] = {}
               /\ p >= phase' => gone'[p] = {} /\ serial'[p] = {}
               /\ p < phase' =>
                    /\ Cardinality(arrived'[p]) = Total /\ Cardinality(serial'[p]) = 1
                    /\ gone'[p] \subseteq arrived'[p] /\ Waiting(p)' \subseteq arrived'[p]
    <3>1. CASE p = phase
      <4>1. arrived'[p] = Waiting(p)' /\ Cardinality(arrived'[p]) = count'
        BY Zenon, <1>0, <1>1, <2>1, <2>2, <2>3, <3>1
      <4>2. gone[p] = {} /\ serial[p] = {}
        BY <1>0, <3>1 DEF GatesInv, BarrierInv
      <4> QED BY <1>0, <1>1, <3>1, <4>1, <4>2
    <3>2. CASE p # phase
      BY Zenon, <1>1, <2>5, <3>2 DEF GatesInv, BarrierInv
    <3> QED BY Zenon, <3>1, <3>2
  <2> QED BY Zenon, <2>4, <2>6 DEF BarrierInv
<1>5. RwInv' /\ OnceInv'
  <2>1. \A u \in Thread : pc'[u] \in {"routine", "passed"} => pc'[u] = pc[u]
    BY Zenon, <1>0, <1>1
  <2> QED BY Zenon, <1>2, <2>1, RwKept, OnceKept DEF GatesInv
<1> QED BY Zenon, <1>3, <1>4, <1>5 DEF GatesInv

(* The loop of pthread_barrier_wait ends only in a phase that has had its threads. *)
LEMMA BarrierLeaveKeeps == ASSUME GatesInv, NEW t \in Thread, BarrierLeave(t) PROVE GatesInv'
<1>0. /\ phase \in 0 .. MaxPhase /\ my_phase \in [Thread -> Phase] /\ pc \in [Thread -> PcName]
      /\ gone \in [Phase -> SUBSET Thread] /\ my_phase[t] \in Phase
  BY Zenon DEF GatesInv, TypeOK, PcName
<1>1. /\ pc[t] = "barrier" /\ phase # my_phase[t]
      /\ gone' = [gone EXCEPT ![my_phase[t]] = gone[my_phase[t]] \cup {t}]
      /\ my_phase' = [my_phase EXCEPT ![t] = 0] /\ pc' = [pc EXCEPT ![t] = "run"]
      /\ UNCHANGED <<rwVars, onceVars, count, phase, arrived, serial>>
  BY Zenon DEF BarrierLeave
<1>2. TypeOK'
  <2>1. 0 \in Phase
    BY GatesAssumption DEF Phase
  <2>2. /\ my_phase' \in [Thread -> Phase] /\ pc' \in [Thread -> PcName]
        /\ gone' \in [Phase -> SUBSET Thread]
    BY Zenon, <1>0, <1>1, <2>1 DEF PcName
  <2> QED BY Zenon, <1>1, <2>2 DEF GatesInv, TypeOK, rwVars, onceVars, PcName
<1>3. BarrierInv'
  <2>1. my_phase[t] < phase
    BY <1>0, <1>1, GatesAssumption DEF GatesInv, BarrierInv, Phase
  <2>2. \A p \in Phase : Waiting(p)' \subseteq Waiting(p)
    BY Zenon, <1>0, <1>1 DEF Waiting
  <2>3. Waiting(phase)' = Waiting(phase)
    BY Zenon, <1>0, <1>1 DEF Waiting
  <2>4. \A u \in Thread : pc'[u] = "barrier" => my_phase'[u] <= phase'
    BY Zenon, <1>0, <1>1 DEF GatesInv, BarrierInv
  <2>5. ASSUME NEW p \in Phase, p # my_phase[t]
        PROVE  gone'[p] = gone[p]
    BY Zenon, <1>0, <1>1, <2>5
  <2>6. gone'[my_phase[t]] \subseteq arrived[my_phase[t]]
    <3>1. t \in Waiting(my_phase[t])
      BY Zenon, <1>1 DEF Waiting
    <3>2. t \in arrived[my_phase[t]] /\ gone[my_phase[t]] \subseteq arrived[my_phase[t]]
      BY Zenon, <1>0, <2>1, <3>1 DEF GatesInv, BarrierInv
    <3> QED BY Zenon, <1>0, <1>1, <3>2
  <2>7. ASSUME NEW p \in Phase
        PROVE  /\ p = phase' => arrived'[p] = Waiting(p)' /\ Cardinality(arrived'[p]) = count'
               /\ p > phase' => arrived'[p] = {}
               /\ p >= phase' => gone'[p] = {} /\ serial'[p] = {}
               /\ p < phase' =>
                    /\ Cardinality(arrived'[p]) = Total /\ Cardinality(serial'[p]) = 1
                    /\ gone'[p] \subseteq arrived'[p] /\ Waiting(p)' \subseteq arrived'[p]
    <3>1. CASE p = my_phase[t]
      <4>1. /\ Cardinality(arrived[p]) = Total /\ Cardinality(serial[p]) = 1
            /\ Waiting(p) \subseteq arrived[p]
        BY Zenon, <2>1, <3>1 DEF GatesInv, BarrierInv
      <4>2. ~(p = phase') /\ ~(p > phase') /\ ~(p >= phase')
        BY <1>0, <1>1, <2>1, <3>1, GatesAssumption DEF Phase
      <4> QED BY Zenon, <1>1, <2>2, <2>6, <3>1, <4>1, <4>2
    <3>2. CASE p # my_phase[t]
      BY Zenon, <1>1, <2>2, <2>3, <2>5, <3>2 DEF GatesInv, BarrierInv
    <3> QED BY Zenon, <3>1, <3>2
  <2> QED BY Zenon, <2>4, <2>7 DEF BarrierInv
<1>4. RwInv' /\ OnceInv'
  <2>1. \A u \in Thread : pc'[u] \in {"routine", "passed"} => pc'[u] = pc[u]
    BY Zenon, <1>0, <1>1
  <2> QED BY Zenon, <1>1, <2>1, RwKept, OnceKept DEF GatesInv
<1> QED BY Zenon, <1>2, <1>3, <1>4 DEF GatesInv

-------------------------------------------------------------------------------
(* The steps of pthread_once move only their thread, and only to a place of PcName. *)
LEMMA OnceFrame ==
  ASSUME GatesInv, NEW t \in Thread, NEW w \in PcName \ {"barrier"}, pc[t] # "barrier",
         pc' = [pc EXCEPT ![t] = w], UNCHANGED <<rwVars, barrierVars>>,
         once_control' \in 0 .. 2, ran' \in Nat, OnceInv'
  PROVE  GatesInv'
<1>0. pc \in [Thread -> PcName]
  BY Zenon DEF GatesInv, TypeOK, PcName
<1>1. pc' \in [Thread -> PcName]
  BY Zenon, <1>0
<1>2. TypeOK'
  BY Zenon, <1>1 DEF GatesInv, TypeOK, PcName, rwVars, barrierVars
<1>3. \A u \in Thread : pc'[u] = "barrier" <=> pc[u] = "barrier"
  BY Zenon, <1>0
<1>4. RwInv' /\ BarrierInv'
  BY Zenon, <1>3, RwKept, BarrierKept DEF GatesInv
<1> QED BY Zenon, <1>2, <1>4 DEF GatesInv

(* The first test of pthread_once, the end of its loop and its return. *)
LEMMA OncePassKeeps ==
  ASSUME GatesInv, NEW t \in Thread, Once(t) \/ OnceLeave(t) \/ Resume(t)
  PROVE  GatesInv'
<1>0. pc \in [Thread -> PcName] /\ once_control \in 0 .. 2 /\ ran \in Nat
  BY Zenon DEF GatesInv, TypeOK, PcName
<1>1. PICK w \in PcName \ {"barrier"} :
        pc' = [pc EXCEPT ![t] = w] /\ w # "routine" /\ (w = "passed" => once_control = 2)
  <2>1. CASE Once(t) /\ once_control # 2
    <3>1. pc' = [pc EXCEPT ![t] = "once"]
      BY Zenon, <2>1 DEF Once
    <3>2. "once" \in PcName \ {"barrier"} /\ "once" # "routine" /\ "once" # "passed"
      BY Zenon DEF PcName
    <3> QED BY Zenon, <3>1, <3>2
  <2>2. CASE OnceLeave(t) \/ (Once(t) /\ once_control = 2)
    <3>1. pc' = [pc EXCEPT ![t] = "passed"] /\ once_control = 2
      BY Zenon, <2>2 DEF Once, OnceLeave
    <3> QED BY Zenon, <3>1 DEF PcName
  <2>3. CASE Resume(t)
    <3>1. pc' = [pc EXCEPT ![t] = "run"]
      BY Zenon, <2>3 DEF Resume
    <3>2. "run" \in PcName \ {"barrier"} /\ "run" # "routine" /\ "run" # "passed"
      BY Zenon DEF PcName
    <3> QED BY Zenon, <3>1, <3>2
  <2> QED BY Zenon, <2>1, <2>2, <2>3
<1>2. UNCHANGED <<rwVars, barrierVars, onceVars>> /\ pc[t] # "barrier"
  BY Zenon DEF Once, OnceLeave, Resume
<1>3. OnceInv'
  BY Zenon, <1>0, <1>1, <1>2 DEF GatesInv, OnceInv, onceVars
<1>4. once_control' \in 0 .. 2 /\ ran' \in Nat
  BY Zenon, <1>0, <1>2 DEF onceVars
<1> QED BY Zenon, <1>1, <1>2, <1>3, <1>4, OnceFrame

(* The first section of pthread_once: the first to come runs the routine. *)
LEMMA OnceEnterKeeps == ASSUME GatesInv, NEW t \in Thread, OnceEnter(t) PROVE GatesInv'
<1>0. pc \in [Thread -> PcName] /\ once_control \in 0 .. 2 /\ ran \in Nat
  BY Zenon DEF GatesInv, TypeOK, PcName
<1>1. UNCHANGED <<rwVars, barrierVars>> /\ pc[t] = "once"
  BY Zenon DEF OnceEnter
<1>2. CASE once_control = 0
  <2>1. once_control' = 1 /\ ran' = ran + 1 /\ pc' = [pc EXCEPT ![t] = "routine"]
    BY Zenon, <1>2 DEF OnceEnter
  <2>2. ran = 0 /\ \A u \in Thread : pc[u] # "routine" /\ pc[u] # "passed"
    BY <1>2 DEF GatesInv, OnceInv
  <2>3. OnceInv'
    BY <1>0, <2>1, <2>2 DEF OnceInv
  <2>4. once_control' \in 0 .. 2 /\ ran' \in Nat
    BY <1>0, <2>1
  <2> QED BY Zenon, <1>1, <2>1, <2>3, <2>4, OnceFrame DEF PcName
<1>3. CASE once_control # 0
  <2>1. pc' = [pc EXCEPT ![t] = "once wait"] /\ once_control' = once_control /\ ran' = ran
    BY Zenon, <1>3 DEF OnceEnter, onceVars
  <2>2. OnceInv'
    BY Zenon, <1>0, <2>1 DEF GatesInv, OnceInv
  <2> QED BY Zenon, <1>0, <1>1, <2>1, <2>2, OnceFrame DEF PcName
<1> QED BY Zenon, <1>2, <1>3

(* The routine has returned: nobody else is in it. *)
LEMMA OnceDoneKeeps == ASSUME GatesInv, NEW t \in Thread, OnceDone(t) PROVE GatesInv'
<1>0. pc \in [Thread -> PcName] /\ ran \in Nat
  BY Zenon DEF GatesInv, TypeOK, PcName
<1>1. /\ pc[t] = "routine" /\ once_control' = 2 /\ pc' = [pc EXCEPT ![t] = "passed"]
      /\ UNCHANGED <<rwVars, barrierVars>> /\ ran' = ran
  BY Zenon DEF OnceDone
<1>2. ran = 1 /\ \A u \in Thread \ {t} : pc[u] # "routine"
  BY Zenon, <1>1 DEF GatesInv, OnceInv
<1>3. OnceInv'
  BY <1>0, <1>1, <1>2 DEF OnceInv
<1>4. once_control' \in 0 .. 2 /\ ran' \in Nat
  BY <1>0, <1>1
<1> QED BY Zenon, <1>1, <1>3, <1>4, OnceFrame DEF PcName

-------------------------------------------------------------------------------
(* GatesInv is an invariant of the gates. *)
THEOREM GatesInvariant == Spec => []GatesInv
<1>1. GatesInv /\ UNCHANGED vars => GatesInv'
  <2> SUFFICES ASSUME GatesInv, UNCHANGED vars PROVE GatesInv'
    BY Zenon
  <2>1. UNCHANGED <<rwVars, barrierVars, onceVars, pc>>
    BY Zenon DEF vars
  <2>2. RwInv' /\ BarrierInv' /\ OnceInv'
    BY Zenon, <2>1, RwKept, BarrierKept, OnceKept DEF GatesInv
  <2>3. TypeOK'
    BY Zenon, <2>1 DEF GatesInv, TypeOK, rwVars, barrierVars, onceVars
  <2> QED BY Zenon, <2>2, <2>3 DEF GatesInv
<1>2. GatesInv /\ [Next]_vars => GatesInv'
  BY Zenon, <1>1, RdlockKeeps, WrlockKeeps, RwUnlockKeeps, BarrierOpens, BarrierFills,
     BarrierLeaveKeeps, OncePassKeeps, OnceEnterKeeps, OnceDoneKeeps DEF Next, Advance
<1> QED BY <1>2, GatesInit, PTL DEF Spec

(* pthread_rwlock_*: whatever the threads and however often they lock to read, a writer is
   alone, and the state is 0 exactly when nobody holds the lock. *)
THEOREM RwLockExcludes == Spec => []RwExclusion
<1>1. GatesInv => RwExclusion
  <2> SUFFICES ASSUME GatesInv PROVE RwExclusion
    BY Zenon
  <2>0. holds \in [Thread -> -1 .. MaxReads] /\ MaxReads \in Nat
    BY Zenon, GatesAssumption DEF GatesInv, TypeOK
  <2>1. CASE /\ \A t \in Thread : holds[t] >= 0
             /\ state = Cardinality(ReadLocks)
    <3>1. state = 0 <=> ReadLocks = {}
      BY Zenon, <2>1, ReadLocksFinite, FS_EmptySet
    <3>2. ReadLocks = {} <=> \A t \in Thread : holds[t] = 0
      <4>1. ASSUME NEW t \in Thread, holds[t] # 0 PROVE <<t, 1>> \in ReadLocks
        BY <2>0, <2>1, <4>1 DEF ReadLocks
      <4>2. (\A t \in Thread : holds[t] = 0) => ReadLocks = {}
        BY DEF ReadLocks
      <4> QED BY Zenon, <4>1, <4>2
    <3>3. \A t \in Thread : holds[t] # -1
      BY <2>0, <2>1
    <3> QED BY Zenon, <3>1, <3>2, <3>3 DEF RwExclusion
  <2>2. CASE /\ state = -1
             /\ \E w \in Thread : holds[w] = -1 /\ \A t \in Thread \ {w} : holds[t] = 0
    BY Zenon, <2>2 DEF RwExclusion
  <2> QED BY Zenon, <2>1, <2>2 DEF GatesInv, RwInv
<1> QED BY <1>1, GatesInvariant, PTL

(* pthread_barrier_wait: for every count of the barrier and any number of threads, no thread
   goes on from a phase before Total have come to it, just Total do, and one is serial. *)
THEOREM BarrierHolds == Spec => []BarrierTogether
<1>1. GatesInv => BarrierTogether
  <2> SUFFICES ASSUME GatesInv, NEW p \in Phase
               PROVE  /\ gone[p] # {} =>
                           Cardinality(arrived[p]) = Total /\ Cardinality(serial[p]) = 1
                      /\ gone[p] \subseteq arrived[p]
                      /\ Cardinality(arrived[p]) <= Total
    BY Zenon DEF BarrierTogether
  <2>a. phase \in 0 .. MaxPhase /\ count \in 0 .. Total - 1
    BY Zenon DEF GatesInv, TypeOK
  <2>0. p \in Int /\ phase \in Int /\ count \in 0 .. Total - 1 /\ Total \in Nat
    BY <2>a, GatesAssumption DEF Phase
  <2>1. CASE p < phase
    BY <2>0, <2>1 DEF GatesInv, BarrierInv
  <2>2. CASE p = phase
    BY <2>0, <2>2 DEF GatesInv, BarrierInv
  <2>3. CASE p > phase
    BY <2>0, <2>3, FS_EmptySet DEF GatesInv, BarrierInv
  <2> QED BY <2>0, <2>1, <2>2, <2>3
<1> QED BY <1>1, GatesInvariant, PTL

(* pthread_once: any number of threads may call it; the routine runs once, and who returns
   finds that it has returned. *)
THEOREM OnceRunsFirst == Spec => []OnceFirst
<1>1. GatesInv => OnceFirst
  BY DEF GatesInv, OnceInv, OnceFirst
<1> QED BY <1>1, GatesInvariant, PTL
=============================================================================
