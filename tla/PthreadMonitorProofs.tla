------------------------- MODULE PthreadMonitorProofs -------------------------
(***************************************************************************)
(* The mutex excludes, its owner and count tell the truth, and no wakeup   *)
(* of the condition variable is lost: for any number of threads, every     *)
(* type of mutex and any bounds.                                           *)
(***************************************************************************)
EXTENDS PthreadMonitor, FiniteSetTheorems, TLAPS

PcName == {"run", "lock", "own", "unlock", "release", "poll"}

(* The thread that has the word of the mutex: from the exchange that takes it to the one
   that gives it back. *)
Has(t) == depth[t] > 0 \/ pc[t] \in {"own", "unlock"}

(* The word is set exactly while one thread has it; the mutex has an owner, and a count,
   exactly while a thread holds it, and only a recursive one is held twice. *)
MutexInv ==
  /\ \A t, u \in Thread : Has(t) /\ Has(u) => t = u
  /\ locked <=> \E t \in Thread : Has(t)
  /\ \A t \in Thread : owner = t <=> depth[t] > 0
  /\ \A t \in Thread : depth[t] > 0 =>
       /\ count = depth[t] /\ pc[t] \in {"run", "release"}
       /\ Type = "recursive" \/ depth[t] = 1
  /\ \A t \in Thread : pc[t] = "release" => depth[t] = 1

(* Who is in pthread_cond_wait knows it, and no broadcast it has seen is yet to come. *)
WaitInv ==
  \A t \in Thread :
    /\ my_bcast[t] <= bcast_gen
    /\ pc[t] = "run" => ~waiting[t]
    /\ pc[t] \in {"release", "poll"} => waiting[t]

MonitorInv == TypeOK /\ MutexInv /\ WaitInv /\ NoLostSignal

-------------------------------------------------------------------------------
LEMMA MonitorInit == Init => MonitorInv
<1> SUFFICES ASSUME Init PROVE MonitorInv
  BY Zenon
<1>0. Cardinality(Thread) \in Nat
  BY Zenon, FS_CardinalityType, MonitorAssumption
<1>1. TypeOK
  <2>1. 0 \in 0 .. MaxDepth /\ 0 \in 0 .. Cardinality(Thread) /\ 0 \in 0 .. MaxGen /\ 0 \in Nat
    BY <1>0, MonitorAssumption
  <2> QED BY Zenon, <2>1 DEF Init, TypeOK
<1>2. MutexInv
  BY MonitorAssumption DEF Init, MutexInv, Has, Nobody
<1>3. WaitInv
  BY DEF Init, WaitInv
<1>4. NoLostSignal
  <2>1. Waiters = {} /\ Current = {}
    BY Zenon DEF Init, Waiters, Current
  <2> QED BY <2>1, FS_EmptySet DEF Init, NoLostSignal
<1> QED BY Zenon, <1>1, <1>2, <1>3, <1>4 DEF MonitorInv

(* What the proofs of the single steps take from MonitorInv. *)
LEMMA MonitorTypes ==
  ASSUME MonitorInv
  PROVE  /\ count \in Nat /\ tickets \in Nat /\ waiters \in Nat /\ bcast_gen \in Nat /\ due \in Nat
         /\ pc \in [Thread -> PcName] /\ waiting \in [Thread -> BOOLEAN]
         /\ depth \in [Thread -> Nat] /\ my_bcast \in [Thread -> Nat]
         /\ MaxDepth \in Nat /\ MaxDepth > 0 /\ MaxGen \in Nat
<1>1. MaxDepth \in Nat /\ MaxDepth > 0 /\ MaxGen \in Nat /\ Cardinality(Thread) \in Nat
  BY MonitorAssumption, FS_CardinalityType
<1>2. /\ count \in 0 .. MaxDepth /\ tickets \in 0 .. Cardinality(Thread) /\ bcast_gen \in 0 .. MaxGen
      /\ my_bcast \in [Thread -> 0 .. MaxGen] /\ depth \in [Thread -> 0 .. MaxDepth]
  BY Zenon DEF MonitorInv, TypeOK
<1>3. waiters \in Nat /\ due \in Nat /\ pc \in [Thread -> PcName] /\ waiting \in [Thread -> BOOLEAN]
  BY Zenon DEF MonitorInv, TypeOK, PcName
<1>4. count \in Nat /\ tickets \in Nat /\ bcast_gen \in Nat
  BY <1>1, <1>2
<1>5. depth \in [Thread -> Nat] /\ my_bcast \in [Thread -> Nat]
  BY <1>1, <1>2
<1> QED BY Zenon, <1>1, <1>3, <1>4, <1>5

(* The waiters are finitely many, and so are those of the present generation. *)
LEMMA WaitersFinite ==
  /\ IsFiniteSet(Waiters) /\ IsFiniteSet(Current) /\ IsFiniteSet(Waiters \ Current)
  /\ Cardinality(Waiters) \in Nat /\ Cardinality(Current) \in Nat
  /\ Cardinality(Waiters \ Current) \in Nat /\ Cardinality(Waiters) <= Cardinality(Thread)
  /\ Cardinality(Waiters) = Cardinality(Waiters \ Current) + Cardinality(Current)
<1>1. IsFiniteSet(Waiters) /\ Cardinality(Waiters) <= Cardinality(Thread)
  BY Zenon, FS_Subset, MonitorAssumption DEF Waiters
<1>2. IsFiniteSet(Current) /\ IsFiniteSet(Waiters \ Current)
  BY Zenon, <1>1, FS_Subset DEF Current
<1>3. Waiters \cap Current = Current
  BY Zenon DEF Current
<1>4. Cardinality(Waiters \ Current) = Cardinality(Waiters) - Cardinality(Current)
  BY <1>1, <1>3, FS_Difference
<1> QED BY <1>1, <1>2, <1>4, FS_CardinalityType

(* A step that leaves the waiters and the condition variable alone loses no wakeup. *)
LEMMA SignalsKept ==
  ASSUME NoLostSignal, Waiters' = Waiters, UNCHANGED <<condVars, my_bcast, due>>
  PROVE  NoLostSignal'
<1>1. Current' = Current
  BY Zenon DEF Current, condVars
<1> QED BY Zenon, <1>1 DEF NoLostSignal, condVars

-------------------------------------------------------------------------------
(* pthread_mutex_lock and trylock by the thread that holds a recursive mutex. *)
LEMMA RelockKeeps ==
  ASSUME MonitorInv, NEW t \in Thread, pc[t] = "run", Relock(t)
  PROVE  MonitorInv'
<1>0. /\ depth \in [Thread -> Nat] /\ count \in Nat /\ MaxDepth \in Nat
      /\ depth \in [Thread -> 0 .. MaxDepth] /\ count \in 0 .. MaxDepth
  BY Zenon, MonitorTypes DEF MonitorInv, TypeOK
<1>1. /\ Type = "recursive" /\ locked /\ owner = t /\ depth[t] < MaxDepth
      /\ count' = count + 1 /\ depth' = [depth EXCEPT ![t] = depth[t] + 1]
      /\ UNCHANGED <<locked, owner, condVars, pc, waiting, my_bcast, due>>
  BY Zenon DEF Relock, Own
<1>2. depth[t] > 0 /\ count = depth[t]
  BY Zenon, <1>1 DEF MonitorInv, MutexInv
<1>3. TypeOK'
  <2>1. depth[t] + 1 \in 0 .. MaxDepth
    BY <1>0, <1>1
  <2>2. count' \in 0 .. MaxDepth /\ depth' \in [Thread -> 0 .. MaxDepth]
    BY Zenon, <1>0, <1>1, <1>2, <2>1
  <2> QED BY Zenon, <1>1, <2>2 DEF MonitorInv, TypeOK, condVars
<1>4. MutexInv'
  <2>1. /\ \A u \in Thread : depth'[u] > 0 <=> depth[u] > 0
        /\ depth'[t] = count' /\ \A u \in Thread \ {t} : depth[u] = 0 /\ depth'[u] = 0
    <3>1. \A u \in Thread \ {t} : depth[u] = 0
      BY <1>0, <1>1, <1>2 DEF MonitorInv, MutexInv
    <3> QED BY <1>0, <1>1, <1>2, <3>1
  <2>2. \A u \in Thread : Has(u)' <=> Has(u)
    BY Zenon, <1>1, <2>1 DEF Has
  <2> QED BY <1>1, <2>1, <2>2 DEF MonitorInv, MutexInv
<1>5. WaitInv'
  BY Zenon, <1>1 DEF MonitorInv, WaitInv, condVars
<1>6. NoLostSignal'
  BY Zenon, <1>1, SignalsKept DEF MonitorInv, Waiters
<1> QED BY Zenon, <1>3, <1>4, <1>5, <1>6 DEF MonitorInv

(* The call of pthread_mutex_lock by a thread that does not hold the mutex. *)
LEMMA LockKeeps == ASSUME MonitorInv, NEW t \in Thread, Lock(t) PROVE MonitorInv'
<1>0. pc \in [Thread -> PcName]
  BY Zenon, MonitorTypes
<1>1. CASE Relock(t)
  BY Zenon, <1>1, RelockKeeps DEF Lock
<1>2. CASE /\ pc[t] = "run" /\ depth[t] = 0 /\ pc' = [pc EXCEPT ![t] = "lock"]
           /\ UNCHANGED <<mutexVars, condVars, waiting, my_bcast, depth, due>>
  <2>1. pc' \in [Thread -> PcName]
    BY Zenon, <1>0, <1>2 DEF PcName
  <2>2. TypeOK'
    BY Zenon, <1>2, <2>1 DEF MonitorInv, TypeOK, mutexVars, condVars, PcName
  <2>3. \A u \in Thread : Has(u)' <=> Has(u)
    BY Zenon, <1>0, <1>2 DEF Has
  <2>4. MutexInv'
    BY <1>0, <1>2, <2>3 DEF MonitorInv, MutexInv, mutexVars
  <2>5. WaitInv'
    BY Zenon, <1>0, <1>2 DEF MonitorInv, WaitInv, condVars
  <2>6. Waiters' = Waiters
    BY Zenon, <1>0, <1>2 DEF Waiters
  <2> QED BY Zenon, <1>2, <2>2, <2>4, <2>5, <2>6, SignalsKept DEF MonitorInv
<1> QED BY Zenon, <1>1, <1>2 DEF Lock, Goto

(* The exchange of pthread_mutex_lock and of pthread_mutex_trylock takes a word that nobody
   has. *)
LEMMA ExchangeKeeps ==
  ASSUME MonitorInv, NEW t \in Thread, pc[t] \in {"run", "lock"}, ~locked, locked' = TRUE,
         pc' = [pc EXCEPT ![t] = "own"],
         UNCHANGED <<owner, count, condVars, waiting, my_bcast, depth, due>>
  PROVE  MonitorInv'
<1>0. pc \in [Thread -> PcName] /\ depth \in [Thread -> Nat]
  BY Zenon, MonitorTypes
<1>1. \A u \in Thread : ~Has(u)
  BY Zenon DEF MonitorInv, MutexInv
<1>2. pc' \in [Thread -> PcName]
  BY Zenon, <1>0 DEF PcName
<1>3. TypeOK'
  BY Zenon, <1>2 DEF MonitorInv, TypeOK, condVars, PcName
<1>4. \A u \in Thread : Has(u)' <=> u = t
  BY Zenon, <1>0, <1>1 DEF Has
<1>5. MutexInv'
  BY <1>0, <1>1, <1>4 DEF MonitorInv, MutexInv, Has
<1>6. WaitInv'
  BY Zenon, <1>0 DEF MonitorInv, WaitInv, condVars
<1>7. Waiters' = Waiters
  BY Zenon, <1>0 DEF Waiters
<1> QED BY Zenon, <1>3, <1>5, <1>6, <1>7, SignalsKept DEF MonitorInv

(* The mutex gets its owner. *)
LEMMA LockedKeeps == ASSUME MonitorInv, NEW t \in Thread, Locked(t) PROVE MonitorInv'
<1>0. /\ pc \in [Thread -> PcName] /\ depth \in [Thread -> Nat] /\ waiting \in [Thread -> BOOLEAN]
      /\ depth \in [Thread -> 0 .. MaxDepth] /\ 1 \in 0 .. MaxDepth
  BY MonitorTypes DEF MonitorInv, TypeOK
<1>1. /\ pc[t] = "own" /\ owner' = t /\ count' = 1
      /\ pc' = [pc EXCEPT ![t] = "run"] /\ depth' = [depth EXCEPT ![t] = 1]
      /\ waiting' = [waiting EXCEPT ![t] = FALSE]
      /\ UNCHANGED <<locked, condVars, my_bcast, due>>
  BY Zenon DEF Locked, Goto
<1>2. \A u \in Thread : Has(u) <=> u = t
  BY Zenon, <1>1 DEF MonitorInv, MutexInv, Has
<1>3. TypeOK'
  <2>1. pc' \in [Thread -> PcName] /\ waiting' \in [Thread -> BOOLEAN]
    BY Zenon, <1>0, <1>1 DEF PcName
  <2>2. depth' \in [Thread -> 0 .. MaxDepth] /\ count' \in 0 .. MaxDepth
    BY Zenon, <1>0, <1>1
  <2> QED BY Zenon, <1>1, <2>1, <2>2 DEF MonitorInv, TypeOK, condVars, PcName
<1>4. MutexInv'
  <2>1. \A u \in Thread \ {t} : depth'[u] = 0 /\ pc'[u] = pc[u] /\ pc[u] # "release"
    BY <1>0, <1>1, <1>2 DEF Has, MonitorInv, MutexInv
  <2>2. depth'[t] = 1 /\ pc'[t] = "run"
    BY Zenon, <1>0, <1>1
  <2>3. \A u \in Thread : Has(u)' <=> u = t
    BY <1>1, <1>2, <2>1, <2>2 DEF Has
  <2>4. locked'
    BY Zenon, <1>1, <1>2 DEF MonitorInv, MutexInv
  <2> QED BY <1>1, <2>1, <2>2, <2>3, <2>4 DEF MutexInv
<1>5. WaitInv'
  BY Zenon, <1>0, <1>1 DEF MonitorInv, WaitInv, condVars
<1>6. Waiters' = Waiters
  BY Zenon, <1>0, <1>1 DEF Waiters
<1> QED BY Zenon, <1>1, <1>3, <1>4, <1>5, <1>6, SignalsKept DEF MonitorInv

(* pthread_mutex_unlock up to the exchange, in a program or in pthread_cond_wait. *)
LEMMA UnlockKeeps ==
  ASSUME MonitorInv, NEW t \in Thread, pc[t] \in {"run", "release"}, depth[t] > 0,
         UnlockStep(t), depth' = [depth EXCEPT ![t] = depth[t] - 1],
         UNCHANGED <<locked, condVars, waiting, my_bcast, due>>
  PROVE  MonitorInv'
<1>0. /\ pc \in [Thread -> PcName] /\ depth \in [Thread -> Nat] /\ waiting \in [Thread -> BOOLEAN]
      /\ depth \in [Thread -> 0 .. MaxDepth] /\ MaxDepth \in Nat
  BY Zenon, MonitorTypes DEF MonitorInv, TypeOK
<1>1. /\ owner = t /\ count = depth[t] /\ (Type = "recursive" \/ depth[t] = 1)
      /\ (pc[t] = "release" => depth[t] = 1) /\ locked
      /\ \A u \in Thread \ {t} : ~Has(u)
  BY Zenon DEF MonitorInv, MutexInv, Has
<1>2. depth[t] - 1 \in 0 .. MaxDepth /\ depth' \in [Thread -> 0 .. MaxDepth]
  <2>1. depth[t] - 1 \in 0 .. MaxDepth
    BY <1>0
  <2> QED BY Zenon, <1>0, <2>1
<1>3. \A u \in Thread \ {t} : depth'[u] = 0 /\ depth[u] = 0
  BY <1>0, <1>1 DEF Has
<1>4. CASE depth[t] > 1
  <2>1. /\ Type = "recursive" /\ pc[t] = "run"
        /\ count' = count - 1 /\ owner' = owner /\ pc' = [pc EXCEPT ![t] = "run"]
    BY <1>0, <1>1, <1>4 DEF UnlockStep, Goto
  <2>2. pc' = pc
    BY Zenon, <1>0, <2>1
  <2>3. TypeOK'
    <3>1. count' \in 0 .. MaxDepth
      BY Zenon, <1>1, <1>2, <2>1
    <3> QED BY Zenon, <1>2, <2>1, <2>2, <3>1 DEF MonitorInv, TypeOK, condVars
  <2>4. MutexInv'
    <3>1. depth'[t] = count' /\ depth'[t] > 0
      BY <1>0, <1>1, <1>4, <2>1
    <3>2. \A u \in Thread : Has(u)' <=> Has(u)
      BY Zenon, <1>3, <2>2, <3>1 DEF Has
    <3> QED BY <1>1, <1>3, <2>1, <2>2, <3>1, <3>2 DEF MonitorInv, MutexInv
  <2>5. WaitInv'
    BY Zenon, <2>2 DEF MonitorInv, WaitInv, condVars
  <2>6. Waiters' = Waiters
    BY Zenon, <2>2 DEF Waiters
  <2> QED BY Zenon, <2>3, <2>4, <2>5, <2>6, SignalsKept DEF MonitorInv
<1>5. CASE depth[t] = 1
  <2>1. owner' = Nobody /\ count' = 0 /\ pc' = [pc EXCEPT ![t] = "unlock"]
    BY <1>1, <1>5 DEF UnlockStep, Goto
  <2>2. TypeOK'
    <3>1. count' \in 0 .. MaxDepth
      BY <1>0, <2>1
    <3>2. pc' \in [Thread -> PcName]
      BY Zenon, <1>0, <2>1 DEF PcName
    <3> QED BY Zenon, <1>2, <2>1, <3>1, <3>2 DEF MonitorInv, TypeOK, condVars, PcName
  <2>3. MutexInv'
    <3>1. \A u \in Thread : depth'[u] = 0
      BY <1>0, <1>3, <1>5
    <3>2. \A u \in Thread \ {t} : pc'[u] = pc[u] /\ pc[u] # "release"
      BY <1>0, <1>3, <2>1 DEF MonitorInv, MutexInv
    <3>3. pc'[t] = "unlock"
      BY Zenon, <1>0, <2>1
    <3>4. \A u \in Thread : Has(u)' <=> u = t
      BY <1>1, <3>1, <3>2, <3>3 DEF Has
    <3>5. \A u \in Thread : owner' # u
      BY Zenon, <2>1, MonitorAssumption DEF Nobody
    <3> QED BY <1>1, <3>1, <3>2, <3>3, <3>4, <3>5 DEF MutexInv
  <2>4. WaitInv'
    BY Zenon, <1>0, <2>1 DEF MonitorInv, WaitInv, condVars
  <2>5. Waiters' = Waiters
    BY Zenon, <1>0, <2>1 DEF MonitorInv, WaitInv, Waiters
  <2> QED BY Zenon, <2>2, <2>3, <2>4, <2>5, SignalsKept DEF MonitorInv
<1> QED BY <1>0, <1>4, <1>5

(* The exchange of pthread_mutex_unlock gives the word back. *)
LEMMA UnlockedKeeps == ASSUME MonitorInv, NEW t \in Thread, Unlocked(t) PROVE MonitorInv'
<1>0. pc \in [Thread -> PcName] /\ depth \in [Thread -> Nat] /\ waiting \in [Thread -> BOOLEAN]
  BY Zenon, MonitorTypes
<1>1. /\ pc[t] = "unlock" /\ locked' = FALSE
      /\ UNCHANGED <<owner, count, condVars, waiting, my_bcast, depth, due>>
  BY Zenon DEF Unlocked
<1>2. PICK w \in {"poll", "run"} :
        pc' = [pc EXCEPT ![t] = w] /\ (w = "poll" <=> waiting[t])
  <2>1. CASE waiting[t]
    BY Zenon, <2>1 DEF Unlocked, Goto
  <2>2. CASE ~waiting[t]
    BY Zenon, <2>2 DEF Unlocked, Goto
  <2> QED BY Zenon, <2>1, <2>2
<1>3. /\ \A u \in Thread \ {t} : ~Has(u)
      /\ depth[t] = 0
  BY <1>0, <1>1 DEF MonitorInv, MutexInv, Has
<1>4. TypeOK'
  <2>1. pc' \in [Thread -> PcName]
    BY Zenon, <1>0, <1>2 DEF PcName
  <2> QED BY Zenon, <1>1, <2>1 DEF MonitorInv, TypeOK, condVars, PcName
<1>5. MutexInv'
  <2>1. \A u \in Thread : ~Has(u)'
    BY <1>0, <1>1, <1>2, <1>3 DEF Has
  <2>2. \A u \in Thread : pc'[u] # "release" /\ depth'[u] = 0
    BY <1>0, <1>1, <1>2, <1>3 DEF MonitorInv, MutexInv, Has
  <2> QED BY Zenon, <1>1, <2>1, <2>2 DEF MonitorInv, MutexInv
<1>6. WaitInv'
  BY Zenon, <1>0, <1>1, <1>2 DEF MonitorInv, WaitInv, condVars
<1>7. Waiters' = Waiters
  BY Zenon, <1>0, <1>1, <1>2 DEF Waiters
<1> QED BY Zenon, <1>1, <1>4, <1>5, <1>6, <1>7, SignalsKept DEF MonitorInv

-------------------------------------------------------------------------------
(* A step of the condition variable leaves the mutex alone: it moves a thread to where it
   may be with what it holds. *)
LEMMA MutexKept ==
  ASSUME MonitorInv, NEW t \in Thread, UNCHANGED <<mutexVars, depth>>,
         NEW w \in PcName \ {"own", "unlock"}, pc' = [pc EXCEPT ![t] = w],
         pc[t] \notin {"own", "unlock"},
         depth[t] > 0 => w \in {"run", "release"}, w = "release" => depth[t] = 1
  PROVE  MutexInv'
<1>0. pc \in [Thread -> PcName]
  BY Zenon, MonitorTypes
<1>1. \A u \in Thread : Has(u)' <=> Has(u)
  BY Zenon, <1>0 DEF Has
<1> QED BY Zenon, <1>0, <1>1 DEF MonitorInv, MutexInv, mutexVars

(* pthread_cond_wait registers its caller as a waiter of the present generation. *)
LEMMA CondWaitKeeps == ASSUME MonitorInv, NEW t \in Thread, CondWait(t) PROVE MonitorInv'
<1>0. /\ pc \in [Thread -> PcName] /\ waiting \in [Thread -> BOOLEAN]
      /\ my_bcast \in [Thread -> Nat] /\ waiters \in Nat /\ tickets \in Nat /\ due \in Nat
      /\ bcast_gen \in Nat
  BY Zenon, MonitorTypes
<1>1. /\ pc[t] = "run" /\ depth[t] = 1 /\ waiters' = waiters + 1
      /\ my_bcast' = [my_bcast EXCEPT ![t] = bcast_gen]
      /\ waiting' = [waiting EXCEPT ![t] = TRUE] /\ pc' = [pc EXCEPT ![t] = "release"]
      /\ UNCHANGED <<mutexVars, tickets, bcast_gen, depth, due>>
  BY Zenon DEF CondWait, Goto
<1>2. TypeOK'
  <2>1. pc' \in [Thread -> PcName] /\ waiting' \in [Thread -> BOOLEAN] /\ waiters' \in Nat
    BY <1>0, <1>1 DEF PcName
  <2>2. my_bcast' \in [Thread -> 0 .. MaxGen]
    <3>1. my_bcast \in [Thread -> 0 .. MaxGen] /\ bcast_gen \in 0 .. MaxGen
      BY Zenon DEF MonitorInv, TypeOK
    <3> QED BY Zenon, <1>1, <3>1
  <2> QED BY Zenon, <1>1, <2>1, <2>2 DEF MonitorInv, TypeOK, mutexVars, PcName
<1>3. MutexInv'
  BY Zenon, <1>1, MutexKept DEF PcName
<1>4. WaitInv'
  BY <1>0, <1>1 DEF MonitorInv, WaitInv
<1>5. NoLostSignal'
  <2>1. t \notin Waiters
    BY Zenon, <1>1 DEF Waiters
  <2>2. Waiters' = Waiters \cup {t}
    BY Zenon, <1>0, <1>1 DEF Waiters
  <2>3. Current' = Current \cup {t} /\ t \notin Current
    BY Zenon, <1>0, <1>1, <2>1, <2>2 DEF Current, Waiters
  <2>4. Waiters' \ Current' = Waiters \ Current
    BY Zenon, <2>1, <2>2, <2>3
  <2>5. /\ Cardinality(Waiters') = Cardinality(Waiters) + 1
        /\ Cardinality(Current') = Cardinality(Current) + 1
    BY Zenon, <2>1, <2>2, <2>3, WaitersFinite, FS_AddElement
  <2>6. /\ waiters = Cardinality(Waiters)
        /\ due <= Cardinality(Waiters \ Current)
                  + (IF tickets < Cardinality(Current) THEN tickets ELSE Cardinality(Current))
    BY Zenon DEF MonitorInv, NoLostSignal
  <2>7. due <= Cardinality(Waiters \ Current)
               + (IF tickets < Cardinality(Current) + 1 THEN tickets ELSE Cardinality(Current) + 1)
    BY <1>0, <2>6, WaitersFinite
  <2> QED BY Zenon, <1>1, <2>4, <2>5, <2>6, <2>7 DEF NoLostSignal
<1> QED BY Zenon, <1>2, <1>3, <1>4, <1>5 DEF MonitorInv

(* A waiter goes: one that a broadcast has let go, or one of the present generation with a
   ticket. *)
LEMMA WakeKeeps == ASSUME MonitorInv, NEW t \in Thread, Wake(t) PROVE MonitorInv'
<1>0. /\ pc \in [Thread -> PcName] /\ waiting \in [Thread -> BOOLEAN]
      /\ my_bcast \in [Thread -> Nat] /\ waiters \in Nat /\ tickets \in Nat /\ due \in Nat
      /\ bcast_gen \in Nat
  BY Zenon, MonitorTypes
<1>1. /\ pc[t] = "poll" /\ waiters' = IF waiters > 0 THEN waiters - 1 ELSE waiters
      /\ due' = IF due > 0 THEN due - 1 ELSE due
      /\ my_bcast' = [my_bcast EXCEPT ![t] = 0] /\ pc' = [pc EXCEPT ![t] = "lock"]
      /\ UNCHANGED <<mutexVars, bcast_gen, waiting, depth>>
  BY Zenon DEF Wake, Goto
<1>2. \/ bcast_gen # my_bcast[t] /\ tickets' = tickets
      \/ bcast_gen = my_bcast[t] /\ tickets > 0 /\ tickets' = tickets - 1
  BY Zenon DEF Wake
<1>3. TypeOK'
  <2>1. pc' \in [Thread -> PcName] /\ waiters' \in Nat /\ due' \in Nat
    BY <1>0, <1>1 DEF PcName
  <2>2. my_bcast' \in [Thread -> 0 .. MaxGen]
    <3>1. my_bcast \in [Thread -> 0 .. MaxGen] /\ 0 \in 0 .. MaxGen
      BY MonitorTypes DEF MonitorInv, TypeOK
    <3> QED BY Zenon, <1>1, <3>1
  <2>3. tickets' \in 0 .. Cardinality(Thread)
    <3>1. Cardinality(Thread) \in Nat
      BY Zenon, FS_CardinalityType, MonitorAssumption
    <3>2. tickets \in 0 .. Cardinality(Thread)
      BY Zenon DEF MonitorInv, TypeOK
    <3>3. tickets' = tickets \/ (tickets > 0 /\ tickets' = tickets - 1)
      BY Zenon, <1>2
    <3> QED BY <3>1, <3>2, <3>3
  <2> QED BY Zenon, <1>1, <2>1, <2>2, <2>3 DEF MonitorInv, TypeOK, mutexVars, PcName
<1>4. MutexInv'
  <2>1. ~(depth[t] > 0)
    BY Zenon, <1>1 DEF MonitorInv, MutexInv
  <2> QED BY Zenon, <1>1, <2>1, MutexKept DEF PcName
<1>5. WaitInv'
  BY <1>0, <1>1 DEF MonitorInv, WaitInv
<1>6. NoLostSignal'
  <2>1. t \in Waiters
    BY Zenon, <1>1 DEF MonitorInv, WaitInv, Waiters
  <2>2. Waiters' = Waiters \ {t}
    BY Zenon, <1>0, <1>1 DEF Waiters
  <2>3. Current' = Current \ {t}
    BY Zenon, <1>0, <1>1, <2>2 DEF Current, Waiters
  <2>4. Cardinality(Waiters') = Cardinality(Waiters) - 1
    BY Zenon, <2>1, <2>2, WaitersFinite, FS_RemoveElement
  <2>5. /\ waiters = Cardinality(Waiters)
        /\ due <= Cardinality(Waiters \ Current)
                  + (IF tickets < Cardinality(Current) THEN tickets ELSE Cardinality(Current))
    BY Zenon DEF MonitorInv, NoLostSignal
  <2>6. waiters' = Cardinality(Waiters')
    <3>1. Cardinality(Waiters) # 0
      BY Zenon, <2>1, WaitersFinite, FS_EmptySet
    <3> QED BY <1>0, <1>1, <2>4, <2>5, <3>1
  <2>7. CASE bcast_gen # my_bcast[t]
    <3>1. t \notin Current
      BY Zenon, <2>7 DEF Current
    <3>2. Current' = Current
      BY Zenon, <2>3, <3>1
    <3>3. Waiters' \ Current' = (Waiters \ Current) \ {t}
      BY Zenon, <2>2, <3>2
    <3>4. Cardinality(Waiters' \ Current') = Cardinality(Waiters \ Current) - 1
      <4>1. t \in Waiters \ Current /\ IsFiniteSet(Waiters \ Current)
        BY Zenon, <2>1, <3>1, WaitersFinite
      <4> QED BY Zenon, <3>3, <4>1, FS_RemoveElement
    <3>5. Cardinality(Waiters \ Current) # 0
      BY Zenon, <2>1, <3>1, WaitersFinite, FS_EmptySet
    <3>6. due' <= Cardinality(Waiters \ Current) - 1
                  + (IF tickets < Cardinality(Current) THEN tickets ELSE Cardinality(Current))
      BY <1>0, <1>1, <2>5, <3>5, WaitersFinite
    <3> QED BY Zenon, <1>2, <2>6, <2>7, <3>2, <3>4, <3>6 DEF NoLostSignal
  <2>8. CASE bcast_gen = my_bcast[t]
    <3>1. t \in Current
      BY Zenon, <2>1, <2>8 DEF Current
    <3>2. Waiters' \ Current' = Waiters \ Current
      BY Zenon, <2>2, <2>3, <3>1
    <3>3. Cardinality(Current') = Cardinality(Current) - 1
      BY Zenon, <2>3, <3>1, WaitersFinite, FS_RemoveElement
    <3>4. Cardinality(Current) # 0
      BY Zenon, <3>1, WaitersFinite, FS_EmptySet
    <3>5. tickets > 0 /\ tickets' = tickets - 1
      BY Zenon, <1>2, <2>8
    <3>6. due' <= Cardinality(Waiters \ Current)
                  + (IF tickets - 1 < Cardinality(Current) - 1 THEN tickets - 1
                     ELSE Cardinality(Current) - 1)
      BY <1>0, <1>1, <2>5, <3>4, <3>5, WaitersFinite
    <3> QED BY Zenon, <2>6, <3>2, <3>3, <3>5, <3>6 DEF NoLostSignal
  <2> QED BY Zenon, <2>7, <2>8
<1> QED BY Zenon, <1>3, <1>4, <1>5, <1>6 DEF MonitorInv

(* pthread_cond_signal leaves one more ticket, unless there are as many as waiters. *)
LEMMA SignalKeeps == ASSUME MonitorInv, NEW t \in Thread, Signal(t) PROVE MonitorInv'
<1>0. waiters \in Nat /\ tickets \in Nat /\ due \in Nat
  BY Zenon, MonitorTypes
<1>1. /\ tickets' = IF waiters > tickets THEN tickets + 1 ELSE tickets
      /\ due' = IF due < Cardinality(Waiters) THEN due + 1 ELSE due
      /\ UNCHANGED <<mutexVars, waiters, bcast_gen, pc, waiting, my_bcast, depth>>
  BY Zenon DEF Signal
<1>2. /\ waiters = Cardinality(Waiters)
      /\ due <= Cardinality(Waiters \ Current)
                + (IF tickets < Cardinality(Current) THEN tickets ELSE Cardinality(Current))
  BY Zenon DEF MonitorInv, NoLostSignal
<1>3. TypeOK'
  <2>1. due' \in Nat
    BY <1>0, <1>1
  <2>2. tickets' \in 0 .. Cardinality(Thread)
    <3>1. Cardinality(Thread) \in Nat
      BY Zenon, FS_CardinalityType, MonitorAssumption
    <3>2. tickets \in 0 .. Cardinality(Thread)
      BY Zenon DEF MonitorInv, TypeOK
    <3> QED BY <1>0, <1>1, <1>2, <3>1, <3>2, WaitersFinite
  <2> QED BY Zenon, <1>1, <2>1, <2>2 DEF MonitorInv, TypeOK, mutexVars
<1>4. MutexInv' /\ WaitInv'
  BY Zenon, <1>1 DEF MonitorInv, MutexInv, WaitInv, Has, mutexVars
<1>5. NoLostSignal'
  <2>1. Waiters' = Waiters /\ Current' = Current
    BY Zenon, <1>1 DEF Waiters, Current
  <2>2. due' <= Cardinality(Waiters \ Current)
                + (IF tickets' < Cardinality(Current) THEN tickets' ELSE Cardinality(Current))
    BY <1>0, <1>1, <1>2, WaitersFinite
  <2> QED BY Zenon, <1>1, <1>2, <2>1, <2>2 DEF NoLostSignal
<1> QED BY Zenon, <1>3, <1>4, <1>5 DEF MonitorInv

(* pthread_cond_broadcast makes every waiter one of an earlier generation. *)
LEMMA BroadcastKeeps == ASSUME MonitorInv, NEW t \in Thread, Broadcast(t) PROVE MonitorInv'
<1>0. /\ waiters \in Nat /\ tickets \in Nat /\ due \in Nat /\ bcast_gen \in Nat
      /\ my_bcast \in [Thread -> Nat] /\ MaxGen \in Nat
  BY Zenon, MonitorTypes
<1>1. /\ due' = Cardinality(Waiters)
      /\ UNCHANGED <<mutexVars, waiters, pc, waiting, my_bcast, depth>>
  BY Zenon DEF Broadcast
<1>2. \/ waiters > 0 /\ bcast_gen < MaxGen /\ bcast_gen' = bcast_gen + 1 /\ tickets' = 0
      \/ waiters = 0 /\ bcast_gen' = bcast_gen /\ tickets' = tickets
  BY <1>0 DEF Broadcast
<1>3. waiters = Cardinality(Waiters)
  BY Zenon DEF MonitorInv, NoLostSignal
<1>4. TypeOK'
  <2>1. due' \in Nat
    BY Zenon, <1>1, WaitersFinite
  <2>2. bcast_gen' \in 0 .. MaxGen
    <3>1. bcast_gen \in 0 .. MaxGen
      BY Zenon DEF MonitorInv, TypeOK
    <3> QED BY <1>0, <1>2, <3>1
  <2>3. tickets' \in 0 .. Cardinality(Thread)
    <3>1. Cardinality(Thread) \in Nat
      BY Zenon, FS_CardinalityType, MonitorAssumption
    <3>2. tickets \in 0 .. Cardinality(Thread)
      BY Zenon DEF MonitorInv, TypeOK
    <3> QED BY <1>2, <3>1, <3>2
  <2> QED BY Zenon, <1>1, <2>1, <2>2, <2>3 DEF MonitorInv, TypeOK, mutexVars
<1>5. MutexInv'
  BY Zenon, <1>1 DEF MonitorInv, MutexInv, Has, mutexVars
<1>6. WaitInv'
  <2>1. \A u \in Thread : my_bcast[u] <= bcast_gen'
    BY <1>0, <1>2 DEF MonitorInv, WaitInv
  <2> QED BY Zenon, <1>1, <2>1 DEF MonitorInv, WaitInv
<1>7. NoLostSignal'
  <2>1. Waiters' = Waiters
    BY Zenon, <1>1 DEF Waiters
  <2>2. CASE waiters > 0
    <3>1. bcast_gen' = bcast_gen + 1 /\ tickets' = 0
      BY <1>0, <1>2, <2>2
    <3>2. \A u \in Thread : my_bcast[u] # bcast_gen'
      BY <1>0, <3>1 DEF MonitorInv, WaitInv
    <3>3. Current' = {}
      BY Zenon, <1>1, <2>1, <3>2 DEF Current, Waiters
    <3>4. Waiters' \ Current' = Waiters
      BY Zenon, <2>1, <3>3
    <3> QED BY <1>1, <1>3, <2>1, <3>1, <3>3, <3>4, WaitersFinite, FS_EmptySet DEF NoLostSignal
  <2>3. CASE waiters = 0
    <3>1. Waiters = {} /\ Current' = {} /\ due' = 0
      BY Zenon, <1>1, <1>3, <2>1, <2>3, WaitersFinite, FS_EmptySet DEF Current
    <3> QED BY <1>0, <1>1, <1>2, <1>3, <2>1, <2>3, <3>1, FS_EmptySet DEF NoLostSignal
  <2> QED BY <1>0, <2>2, <2>3
<1> QED BY Zenon, <1>4, <1>5, <1>6, <1>7 DEF MonitorInv

-------------------------------------------------------------------------------
(* MonitorInv is an invariant of the mutex and the condition variable. *)
THEOREM MonitorInvariant == Spec => []MonitorInv
<1>1. MonitorInv /\ UNCHANGED vars => MonitorInv'
  <2> SUFFICES ASSUME MonitorInv, UNCHANGED vars PROVE MonitorInv'
    BY Zenon
  <2>1. UNCHANGED <<mutexVars, condVars, pc, waiting, my_bcast, depth, due>>
    BY Zenon DEF vars
  <2>2. TypeOK' /\ WaitInv'
    BY Zenon, <2>1 DEF MonitorInv, TypeOK, WaitInv, mutexVars, condVars
  <2>3. MutexInv'
    BY Zenon, <2>1 DEF MonitorInv, MutexInv, Has, mutexVars
  <2>4. Waiters' = Waiters
    BY Zenon, <2>1 DEF Waiters
  <2> QED BY Zenon, <2>1, <2>2, <2>3, <2>4, SignalsKept DEF MonitorInv
<1>2. ASSUME MonitorInv, NEW t \in Thread, Exchange(t) \/ Trylock(t) PROVE MonitorInv'
  <2>1. CASE Relock(t) /\ pc[t] = "run"
    BY Zenon, <1>2, <2>1, RelockKeeps
  <2>2. CASE /\ pc[t] \in {"run", "lock"} /\ ~locked /\ locked' = TRUE
             /\ pc' = [pc EXCEPT ![t] = "own"]
             /\ UNCHANGED <<owner, count, condVars, waiting, my_bcast, depth, due>>
    BY Zenon, <1>2, <2>2, ExchangeKeeps
  <2> QED BY Zenon, <1>2, <2>1, <2>2 DEF Exchange, Trylock, Goto
<1>3. ASSUME MonitorInv, NEW t \in Thread, Unlock(t) \/ Release(t) PROVE MonitorInv'
  <2>1. pc[t] \in {"run", "release"} /\ depth[t] > 0
    BY <1>3 DEF Unlock, Release, MonitorInv, MutexInv
  <2> QED BY Zenon, <1>3, <2>1, UnlockKeeps DEF Unlock, Release
<1>4. MonitorInv /\ [Next]_vars => MonitorInv'
  BY Zenon, <1>1, <1>2, <1>3, LockKeeps, LockedKeeps, UnlockedKeeps, CondWaitKeeps, WakeKeeps,
     SignalKeeps, BroadcastKeeps DEF Next
<1> QED BY <1>4, MonitorInit, PTL DEF Spec

(* pthread_mutex_lock, trylock and unlock: whatever the type of the mutex, however many
   threads contend for it and whether or not pthread_cond_wait releases and takes it, two
   threads never hold it at once. *)
THEOREM MutexExcludes == Spec => []MutualExclusion
<1>1. MonitorInv => MutualExclusion
  <2> SUFFICES ASSUME MonitorInv, NEW t \in Thread, NEW u \in Thread, t # u, Has(t)
               PROVE  depth[u] = 0 /\ pc[u] \notin {"own", "unlock"}
    BY Zenon DEF MutualExclusion, Has
  <2>1. ~Has(u)
    BY Zenon DEF MonitorInv, MutexInv
  <2> QED BY <2>1, MonitorTypes DEF Has
<1> QED BY <1>1, MonitorInvariant, PTL

(* The owner and the count that pthread_mutex_lock, trylock and unlock read outside any lock
   are those of the thread that holds the mutex. *)
THEOREM OwnerTold == Spec => []OwnerExact
<1>1. MonitorInv => OwnerExact
  BY Zenon DEF MonitorInv, MutexInv, OwnerExact, Own, Has
<1> QED BY <1>1, MonitorInvariant, PTL

(* pthread_cond_signal and pthread_cond_broadcast: for any number of waiters and any order of
   waits, signals and broadcasts, no wakeup is lost and the count of waiters is exact. *)
THEOREM WakeupsKept == Spec => []NoLostSignal
<1>1. MonitorInv => NoLostSignal
  BY Zenon DEF MonitorInv
<1> QED BY <1>1, MonitorInvariant, PTL
=============================================================================
