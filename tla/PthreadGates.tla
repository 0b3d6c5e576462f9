----------------------------- MODULE PthreadGates -----------------------------
(***************************************************************************)
(* A read-write lock, a barrier and a once control (library/libc/          *)
(* pthread.c).  Their sections under the global lock are one step each;    *)
(* who has to wait tries again after sched_yield, and reads the phase of   *)
(* the barrier, or the once control, without the lock.  As POSIX asks, a   *)
(* thread unlocks a read-write lock that it holds and does not write-lock  *)
(* one that it holds, and the routine of a once control does not wait for  *)
(* the other threads.                                                      *)
(***************************************************************************)
EXTENDS Integers, FiniteSets

CONSTANTS
  Thread,
  Total,       \* the count of pthread_barrier_init
  MaxPhase,    \* bound: phases of the barrier
  MaxReads     \* bound: how often a thread holds the lock for reading

ASSUME GatesAssumption ==
  /\ Total \in Nat \ {0} /\ MaxPhase \in Nat \ {0} /\ MaxReads \in Nat
  /\ IsFiniteSet(Thread)

Phase == 0 .. MaxPhase - 1

VARIABLES
  state,             \* of the read-write lock
  count, phase,      \* of the barrier
  once_control,
  pc, my_phase,      \* where each thread is, and its phase of the barrier
  holds,             \* how often each thread holds the read-write lock, -1 to write
  arrived, gone,     \* history: who came to each phase of the barrier, and who went on
  serial,            \* history: who got PTHREAD_BARRIER_SERIAL_THREAD in each phase
  ran                \* history: how often the routine of once_control was started

rwVars == <<state, holds>>
barrierVars == <<count, phase, my_phase, arrived, gone, serial>>
onceVars == <<once_control, ran>>
vars == <<rwVars, barrierVars, onceVars, pc>>

-------------------------------------------------------------------------------
(* pthread_rwlock_rdlock and tryrdlock, when they get the lock. *)
Rdlock(t) ==
  /\ pc[t] = "run" /\ holds[t] \in 0 .. MaxReads - 1
  /\ state >= 0
  /\ state' = state + 1
  /\ holds' = [holds EXCEPT ![t] = @ + 1]
  /\ UNCHANGED <<barrierVars, onceVars, pc>>

(* A fault: a writer does not wait for readers. *)
WrlockAmongReaders(t) ==
  /\ pc[t] = "run" /\ holds[t] = 0
  /\ state >= 0
  /\ state' = -1
  /\ holds' = [holds EXCEPT ![t] = -1]
  /\ UNCHANGED <<barrierVars, onceVars, pc>>

(* pthread_rwlock_wrlock and trywrlock, when they get the lock. *)
Wrlock(t) ==
  /\ pc[t] = "run" /\ holds[t] = 0
  /\ state = 0
  /\ state' = -1
  /\ holds' = [holds EXCEPT ![t] = -1]
  /\ UNCHANGED <<barrierVars, onceVars, pc>>

(* pthread_rwlock_unlock *)
RwUnlock(t) ==
  /\ pc[t] = "run" /\ holds[t] # 0
  /\ state' = IF state < 0 THEN 0 ELSE IF state > 0 THEN state - 1 ELSE state
  /\ holds' = [holds EXCEPT ![t] = IF @ = -1 THEN 0 ELSE @ - 1]
  /\ UNCHANGED <<barrierVars, onceVars, pc>>

-------------------------------------------------------------------------------
(* A fault: the count is not reset when the barrier opens. *)
BarrierWaitCounting(t) ==
  /\ pc[t] = "run" /\ phase \in Phase
  /\ arrived' = [arrived EXCEPT ![phase] = @ \cup {t}]
  /\ IF count + 1 >= Total
     THEN /\ phase' = phase + 1
          /\ serial' = [serial EXCEPT ![phase] = @ \cup {t}]
          /\ gone' = [gone EXCEPT ![phase] = @ \cup {t}]
          /\ UNCHANGED <<count, my_phase, pc>>
     ELSE /\ count' = count + 1
          /\ my_phase' = [my_phase EXCEPT ![t] = phase]
          /\ pc' = [pc EXCEPT ![t] = "barrier"]
          /\ UNCHANGED <<phase, serial, gone>>
  /\ UNCHANGED <<rwVars, onceVars>>

(* The section of pthread_barrier_wait: the last to come opens the barrier. *)
BarrierWait(t) ==
  /\ pc[t] = "run" /\ phase \in Phase
  /\ arrived' = [arrived EXCEPT ![phase] = @ \cup {t}]
  /\ IF count + 1 >= Total
     THEN /\ count' = 0
          /\ phase' = phase + 1
          /\ serial' = [serial EXCEPT ![phase] = @ \cup {t}]
          /\ gone' = [gone EXCEPT ![phase] = @ \cup {t}]
          /\ UNCHANGED <<my_phase, pc>>
     ELSE /\ count' = count + 1
          /\ my_phase' = [my_phase EXCEPT ![t] = phase]
          /\ pc' = [pc EXCEPT ![t] = "barrier"]
          /\ UNCHANGED <<phase, serial, gone>>
  /\ UNCHANGED <<rwVars, onceVars>>

(* A fault: only the phase that follows lets the thread go. *)
BarrierLeaveNext(t) ==
  /\ pc[t] = "barrier" /\ phase = my_phase[t] + 1
  /\ gone' = [gone EXCEPT ![my_phase[t]] = @ \cup {t}]
  /\ my_phase' = [my_phase EXCEPT ![t] = 0]
  /\ pc' = [pc EXCEPT ![t] = "run"]
  /\ UNCHANGED <<rwVars, onceVars, count, phase, arrived, serial>>

(* The loop of pthread_barrier_wait ends. *)
BarrierLeave(t) ==
  /\ pc[t] = "barrier" /\ phase # my_phase[t]
  /\ gone' = [gone EXCEPT ![my_phase[t]] = @ \cup {t}]
  /\ my_phase' = [my_phase EXCEPT ![t] = 0]
  /\ pc' = [pc EXCEPT ![t] = "run"]
  /\ UNCHANGED <<rwVars, onceVars, count, phase, arrived, serial>>

-------------------------------------------------------------------------------
(* pthread_once: the first test, without the lock. *)
Once(t) ==
  /\ pc[t] = "run"
  /\ pc' = [pc EXCEPT ![t] = IF once_control = 2 THEN "passed" ELSE "once"]
  /\ UNCHANGED <<rwVars, barrierVars, onceVars>>

(* A fault: the routine counts as done when it starts. *)
OnceEnterEarly(t) ==
  /\ pc[t] = "once"
  /\ IF once_control = 0
     THEN /\ once_control' = 2
          /\ ran' = ran + 1
          /\ pc' = [pc EXCEPT ![t] = "routine"]
     ELSE /\ pc' = [pc EXCEPT ![t] = "once wait"]
          /\ UNCHANGED onceVars
  /\ UNCHANGED <<rwVars, barrierVars>>

(* The first section of pthread_once. *)
OnceEnter(t) ==
  /\ pc[t] = "once"
  /\ IF once_control = 0
     THEN /\ once_control' = 1
          /\ ran' = ran + 1
          /\ pc' = [pc EXCEPT ![t] = "routine"]
     ELSE /\ pc' = [pc EXCEPT ![t] = "once wait"]
          /\ UNCHANGED onceVars
  /\ UNCHANGED <<rwVars, barrierVars>>

(* init_routine has returned. *)
OnceDone(t) ==
  /\ pc[t] = "routine"
  /\ once_control' = 2
  /\ pc' = [pc EXCEPT ![t] = "passed"]
  /\ UNCHANGED <<rwVars, barrierVars, ran>>

(* The loop of pthread_once ends. *)
OnceLeave(t) ==
  /\ pc[t] = "once wait" /\ once_control = 2
  /\ pc' = [pc EXCEPT ![t] = "passed"]
  /\ UNCHANGED <<rwVars, barrierVars, onceVars>>

(* The program goes on after pthread_once. *)
Resume(t) ==
  /\ pc[t] = "passed"
  /\ pc' = [pc EXCEPT ![t] = "run"]
  /\ UNCHANGED <<rwVars, barrierVars, onceVars>>

-------------------------------------------------------------------------------
Init ==
  /\ state = 0 /\ holds = [t \in Thread |-> 0]
  /\ count = 0 /\ phase = 0 /\ my_phase = [t \in Thread |-> 0]
  /\ arrived = [p \in Phase |-> {}] /\ gone = [p \in Phase |-> {}]
  /\ serial = [p \in Phase |-> {}]
  /\ once_control = 0 /\ ran = 0
  /\ pc = [t \in Thread |-> "run"]

(* What a thread does when it is in a call. *)
Advance(t) == BarrierLeave(t) \/ OnceEnter(t) \/ OnceDone(t) \/ OnceLeave(t) \/ Resume(t)

Next ==
  \E t \in Thread :
    \/ Rdlock(t) \/ Wrlock(t) \/ RwUnlock(t) \/ BarrierWait(t) \/ Once(t) \/ Advance(t)

Spec == Init /\ [][Next]_vars

(* A thread that waits looks again: sched_yield comes back. *)
FairSpec == Spec /\ \A t \in Thread : WF_vars(Advance(t))

-------------------------------------------------------------------------------
(* The variables have their types. *)
TypeOK ==
  /\ state \in Int /\ holds \in [Thread -> -1 .. MaxReads]
  /\ count \in 0 .. Total - 1 /\ phase \in 0 .. MaxPhase
  /\ my_phase \in [Thread -> Phase]
  /\ arrived \in [Phase -> SUBSET Thread] /\ gone \in [Phase -> SUBSET Thread]
  /\ serial \in [Phase -> SUBSET Thread]
  /\ once_control \in 0 .. 2 /\ ran \in Nat
  /\ pc \in [Thread -> {"run", "barrier", "once", "routine", "once wait", "passed"}]

(* A writer is alone, and the lock is free exactly when no thread holds it. *)
RwExclusion ==
  /\ \A t, u \in Thread : (holds[t] = -1 /\ t # u) => holds[u] = 0
  /\ state = 0 <=> \A t \in Thread : holds[t] = 0

(* No thread goes on from a phase of the barrier before Total threads have come to it; just
   Total do, also when more threads use the barrier, and one of them is the serial one. *)
BarrierTogether ==
  \A p \in Phase :
    /\ gone[p] # {} => Cardinality(arrived[p]) = Total /\ Cardinality(serial[p]) = 1
    /\ gone[p] \subseteq arrived[p]
    /\ Cardinality(arrived[p]) <= Total

(* The routine runs once, and who returns from pthread_once finds that it has returned. *)
OnceFirst ==
  /\ ran <= 1
  /\ \A t \in Thread : pc[t] = "passed" => once_control = 2 /\ \A u \in Thread : pc[u] # "routine"

(* A thread that waits in a phase of the barrier goes on once Total threads have come,
   whatever phases follow; and a call of pthread_once returns. *)
GatesOpen ==
  \A t \in Thread :
    /\ \A p \in Phase : (t \in arrived[p] /\ Cardinality(arrived[p]) = Total) ~> t \in gone[p]
    /\ pc[t] = "once" ~> pc[t] = "run"
=============================================================================
