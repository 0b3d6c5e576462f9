---------------------------- MODULE PthreadMonitor ----------------------------
(***************************************************************************)
(* A mutex and a condition variable (library/libc/pthread.c).  The mutex   *)
(* is a word that is exchanged, and an owner and a count beside it; the    *)
(* condition variable counts waiters, tickets and broadcasts, under the    *)
(* global lock of the library, so that each of its sections is one step.   *)
(* Nothing sleeps: who waits tries again after sched_yield.                *)
(*                                                                         *)
(* As POSIX asks, a thread unlocks a mutex, or waits with it, when it      *)
(* holds it (once, to wait), does not lock a normal mutex it holds, and    *)
(* uses one mutex with a condition variable.                               *)
(***************************************************************************)
EXTENDS Integers, FiniteSets

CONSTANTS
  Thread,
  Type,        \* "normal", "recursive" or "errorcheck"
  MaxDepth,    \* bound: how often a thread holds a recursive mutex
  MaxGen       \* bound: broadcasts

ASSUME MonitorAssumption ==
  /\ Type \in {"normal", "recursive", "errorcheck"}
  /\ MaxDepth \in Nat \ {0} /\ MaxGen \in Nat
  /\ "nobody" \notin Thread /\ IsFiniteSet(Thread)

Nobody == "nobody"     \* owner 0

VARIABLES
  locked, owner, count,           \* the mutex
  tickets, waiters, bcast_gen,    \* the condition variable
  pc, waiting, my_bcast,          \* where each thread is; its pthread_cond_wait
  depth,                          \* how often each thread holds the mutex, as it sees it
  due                             \* history: wakeups that waiters have coming

mutexVars == <<locked, owner, count>>
condVars == <<tickets, waiters, bcast_gen>>
vars == <<mutexVars, condVars, pc, waiting, my_bcast, depth, due>>

Goto(t, p) == pc' = [pc EXCEPT ![t] = p]

-------------------------------------------------------------------------------
(* The mutex. *)

(* A fault: any holder is taken for the caller. *)
OwnAnyone(t) == locked

(* The test of pthread_mutex_lock and pthread_mutex_trylock, outside any lock. *)
Own(t) == locked /\ owner = t

(* pthread_mutex_lock and pthread_mutex_trylock by a thread that holds a recursive mutex. *)
Relock(t) ==
  /\ Type = "recursive" /\ Own(t) /\ depth[t] < MaxDepth
  /\ count' = count + 1
  /\ depth' = [depth EXCEPT ![t] = @ + 1]
  /\ UNCHANGED <<locked, owner, condVars, pc, waiting, my_bcast, due>>

(* The call of pthread_mutex_lock up to the exchange.  A thread that holds an error
   checking mutex gets EDEADLK. *)
Lock(t) ==
  /\ pc[t] = "run"
  /\ \/ Relock(t)
     \/ /\ depth[t] = 0 /\ ~Own(t)
        /\ Goto(t, "lock")
        /\ UNCHANGED <<mutexVars, condVars, waiting, my_bcast, depth, due>>

(* The exchange succeeds. *)
Exchange(t) ==
  /\ pc[t] = "lock" /\ ~locked
  /\ locked' = TRUE
  /\ Goto(t, "own")
  /\ UNCHANGED <<owner, count, condVars, waiting, my_bcast, depth, due>>

(* pthread_mutex_trylock *)
Trylock(t) ==
  /\ pc[t] = "run"
  /\ \/ Relock(t)
     \/ /\ ~locked
        /\ locked' = TRUE
        /\ Goto(t, "own")
        /\ UNCHANGED <<owner, count, condVars, waiting, my_bcast, depth, due>>

(* The mutex gets its owner, and the call returns, that of pthread_cond_wait with it. *)
Locked(t) ==
  /\ pc[t] = "own"
  /\ owner' = t /\ count' = 1
  /\ Goto(t, "run")
  /\ depth' = [depth EXCEPT ![t] = 1]
  /\ waiting' = [waiting EXCEPT ![t] = FALSE]
  /\ UNCHANGED <<locked, condVars, my_bcast, due>>

(* A fault: the owner stays when the mutex is released. *)
UnlockStepOwned(t) ==
  \/ /\ Type = "recursive" /\ count > 1
     /\ count' = count - 1
     /\ Goto(t, "run")
     /\ UNCHANGED owner
  \/ /\ ~(Type = "recursive" /\ count > 1)
     /\ count' = 0
     /\ Goto(t, "unlock")
     /\ UNCHANGED owner

(* pthread_mutex_unlock up to the exchange, called by the program or by
   pthread_cond_wait. *)
UnlockStep(t) ==
  \/ /\ Type = "recursive" /\ count > 1
     /\ count' = count - 1
     /\ Goto(t, "run")
     /\ UNCHANGED owner
  \/ /\ ~(Type = "recursive" /\ count > 1)
     /\ owner' = Nobody /\ count' = 0
     /\ Goto(t, "unlock")

Unlock(t) ==
  /\ pc[t] = "run" /\ depth[t] > 0 /\ locked
  /\ UnlockStep(t)
  /\ depth' = [depth EXCEPT ![t] = @ - 1]
  /\ UNCHANGED <<locked, condVars, waiting, my_bcast, due>>

(* The exchange of pthread_mutex_unlock. *)
Unlocked(t) ==
  /\ pc[t] = "unlock"
  /\ locked' = FALSE
  /\ Goto(t, IF waiting[t] THEN "poll" ELSE "run")
  /\ UNCHANGED <<owner, count, condVars, waiting, my_bcast, depth, due>>

-------------------------------------------------------------------------------
(* The condition variable. *)

(* The threads that pthread_cond_wait has counted and not yet let go. *)
Waiters == {t \in Thread : waiting[t] /\ pc[t] \in {"release", "unlock", "poll"}}

(* pthread_cond_wait registers the thread, *)
CondWait(t) ==
  /\ pc[t] = "run" /\ depth[t] = 1
  /\ my_bcast' = [my_bcast EXCEPT ![t] = bcast_gen]
  /\ waiters' = waiters + 1
  /\ waiting' = [waiting EXCEPT ![t] = TRUE]
  /\ Goto(t, "release")
  /\ UNCHANGED <<mutexVars, tickets, bcast_gen, depth, due>>

(* releases the mutex, *)
Release(t) ==
  /\ pc[t] = "release" /\ locked
  /\ UnlockStep(t)
  /\ depth' = [depth EXCEPT ![t] = @ - 1]
  /\ UNCHANGED <<locked, condVars, waiting, my_bcast, due>>

(* A fault: a waiter of a broadcast takes a ticket too. *)
WakeTwice(t) ==
  /\ pc[t] = "poll"
  /\ \/ tickets > 0 /\ tickets' = tickets - 1
     \/ tickets = 0 /\ bcast_gen # my_bcast[t] /\ UNCHANGED tickets
  /\ waiters' = IF waiters > 0 THEN waiters - 1 ELSE waiters
  /\ due' = IF due > 0 THEN due - 1 ELSE due
  /\ my_bcast' = [my_bcast EXCEPT ![t] = 0]
  /\ Goto(t, "lock")
  /\ UNCHANGED <<mutexVars, bcast_gen, waiting, depth>>

(* finds that it may go, and takes the mutex again. *)
Wake(t) ==
  /\ pc[t] = "poll"
  /\ \/ bcast_gen # my_bcast[t] /\ UNCHANGED tickets
     \/ bcast_gen = my_bcast[t] /\ tickets > 0 /\ tickets' = tickets - 1
  /\ waiters' = IF waiters > 0 THEN waiters - 1 ELSE waiters
  /\ due' = IF due > 0 THEN due - 1 ELSE due
  /\ my_bcast' = [my_bcast EXCEPT ![t] = 0]
  /\ Goto(t, "lock")
  /\ UNCHANGED <<mutexVars, bcast_gen, waiting, depth>>

(* pthread_cond_signal *)
Signal(t) ==
  /\ pc[t] = "run"
  /\ tickets' = IF waiters > tickets THEN tickets + 1 ELSE tickets
  /\ due' = IF due < Cardinality(Waiters) THEN due + 1 ELSE due
  /\ UNCHANGED <<mutexVars, waiters, bcast_gen, pc, waiting, my_bcast, depth>>

(* pthread_cond_broadcast *)
Broadcast(t) ==
  /\ pc[t] = "run"
  /\ IF waiters > 0 THEN /\ bcast_gen < MaxGen
                         /\ bcast_gen' = bcast_gen + 1
                         /\ tickets' = 0
                    ELSE UNCHANGED <<bcast_gen, tickets>>
  /\ due' = Cardinality(Waiters)
  /\ UNCHANGED <<mutexVars, waiters, pc, waiting, my_bcast, depth>>

-------------------------------------------------------------------------------
Init ==
  /\ locked = FALSE /\ owner = Nobody /\ count = 0
  /\ tickets = 0 /\ waiters = 0 /\ bcast_gen = 0
  /\ pc = [t \in Thread |-> "run"]
  /\ waiting = [t \in Thread |-> FALSE]
  /\ my_bcast = [t \in Thread |-> 0]
  /\ depth = [t \in Thread |-> 0]
  /\ due = 0

Next ==
  \E t \in Thread :
    \/ Lock(t) \/ Exchange(t) \/ Trylock(t) \/ Locked(t) \/ Unlock(t) \/ Unlocked(t)
    \/ CondWait(t) \/ Release(t) \/ Wake(t) \/ Signal(t) \/ Broadcast(t)

Spec == Init /\ [][Next]_vars

-------------------------------------------------------------------------------
(* The variables have their types, and signals do not pile up tickets. *)
TypeOK ==
  /\ locked \in BOOLEAN
  /\ owner \in Thread \cup {Nobody}
  /\ count \in 0 .. MaxDepth
  /\ tickets \in 0 .. Cardinality(Thread) /\ waiters \in Nat /\ bcast_gen \in 0 .. MaxGen
  /\ pc \in [Thread -> {"run", "lock", "own", "unlock", "release", "poll"}]
  /\ waiting \in [Thread -> BOOLEAN]
  /\ my_bcast \in [Thread -> 0 .. MaxGen]
  /\ depth \in [Thread -> 0 .. MaxDepth]
  /\ due \in Nat

(* Between the return of a lock and the call of the last unlock, or of pthread_cond_wait,
   a thread is alone: no other holds the mutex, or has exchanged its word. *)
MutualExclusion ==
  \A t, u \in Thread :
    (t # u /\ (depth[t] > 0 \/ pc[t] \in {"own", "unlock"}))
      => (depth[u] = 0 /\ pc[u] \notin {"own", "unlock"})

(* owner and count, which lock and trylock read and write outside any lock, tell the truth
   when they matter: the mutex is owned by the thread that holds it, as often as it does. *)
OwnerExact ==
  \A t \in Thread :
    /\ Own(t) <=> depth[t] > 0
    /\ depth[t] > 0 => count = depth[t]

Current == {t \in Waiters : my_bcast[t] = bcast_gen}

(* No wakeup is lost: for every signal there is a ticket or a broadcast that lets a waiter
   go, unless every waiter has one already; and every waiter of a broadcast has.  Nor is a
   signal or a broadcast skipped, or pthread_cond_destroy let through, while a thread
   waits: waiters counts the threads in pthread_cond_wait. *)
NoLostSignal ==
  /\ waiters = Cardinality(Waiters)
  /\ due <= Cardinality(Waiters \ Current)
            + (IF tickets < Cardinality(Current) THEN tickets ELSE Cardinality(Current))
=============================================================================
