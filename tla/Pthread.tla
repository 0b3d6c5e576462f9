------------------------------- MODULE Pthread -------------------------------
(***************************************************************************)
(* The life of the threads of one program of SIX: pthread_create,          *)
(* pthread_exit, pthread_join and pthread_detach (library/libc/pthread.c)  *)
(* over the clone, exit and wait of the kernel (kernel/fork.c, exit.c).    *)
(*                                                                         *)
(* Threads are preempted anywhere in user mode.  What the library does     *)
(* between lock_global and unlock_global is one step, but for              *)
(* pthread_create, whose child runs before the lock is released.  The tid  *)
(* of a thread is its name: the kernel does not reuse a pid before it has  *)
(* handed out all the others.  As POSIX asks, a program does not join or   *)
(* detach a thread that is being joined.                                   *)
(***************************************************************************)
EXTENDS Naturals

CONSTANTS
  Thread,       \* the threads the program may ever have (bound)
  Main,         \* the first one, which has no entry in tcb_table
  Stack,        \* the blocks that malloc gives for stacks
  MaxThreads,   \* PTHREAD_MAX_THREADS
  Value,        \* what threads return
  Use           \* what happens besides creation, exit and join

ASSUME PthreadAssumption ==
  /\ Main \in Thread
  /\ MaxThreads \in Nat
  /\ "NULL" \notin Thread \cup Stack
  /\ "outside" \notin Thread
  /\ Use \subseteq {"detach", "main exits", "signal", "kill"}

Slot == 1 .. MaxThreads
NULL == "NULL"
NoSlot == 0
Outside == "outside"    \* init, or the shell that started the program

VARIABLES
  tcb_table,     \* by slot; used is state # "unused", the two change together
  global_lock,   \* the thread between lock_global and unlock_global
  pc,            \* where each thread is
  at, peer, reaped, retval,   \* locals: its slot, the other thread, join's flag, its result
  task, parent,  \* the kernel's tasks: their states and their p_pptr
  on             \* the stack each task runs on

lockVars == <<tcb_table, global_lock>>
localVars == <<at, peer, reaped, retval>>
kernelVars == <<task, parent, on>>
vars == <<lockVars, pc, localVars, kernelVars>>

Tcb == [state : {"unused", "running", "exited"}, detached : BOOLEAN,
        tid : Thread \cup {NULL}, retval : Value \cup {NULL}, stack_base : Stack \cup {NULL}]

Used(s) == tcb_table[s].state # "unused"

(* find_tcb_by_tid *)
Found(t) == {s \in Slot : Used(s) /\ tcb_table[s].tid = t}
First(S) == CHOOSE s \in S : \A r \in S : s <= r

Joining(t) == pc[t] \in {"check", "wait", "last wait", "free"}

(* The call of t returns to the program, its locals gone. *)
Return(t) ==
  /\ pc' = [pc EXCEPT ![t] = "run"]
  /\ at' = [at EXCEPT ![t] = NoSlot]
  /\ peer' = [peer EXCEPT ![t] = NULL]
  /\ reaped' = [reaped EXCEPT ![t] = FALSE]

(* The program may name u in a call: u has been created, and no one is joining it or was
   killed while doing so. *)
Callable(u) == task[u] # "none" /\ \A t \in Thread : peer[t] # u

-------------------------------------------------------------------------------
(* The kernel. *)

(* A fault: a thread waits for its own children only. *)
OwnChildren(t) == t

(* wait_root of sys_wait4: threads share the children of the parent they have in common. *)
WaitRoot(t) == IF parent[t] \in Thread THEN parent[t] ELSE t

(* The children that sys_wait4 finds for t. *)
Child(t) == {u \in Thread : task[u] \in {"live", "zombie"} /\ parent[u] = WaitRoot(t)}

(* do_fork by t, when the tasks are as in tasks: u is a child of the parent that the
   threads have in common. *)
Clone(t, u, st, tasks) ==
  /\ tasks[u] = "none"
  /\ task' = [tasks EXCEPT ![u] = "live"]
  /\ parent' = [parent EXCEPT ![u] = WaitRoot(t)]
  /\ on' = [on EXCEPT ![u] = st]

(* do_exit of t: the children go to init. *)
Dies(t) ==
  /\ task' = [task EXCEPT ![t] = "zombie"]
  /\ parent' = [u \in Thread |-> IF parent[u] = t THEN Outside ELSE parent[u]]
  /\ pc' = [pc EXCEPT ![t] = "dead"]
  /\ UNCHANGED <<lockVars, localVars, on>>

(* init, or the shell, waits for its children. *)
OutsideReaps(u) ==
  /\ task[u] = "zombie" /\ parent[u] = Outside
  /\ task' = [task EXCEPT ![u] = "gone"]
  /\ UNCHANGED <<lockVars, pc, localVars, parent, on>>

-------------------------------------------------------------------------------
(* pthread_create and pthread_detach. *)

Cleared(e) == [e EXCEPT !.state = "unused", !.tid = NULL, !.stack_base = NULL]

(* A fault: threads that still run are reaped. *)
ReapableRunning(tbl) == {s \in Slot : tbl[s].state # "unused" /\ tbl[s].detached}

(* reap_detached_zombies_locked, over the table tbl: whom it reaps, *)
Reapable(tbl) == {s \in Slot : tbl[s].state = "exited" /\ tbl[s].detached}

(* what it leaves of the table, *)
Reaped(tbl) == [s \in Slot |-> IF s \in Reapable(tbl) THEN Cleared(tbl[s]) ELSE tbl[s]]

(* and what waitpid(tid, WNOHANG) makes of the tasks. *)
WaitedFor(t, tbl) ==
  [u \in Thread |->
     IF u \in Child(t) /\ task[u] = "zombie" /\ \E s \in Reapable(tbl) : tbl[s].tid = u
     THEN "gone" ELSE task[u]]

(* The entries pthread_create may take from the table tbl. *)
FreeSlots(tbl) == {s \in Slot : tbl[s].state = "unused"}

(* pthread_create fails: no slot, no memory or no task. *)
CreateFails(t) ==
  /\ pc[t] = "run" /\ global_lock = NULL
  /\ tcb_table' = Reaped(tcb_table)
  /\ task' = WaitedFor(t, tcb_table)
  /\ UNCHANGED <<global_lock, pc, localVars, parent, on>>

(* pthread_create up to clone. *)
Create(t, u, st, detached) ==
  LET tbl == Reaped(tcb_table)
      s == First(FreeSlots(tbl))
      entry == [state |-> "running", detached |-> detached, tid |-> NULL,
                retval |-> NULL, stack_base |-> st]
  IN  /\ pc[t] = "run" /\ global_lock = NULL
      /\ FreeSlots(tbl) # {}
      /\ \A r \in Slot : tbl[r].stack_base # st
      /\ tcb_table' = [tbl EXCEPT ![s] = entry]
      /\ global_lock' = t
      /\ pc' = [pc EXCEPT ![t] = "cloned", ![u] = "entry"]
      /\ at' = [at EXCEPT ![t] = s, ![u] = s]
      /\ peer' = [peer EXCEPT ![t] = u]
      /\ Clone(t, u, st, WaitedFor(t, tcb_table))
      /\ UNCHANGED <<reaped, retval>>

(* The rest of pthread_create. *)
Created(t) ==
  /\ pc[t] = "cloned"
  /\ tcb_table' = [tcb_table EXCEPT ![at[t]].tid = peer[t]]
  /\ global_lock' = NULL
  /\ Return(t)
  /\ UNCHANGED <<retval, kernelVars>>

(* pthread_entry_trampoline, up to start_routine. *)
Entry(t) ==
  /\ pc[t] = "entry"
  /\ tcb_table' = [tcb_table EXCEPT ![at[t]].tid = IF @ = NULL THEN t ELSE @]
  /\ Return(t)
  /\ UNCHANGED <<global_lock, retval, kernelVars>>

(* pthread_detach; without an entry it returns ESRCH. *)
Detach(t, u) ==
  /\ "detach" \in Use
  /\ pc[t] = "run" /\ global_lock = NULL
  /\ Callable(u) /\ Found(u) # {}
  /\ LET tbl == [tcb_table EXCEPT ![First(Found(u))].detached = TRUE]
     IN  tcb_table' = Reaped(tbl) /\ task' = WaitedFor(t, tbl)
  /\ UNCHANGED <<global_lock, pc, localVars, parent, on>>

-------------------------------------------------------------------------------
(* pthread_exit. *)

(* pthread_exit up to run_tls_destructors. *)
Exit(t, v) ==
  /\ pc[t] = "run" /\ global_lock = NULL
  /\ t = Main => "main exits" \in Use
  /\ IF Found(t) = {}
     THEN /\ pc' = [pc EXCEPT ![t] = "dying"]
          /\ UNCHANGED <<at, retval>>
     ELSE /\ pc' = [pc EXCEPT ![t] = "exit"]
          /\ at' = [at EXCEPT ![t] = First(Found(t))]
          /\ retval' = [retval EXCEPT ![t] = v]
  /\ UNCHANGED <<lockVars, peer, reaped, kernelVars>>

(* A fault: the result is not stored. *)
ExitedSilently(t) ==
  /\ pc[t] = "exit" /\ global_lock = NULL
  /\ tcb_table' = [tcb_table EXCEPT ![at[t]].state = "exited"]
  /\ pc' = [pc EXCEPT ![t] = "dying"]
  /\ UNCHANGED <<global_lock, localVars, kernelVars>>

(* The thread publishes its result. *)
Exited(t) ==
  /\ pc[t] = "exit" /\ global_lock = NULL
  /\ tcb_table' = [tcb_table EXCEPT ![at[t]].retval = retval[t], ![at[t]].state = "exited"]
  /\ pc' = [pc EXCEPT ![t] = "dying"]
  /\ UNCHANGED <<global_lock, localVars, kernelVars>>

(* _exit *)
Die(t) == pc[t] = "dying" /\ Dies(t)

(* A fatal signal, outside the library's critical sections. *)
Kill(t) ==
  /\ "kill" \in Use
  /\ task[t] = "live" /\ global_lock # t
  /\ t = Main => "main exits" \in Use
  /\ Dies(t)

-------------------------------------------------------------------------------
(* pthread_join. *)

(* The lookup of pthread_join, which fails without an entry or if u is detached. *)
Join(t, u) ==
  /\ pc[t] = "run" /\ global_lock = NULL
  /\ t # u /\ Callable(u) /\ Found(u) # {}
  /\ ~tcb_table[First(Found(u))].detached
  /\ pc' = [pc EXCEPT ![t] = "check"]
  /\ at' = [at EXCEPT ![t] = First(Found(u))]
  /\ peer' = [peer EXCEPT ![t] = u]
  /\ reaped' = [reaped EXCEPT ![t] = FALSE]
  /\ UNCHANGED <<lockVars, retval, kernelVars>>

(* The condition of the loop of pthread_join, read without the lock, and the test of
   reaped behind the loop. *)
JoinCheck(t) ==
  /\ pc[t] = "check"
  /\ pc' = [pc EXCEPT ![t] = IF tcb_table[at[t]].state = "running" THEN "wait"
                             ELSE IF reaped[t] THEN "free" ELSE "last wait"]
  /\ UNCHANGED <<lockVars, localVars, kernelVars>>

(* waitpid(peer[t]) reaps the thread. *)
WaitReaps(t) ==
  /\ peer[t] \in Child(t) /\ task[peer[t]] = "zombie"
  /\ task' = [task EXCEPT ![peer[t]] = "gone"]

(* waitpid(peer[t]) fails with ECHILD, or a signal interrupts it. *)
NoChild(t) == peer[t] \notin Child(t) /\ UNCHANGED task
Interrupted(t) == "signal" \in Use /\ peer[t] \in Child(t) /\ UNCHANGED task

(* waitpid in the loop of pthread_join. *)
JoinWait(t) ==
  /\ pc[t] = "wait"
  /\ \/ /\ WaitReaps(t)
        /\ reaped' = [reaped EXCEPT ![t] = TRUE]
        /\ pc' = [pc EXCEPT ![t] = "free"]
     \/ /\ NoChild(t)
        /\ reaped' = [reaped EXCEPT ![t] = TRUE]
        /\ pc' = [pc EXCEPT ![t] = "check"]
     \/ /\ Interrupted(t)
        /\ pc' = [pc EXCEPT ![t] = "check"]
        /\ UNCHANGED reaped
  /\ UNCHANGED <<lockVars, at, peer, retval, parent, on>>

(* A fault: pthread_join does not wait for the task of a thread that has its result. *)
JoinHasty(t) ==
  /\ pc[t] = "last wait"
  /\ pc' = [pc EXCEPT ![t] = "free"]
  /\ UNCHANGED <<lockVars, localVars, kernelVars>>

(* The last waitpid of pthread_join, whatever it returns. *)
JoinLastWait(t) ==
  /\ pc[t] = "last wait"
  /\ WaitReaps(t) \/ NoChild(t) \/ Interrupted(t)
  /\ pc' = [pc EXCEPT ![t] = "free"]
  /\ UNCHANGED <<lockVars, localVars, parent, on>>

(* pthread_join reads the result and frees the stack and the entry. *)
JoinFree(t) ==
  /\ pc[t] = "free" /\ global_lock = NULL
  /\ tcb_table' = [tcb_table EXCEPT ![at[t]] = Cleared(@)]
  /\ Return(t)
  /\ UNCHANGED <<global_lock, retval, kernelVars>>

-------------------------------------------------------------------------------
Init ==
  /\ tcb_table = [s \in Slot |-> [state |-> "unused", detached |-> FALSE, tid |-> NULL,
                                  retval |-> NULL, stack_base |-> NULL]]
  /\ global_lock = NULL
  /\ pc = [t \in Thread |-> IF t = Main THEN "run" ELSE "none"]
  /\ at = [t \in Thread |-> NoSlot]
  /\ peer = [t \in Thread |-> NULL]
  /\ reaped = [t \in Thread |-> FALSE]
  /\ retval = [t \in Thread |-> NULL]
  /\ task = [t \in Thread |-> IF t = Main THEN "live" ELSE "none"]
  /\ parent = [t \in Thread |-> Outside]
  /\ on = [t \in Thread |-> NULL]

(* What a thread does when it is in a call of the library. *)
Advance(t) ==
  \/ Created(t) \/ Entry(t) \/ Exited(t) \/ Die(t)
  \/ JoinCheck(t) \/ JoinWait(t) \/ JoinLastWait(t) \/ JoinFree(t)

Call(t) ==
  \/ \E u \in Thread, st \in Stack, d \in BOOLEAN : (d => "detach" \in Use) /\ Create(t, u, st, d)
  \/ CreateFails(t)
  \/ \E u \in Thread : Detach(t, u) \/ Join(t, u)
  \/ \E v \in Value : Exit(t, v)

Next == \E t \in Thread : Advance(t) \/ Call(t) \/ Kill(t) \/ OutsideReaps(t)

Spec == Init /\ [][Next]_vars

-------------------------------------------------------------------------------
(* The variables have the types of the code's. *)
TypeOK ==
  /\ tcb_table \in [Slot -> Tcb]
  /\ global_lock \in Thread \cup {NULL}
  /\ pc \in [Thread -> {"none", "entry", "run", "cloned", "exit", "dying", "dead",
                        "check", "wait", "last wait", "free"}]
  /\ at \in [Thread -> Slot \cup {NoSlot}]
  /\ peer \in [Thread -> Thread \cup {NULL}]
  /\ reaped \in [Thread -> BOOLEAN]
  /\ retval \in [Thread -> Value \cup {NULL}]
  /\ task \in [Thread -> {"none", "live", "zombie", "gone"}]
  /\ parent \in [Thread -> Thread \cup {Outside}]
  /\ on \in [Thread -> Stack \cup {NULL}]

(* The threads other than Main that have not yet published their result. *)
Active == {t \in Thread \ {Main} : pc[t] \notin {"none", "dying", "dead"}}

(* A thread keeps its entry of tcb_table, and the stack in it, until it has published its
   result: neither a join nor a reaper of detached threads takes them from under it, and
   find_tcb_by_tid finds no other entry for it. *)
TcbOwned ==
  \A t \in Active :
    \E s \in Slot :
      /\ tcb_table[s].state = "running"
      /\ tcb_table[s].stack_base = on[t]
      /\ Found(t) = {s} \/ (global_lock # NULL /\ peer[global_lock] = t /\ Found(t) = {})

(* When pthread_join comes to free the entry, which it kept without the lock, the entry is
   still that of the thread it joins, and holds the result of the thread, or NULL for one
   that was killed before it had one. *)
JoinSettled ==
  \A t \in Thread : pc[t] = "free" =>
    LET e == tcb_table[at[t]]
        u == peer[t]
    IN  /\ e.tid = u /\ e.stack_base = on[u]
        /\ pc[u] \in {"dying", "dead"}
        /\ e.retval = IF e.state = "exited" THEN retval[u] ELSE NULL

(* A stack is not freed, and not given to another thread, while a task still runs on it:
   "Ensure the kernel task has fully exited its stack before freeing". *)
StackLive ==
  \A t \in Thread \ {Main} : task[t] = "live" =>
    /\ \E s \in Slot : tcb_table[s].stack_base = on[t]
    /\ \A u \in Thread \ {t} : task[u] = "live" => on[u] # on[t]

(* pthread_join returns once the thread it waits for is on its way out, killed or not. *)
JoinReturns ==
  \A t \in Thread :
    (Joining(t) /\ pc[peer[t]] \in {"exit", "dying", "dead"}) ~> ~Joining(t)
=============================================================================
