----------------------------- MODULE PthreadProofs -----------------------------
(***************************************************************************)
(* Proofs about the life of threads, their stacks and their keys: the      *)
(* inductive invariants, that the initial state has them and every step    *)
(* keeps them, and what they show.  A thread keeps its entry of tcb_table  *)
(* (TcbOwned) and a join ends with the entry and the result of its thread  *)
(* (JoinSettled), whatever else the program does.  A stack is freed when   *)
(* its task has left it (StackLive), in a program that has no detached     *)
(* threads, handles no signals and does not leave main early.  Keys and    *)
(* destructors only add to the life of threads; a thread finds under a key *)
(* what it stored there (TlsOwned), and leaves no value without its        *)
(* destructor (DtorsRun).                                                  *)
(***************************************************************************)
EXTENDS PthreadKeys, WellFoundedInduction, TLAPS

(* s is the entry of t: it has its tid, or pthread_create is about to store it. *)
EntryOf(s, t) ==
  \/ tcb_table[s].tid = t
  \/ /\ tcb_table[s].tid = NULL
     /\ global_lock # NULL /\ at[global_lock] = s /\ peer[global_lock] = t

(* The kernel's tasks and the places of the threads agree. *)
TaskInv ==
  \A t \in Thread :
    /\ task[t] = "none" <=> pc[t] = "none"
    /\ task[t] = "live" <=> pc[t] \notin {"none", "dead"}

LockInv ==
  /\ \A t \in Thread : pc[t] = "cloned" <=> global_lock = t
  /\ pc[Main] \notin {"none", "entry", "exit"}

(* Between clone and the end of pthread_create the entry is that of the new thread, which
   cannot get far: all it may do next needs the lock. *)
CloneOk(t) ==
  /\ at[t] \in Slot /\ peer[t] \in Thread \ {Main}
  /\ pc[peer[t]] \in {"entry", "run", "dead"}
  /\ tcb_table[at[t]].state = "running"
  /\ tcb_table[at[t]].stack_base = on[peer[t]]
  /\ tcb_table[at[t]].tid \in {NULL, peer[t]}
  /\ pc[peer[t]] = "run" => tcb_table[at[t]].tid = peer[t]
  /\ \A s \in Slot \ {at[t]} : tcb_table[s].tid # peer[t]
CloneInv == \A t \in Thread : pc[t] = "cloned" => CloneOk(t)

(* What an entry says of its thread. *)
SlotOk(s) ==
  /\ tcb_table[s].state = "unused" =>
       tcb_table[s].tid = NULL /\ tcb_table[s].stack_base = NULL
  /\ tcb_table[s].state # "unused" /\ tcb_table[s].tid = NULL =>
       global_lock # NULL /\ at[global_lock] = s
  /\ tcb_table[s].tid # NULL =>
       /\ tcb_table[s].tid # Main /\ pc[tcb_table[s].tid] # "none"
       /\ tcb_table[s].stack_base = on[tcb_table[s].tid]
  /\ tcb_table[s].state = "running" =>
       /\ tcb_table[s].retval = NULL
       /\ tcb_table[s].tid # NULL => pc[tcb_table[s].tid] # "dying"
  /\ tcb_table[s].state = "exited" =>
       /\ tcb_table[s].tid # NULL
       /\ pc[tcb_table[s].tid] \in {"dying", "dead"}
       /\ tcb_table[s].retval = retval[tcb_table[s].tid]
SlotInv == \A s \in Slot : SlotOk(s)

(* A thread has one entry. *)
TidInv ==
  \A s, r \in Slot : tcb_table[s].tid # NULL /\ tcb_table[s].tid = tcb_table[r].tid => s = r

(* A thread that has not published its result has an entry. *)
ActiveOk(t) ==
  /\ pc[t] # "entry" =>
       \E s \in Slot : tcb_table[s].tid = t /\ tcb_table[s].state = "running"
  /\ pc[t] = "entry" =>
       /\ at[t] \in Slot /\ EntryOf(at[t], t)
       /\ tcb_table[at[t]].state = "running" /\ tcb_table[at[t]].stack_base = on[t]
  /\ pc[t] = "exit" => at[t] \in Slot /\ tcb_table[at[t]].tid = t
ActiveInv == \A t \in Active : ActiveOk(t)

(* No two threads create or join the same one. *)
PeerInv ==
  /\ \A t \in Thread : peer[t] # NULL => pc[peer[t]] # "none"
  /\ \A t, u \in Thread : peer[t] # NULL /\ peer[t] = peer[u] => t = u

(* The entry that pthread_join keeps without the lock stays the entry of its thread,
   because nobody else may join or detach that thread. *)
JoinOk(t) ==
  /\ at[t] \in Slot /\ peer[t] \in Thread
  /\ tcb_table[at[t]].tid = peer[t] /\ ~tcb_table[at[t]].detached
  /\ pc[t] \in {"last wait", "free"} => pc[peer[t]] \in {"dying", "dead"}
JoinInv == \A t \in Thread : Joining(t) => JoinOk(t)

IInv ==
  /\ TypeOK /\ TaskInv /\ LockInv /\ CloneInv /\ SlotInv /\ TidInv
  /\ ActiveInv /\ PeerInv /\ JoinInv

-------------------------------------------------------------------------------
(* The names that are no thread and no stack. *)
LEMMA Constants ==
  Main \in Thread /\ NULL \notin Thread /\ NULL \notin Stack /\ Outside \notin Thread
BY Zenon, PthreadAssumption DEF NULL, Outside

(* A set of slots that is not empty has a first one. *)
LEMMA Least ==
  ASSUME NEW S, S \subseteq Nat, S # {}
  PROVE  \E s \in S : \A r \in S : s <= r
<1> DEFINE R == OpToRel(<, Nat)
<1>1. IsWellFoundedOn(R, Nat)
  BY Zenon, NatLessThanWellFounded
<1>2. R = {ss \in Nat \X Nat : ss[1] < ss[2]}
  BY Zenon DEF OpToRel
<1> HIDE DEF R
<1>3. PICK s \in S : \A r \in S : ~(<<r, s>> \in R)
  <2>1. \E x \in S : \A y \in S : ~(<<y, x>> \in R)
    BY <1>1, WFMin, Zenon
  <2> QED BY Zenon, <2>1
<1>4. ASSUME NEW r \in S PROVE s <= r
  <2>1. r \in Nat /\ s \in Nat
    BY Zenon
  <2>2. r < s => <<r, s>> \in R
    BY Zenon, <1>2, <2>1
  <2>3. ~(r < s)
    BY <1>3, <2>2, Zenon
  <2> QED BY <2>1, <2>3, SMT
<1> QED BY Zenon, <1>4

(* The slot that a search of tcb_table from the start comes to first is one it looks for. *)
LEMMA FirstFacts ==
  ASSUME NEW S, S \subseteq Slot, S # {}
  PROVE  First(S) \in S
<1>1. S \subseteq Nat
  BY DEF Slot
<1>2. \E s \in S : \A r \in S : s <= r
  BY <1>1, Least, Zenon
<1> QED BY Zenon, <1>2 DEF First

(* The updates of an entry. *)
LEMMA SetTid ==
  ASSUME NEW e \in Tcb, NEW x \in Thread \cup {NULL}
  PROVE  LET f == [e EXCEPT !.tid = x]
         IN  /\ f \in Tcb /\ f.tid = x /\ f.state = e.state /\ f.detached = e.detached
             /\ f.retval = e.retval /\ f.stack_base = e.stack_base
BY Zenon DEF Tcb

(* pthread_exit stores the result and the state of an entry, and nothing else. *)
LEMMA SetExited ==
  ASSUME NEW e \in Tcb, NEW x \in Value \cup {NULL}
  PROVE  LET f == [e EXCEPT !.retval = x, !.state = "exited"]
         IN  /\ f \in Tcb /\ f.tid = e.tid /\ f.state = "exited" /\ f.detached = e.detached
             /\ f.retval = x /\ f.stack_base = e.stack_base
BY Zenon DEF Tcb

(* pthread_detach sets the flag of an entry, and nothing else. *)
LEMMA SetDetached ==
  ASSUME NEW e \in Tcb
  PROVE  LET f == [e EXCEPT !.detached = TRUE]
         IN  /\ f \in Tcb /\ f.tid = e.tid /\ f.state = e.state /\ f.detached
             /\ f.retval = e.retval /\ f.stack_base = e.stack_base
BY Zenon DEF Tcb

(* An entry that is freed keeps its flag and its result. *)
LEMMA ClearedFacts ==
  ASSUME NEW e \in Tcb
  PROVE  /\ Cleared(e) \in Tcb /\ Cleared(e).tid = NULL /\ Cleared(e).state = "unused"
         /\ Cleared(e).detached = e.detached
         /\ Cleared(e).retval = e.retval /\ Cleared(e).stack_base = NULL
BY Zenon DEF Tcb, Cleared

(* The invariant holds when the program starts, with main alone. *)
THEOREM InitIInv == Init => IInv
<1> SUFFICES ASSUME Init PROVE IInv
  BY Zenon
<1> USE PthreadAssumption DEF Init
<1>1. TypeOK
  BY Zenon DEF TypeOK, Tcb, NULL, NoSlot, Outside
<1>2. TaskInv
  BY Zenon DEF TaskInv
<1>3. LockInv
  BY Zenon DEF LockInv, NULL
<1>4. CloneInv
  BY Zenon DEF CloneInv
<1>5. SlotInv
  BY Zenon DEF SlotInv, SlotOk
<1>6. TidInv
  BY Zenon DEF TidInv
<1>7. ActiveInv
  BY Zenon DEF ActiveInv, Active
<1>8. PeerInv
  BY Zenon DEF PeerInv
<1>9. JoinInv
  BY Zenon DEF JoinInv, Joining
<1> QED BY Zenon, <1>1, <1>2, <1>3, <1>4, <1>5, <1>6, <1>7, <1>8, <1>9 DEF IInv

-------------------------------------------------------------------------------
(* No step that leaves the locals peer alone disturbs PeerInv. *)
LEMMA PeerFrame ==
  ASSUME IInv, peer' = peer, \A v \in Thread : pc'[v] = "none" => pc[v] = "none"
  PROVE  PeerInv'
<1>1. \A v \in Thread : peer[v] \in Thread \cup {NULL}
  BY Zenon DEF IInv, TypeOK
<1> QED BY Zenon, <1>1 DEF IInv, PeerInv

(* Steps that leave the table alone.  Such a step takes t from one place to another, and
   changes the locals of t only. *)
LEMMA LocalStep ==
  ASSUME IInv, NEW t \in Thread, NEW q,
         TypeOK', TaskInv', PeerInv',
         UNCHANGED <<tcb_table, global_lock, on>>,
         pc' = [pc EXCEPT ![t] = q],
         pc[t] \notin {"none", "cloned", "dead"},
         q \notin {"none", "cloned", "entry", "run"},
         \A v \in Thread \ {t} : at'[v] = at[v] /\ peer'[v] = peer[v] /\ retval'[v] = retval[v],
         pc[t] \in {"entry", "dying"} => q = "dead",
         global_lock = NULL \/ q = "dead" \/ pc[t] \in {"check", "wait", "last wait"},
         q = "dying" => \A s \in Slot : tcb_table[s].tid # t,
         pc[t] = "run" \/ retval'[t] = retval[t],
         q = "exit" => at'[t] \in Slot /\ tcb_table[at'[t]].tid = t,
         Joining(t)' => JoinOk(t)'
  PROVE  IInv'
<1> USE DEF IInv
<1>1. pc'[t] = q /\ \A v \in Thread \ {t} : pc'[v] = pc[v]
  BY Zenon DEF TypeOK
<1>2. global_lock # t /\ global_lock \in Thread \cup {NULL}
  BY Zenon DEF LockInv, TypeOK
<1>3. \A s \in Slot : tcb_table[s].tid \in Thread \cup {NULL}
  BY Zenon DEF TypeOK, Tcb
<1>4. Main \in Thread /\ NULL \notin Thread
  BY Zenon, Constants
<1>5. LockInv'
  <2>1. q = "exit" => t # Main
    BY <1>4 DEF SlotInv, SlotOk
  <2> QED BY ZenonT(40), <1>1, <1>2, <1>4, <2>1 DEF LockInv
<1>6. CloneInv'
  <2> SUFFICES ASSUME NEW v \in Thread, pc'[v] = "cloned"
               PROVE  CloneOk(v)'
    BY Zenon DEF CloneInv
  <2>1. v # t /\ pc[v] = "cloned" /\ global_lock = v /\ CloneOk(v)
    BY Zenon, <1>1 DEF LockInv, CloneInv
  <2>2. peer[v] = t => q = "dead"
    BY Zenon, <2>1, <1>4 DEF CloneOk
  <2>3. peer[v] \in Thread /\ pc'[peer[v]] \in {pc[peer[v]], "dead"}
    BY Zenon, <1>1, <2>1, <2>2 DEF CloneOk
  <2>4. at'[v] = at[v] /\ peer'[v] = peer[v] /\ tcb_table' = tcb_table /\ on' = on
    BY Zenon, <2>1
  <2>5. /\ pc'[peer[v]] \in {"entry", "run", "dead"}
        /\ pc'[peer[v]] = "run" => pc[peer[v]] = "run"
    BY Zenon, <2>1, <2>3 DEF CloneOk
  <2> QED BY Zenon, <2>1, <2>4, <2>5 DEF CloneOk
<1>7. SlotInv'
  <2> SUFFICES ASSUME NEW s \in Slot
               PROVE  SlotOk(s)'
    BY Zenon DEF SlotInv
  <2>1. SlotOk(s)
    BY Zenon DEF SlotInv
  <2>2. CASE tcb_table[s].tid = t
    BY <1>1, <1>2, <1>4, <2>1, <2>2 DEF SlotOk
  <2>3. CASE tcb_table[s].tid # t
    <3>1. tcb_table[s].tid # NULL =>
            /\ pc'[tcb_table[s].tid] = pc[tcb_table[s].tid]
            /\ retval'[tcb_table[s].tid] = retval[tcb_table[s].tid]
      BY Zenon, <1>1, <1>3, <2>3
    <3>2. global_lock # NULL => at'[global_lock] = at[global_lock]
      BY Zenon, <1>2
    <3> QED BY <2>1, <3>1, <3>2 DEF SlotOk
  <2> QED BY Zenon, <2>2, <2>3
<1>8. TidInv'
  BY Zenon DEF TidInv
<1>9. ActiveInv'
  <2> SUFFICES ASSUME NEW v \in Active'
               PROVE  ActiveOk(v)'
    BY Zenon DEF ActiveInv
  <2>1. v \in Active /\ ActiveOk(v)
    BY Zenon, <1>1 DEF Active, ActiveInv
  <2>2. CASE v = t
    BY <1>1, <2>1, <2>2 DEF ActiveOk, Active
  <2>3. CASE v # t
    BY <1>1, <1>2, <2>1, <2>3 DEF ActiveOk, EntryOf, Active
  <2> QED BY Zenon, <2>2, <2>3
<1>10. JoinInv'
  <2> SUFFICES ASSUME NEW v \in Thread \ {t}, Joining(v)'
               PROVE  JoinOk(v)'
    BY Zenon DEF JoinInv
  <2>1. Joining(v) /\ JoinOk(v)
    BY Zenon, <1>1 DEF Joining, JoinInv
  <2>2. pc[peer[v]] \in {"dying", "dead"} => pc'[peer[v]] \in {"dying", "dead"}
    BY Zenon, <1>1, <2>1 DEF JoinOk
  <2> QED BY Zenon, <1>1, <2>1, <2>2 DEF JoinOk
<1> QED BY Zenon, <1>5, <1>6, <1>7, <1>8, <1>9, <1>10

(* The loop condition of pthread_join keeps the invariant. *)
LEMMA JoinCheckStep ==
  ASSUME IInv, NEW t \in Thread, JoinCheck(t)
  PROVE  IInv'
<1> USE DEF IInv
<1>1. UNCHANGED <<tcb_table, global_lock, at, peer, reaped, retval, task, parent, on>>
  BY Zenon DEF JoinCheck, lockVars, localVars, kernelVars
<1>2. PICK q \in {"wait", "free", "last wait"} : pc' = [pc EXCEPT ![t] = q]
  BY Zenon DEF JoinCheck
<1>3. pc[t] = "check" /\ JoinOk(t)
  BY Zenon DEF JoinCheck, JoinInv, Joining
<1>4. pc'[t] = q /\ \A v \in Thread \ {t} : pc'[v] = pc[v]
  BY Zenon, <1>2 DEF TypeOK
<1>5. TypeOK'
  BY Zenon, <1>1, <1>2 DEF TypeOK
<1>6. TaskInv' /\ PeerInv'
  <2>1. TaskInv'
    BY Zenon, <1>1, <1>3, <1>4 DEF TaskInv
  <2> QED BY Zenon, <1>1, <1>3, <1>4, <2>1, PeerFrame
<1>7. JoinOk(t)'
  <2>1. q # "wait" => tcb_table[at[t]].state # "running"
    BY Zenon, <1>2, <1>3, <1>4 DEF JoinCheck, TypeOK
  <2>2. tcb_table[at[t]].state \in {"unused", "running", "exited"}
    BY Zenon, <1>3 DEF JoinOk, TypeOK, Tcb
  <2>3. q # "wait" => pc[peer[t]] \in {"dying", "dead"}
    <3>1. tcb_table[at[t]].tid = peer[t] /\ peer[t] # NULL /\ at[t] \in Slot
      BY Zenon, <1>3, Constants DEF JoinOk
    <3>2. SlotOk(at[t])
      BY Zenon, <3>1 DEF SlotInv
    <3> QED BY Zenon, <2>1, <2>2, <3>1, <3>2 DEF SlotOk
  <2> QED BY Zenon, <1>1, <1>3, <1>4, <2>3 DEF JoinOk
<1> HIDE DEF IInv
<1>8. \A v \in Thread \ {t} : at'[v] = at[v] /\ peer'[v] = peer[v] /\ retval'[v] = retval[v]
  BY Zenon, <1>1
<1>9. IInv'
  BY Zenon, <1>1, <1>2, <1>3, <1>5, <1>6, <1>7, <1>8, LocalStep
<1> QED BY Zenon, <1>9

(* waitpid by t, whatever it does, moves a zombie at most. *)
LEMMA WaitFacts ==
  ASSUME IInv, NEW t \in Thread, JoinOk(t), WaitReaps(t) \/ NoChild(t) \/ Interrupted(t)
  PROVE  /\ task' \in [Thread -> {"none", "live", "zombie", "gone"}]
         /\ \A v \in Thread : /\ task'[v] = "none" <=> task[v] = "none"
                              /\ task'[v] = "live" <=> task[v] = "live"
         /\ WaitReaps(t) => pc[peer[t]] = "dead"
<1>1. task \in [Thread -> {"none", "live", "zombie", "gone"}] /\ peer[t] \in Thread
  BY Zenon DEF IInv, TypeOK, JoinOk
<1>2. CASE WaitReaps(t)
  <2>1. task[peer[t]] = "zombie" /\ task' = [task EXCEPT ![peer[t]] = "gone"]
    BY Zenon, <1>2 DEF WaitReaps
  <2>2. pc[peer[t]] = "dead"
    BY Zenon, <1>1, <2>1 DEF IInv, TaskInv
  <2> QED BY Zenon, <1>1, <2>1, <2>2
<1>3. CASE ~WaitReaps(t)
  BY Zenon, <1>1, <1>3 DEF NoChild, Interrupted
<1> QED BY Zenon, <1>2, <1>3

(* waitpid in the loop of pthread_join keeps the invariant. *)
LEMMA JoinWaitStep ==
  ASSUME IInv, NEW t \in Thread, JoinWait(t)
  PROVE  IInv'
<1>1. UNCHANGED <<tcb_table, global_lock, at, peer, retval, parent, on>>
  BY Zenon DEF JoinWait, lockVars
<1>2. PICK q \in {"free", "check"} : pc' = [pc EXCEPT ![t] = q]
  BY Zenon DEF JoinWait
<1>3. pc[t] = "wait" /\ JoinOk(t)
  BY Zenon DEF JoinWait, JoinInv, Joining, IInv
<1>4. pc'[t] = q /\ \A v \in Thread \ {t} : pc'[v] = pc[v]
  BY Zenon, <1>2 DEF TypeOK, IInv
<1>5. WaitReaps(t) \/ NoChild(t) \/ Interrupted(t)
  BY Zenon DEF JoinWait
<1>6. /\ task' \in [Thread -> {"none", "live", "zombie", "gone"}]
      /\ \A v \in Thread : /\ task'[v] = "none" <=> task[v] = "none"
                           /\ task'[v] = "live" <=> task[v] = "live"
      /\ WaitReaps(t) => pc[peer[t]] = "dead"
  BY Zenon, <1>3, <1>5, WaitFacts
<1>7. TypeOK'
  <2>1. reaped' \in [Thread -> BOOLEAN]
    BY Zenon DEF JoinWait, IInv, TypeOK
  <2> QED BY Zenon, <1>1, <1>2, <1>6, <2>1 DEF TypeOK, IInv
<1>8. TaskInv' /\ PeerInv'
  <2>1. TaskInv'
    BY <1>3, <1>4, <1>6 DEF TaskInv, IInv
  <2> QED BY Zenon, <1>1, <1>3, <1>4, <2>1, PeerFrame
<1>9. JoinOk(t)'
  <2>1. q = "free" => WaitReaps(t)
    BY Zenon, <1>3, <1>4 DEF JoinWait, TypeOK, IInv
  <2>2. pc[peer[t]] = "dead" => pc'[peer[t]] = "dead"
    BY Zenon, <1>3, <1>4 DEF JoinOk
  <2> QED BY Zenon, <1>1, <1>3, <1>4, <1>6, <2>1, <2>2 DEF JoinOk
<1>10. \A v \in Thread \ {t} : at'[v] = at[v] /\ peer'[v] = peer[v] /\ retval'[v] = retval[v]
  BY Zenon, <1>1
<1> QED BY Zenon, <1>1, <1>2, <1>3, <1>7, <1>8, <1>9, <1>10, LocalStep

(* The last waitpid of pthread_join keeps the invariant. *)
LEMMA JoinLastWaitStep ==
  ASSUME IInv, NEW t \in Thread, JoinLastWait(t)
  PROVE  IInv'
<1>1. UNCHANGED <<tcb_table, global_lock, at, peer, reaped, retval, parent, on>>
  BY Zenon DEF JoinLastWait, lockVars, localVars
<1>2. pc' = [pc EXCEPT ![t] = "free"]
  BY Zenon DEF JoinLastWait
<1>3. pc[t] = "last wait" /\ JoinOk(t)
  BY Zenon DEF JoinLastWait, JoinInv, Joining, IInv
<1>4. pc'[t] = "free" /\ \A v \in Thread \ {t} : pc'[v] = pc[v]
  BY Zenon, <1>2 DEF TypeOK, IInv
<1>5. WaitReaps(t) \/ NoChild(t) \/ Interrupted(t)
  BY Zenon DEF JoinLastWait
<1>6. /\ task' \in [Thread -> {"none", "live", "zombie", "gone"}]
      /\ \A v \in Thread : /\ task'[v] = "none" <=> task[v] = "none"
                           /\ task'[v] = "live" <=> task[v] = "live"
  BY Zenon, <1>3, <1>5, WaitFacts
<1>7. TypeOK'
  BY Zenon, <1>1, <1>2, <1>6 DEF TypeOK, IInv
<1>8. TaskInv' /\ PeerInv'
  <2>1. TaskInv'
    BY <1>3, <1>4, <1>6 DEF TaskInv, IInv
  <2> QED BY Zenon, <1>1, <1>3, <1>4, <2>1, PeerFrame
<1>9. JoinOk(t)'
  BY Zenon, <1>1, <1>3, <1>4 DEF JoinOk
<1>10. \A v \in Thread \ {t} : at'[v] = at[v] /\ peer'[v] = peer[v] /\ retval'[v] = retval[v]
  BY Zenon, <1>1
<1> QED BY Zenon, <1>1, <1>2, <1>3, <1>7, <1>8, <1>9, <1>10, LocalStep

(* pthread_exit and a fatal signal. *)
LEMMA DiesStep ==
  ASSUME IInv, NEW t \in Thread, Dies(t), task[t] = "live", global_lock # t
  PROVE  IInv'
<1>1. UNCHANGED <<tcb_table, global_lock, at, peer, reaped, retval, on>>
  BY Zenon DEF Dies, lockVars, localVars
<1>2. /\ pc' = [pc EXCEPT ![t] = "dead"]
      /\ task' = [task EXCEPT ![t] = "zombie"]
      /\ parent' = [u \in Thread |-> IF parent[u] = t THEN Outside ELSE parent[u]]
  BY Zenon DEF Dies
<1>3. pc[t] \notin {"none", "cloned", "dead"}
  BY Zenon DEF IInv, TaskInv, LockInv
<1>4. pc'[t] = "dead" /\ \A v \in Thread \ {t} : pc'[v] = pc[v]
  BY Zenon, <1>2 DEF TypeOK, IInv
<1>5. TypeOK'
  BY Zenon, <1>1, <1>2 DEF TypeOK, IInv
<1>6. TaskInv' /\ PeerInv'
  <2>1. task'[t] = "zombie" /\ \A v \in Thread \ {t} : task'[v] = task[v]
    BY Zenon, <1>2 DEF TypeOK, IInv
  <2>2. TaskInv'
    BY Zenon, <1>3, <1>4, <2>1 DEF TaskInv, IInv
  <2> QED BY Zenon, <1>1, <1>3, <1>4, <2>2, PeerFrame
<1>7. ~Joining(t)'
  BY Zenon, <1>4 DEF Joining
<1>8. \A v \in Thread \ {t} : at'[v] = at[v] /\ peer'[v] = peer[v] /\ retval'[v] = retval[v]
  BY Zenon, <1>1
<1> QED BY Zenon, <1>1, <1>2, <1>3, <1>5, <1>6, <1>7, <1>8, LocalStep

(* A wait of init or of the shell keeps the invariant. *)
LEMMA OutsideReapsStep ==
  ASSUME IInv, NEW t \in Thread, OutsideReaps(t)
  PROVE  IInv'
<1>1. UNCHANGED <<tcb_table, global_lock, pc, at, peer, reaped, retval, parent, on>>
  BY Zenon DEF OutsideReaps, lockVars, localVars
<1>2. task[t] = "zombie" /\ task' = [task EXCEPT ![t] = "gone"]
  BY Zenon DEF OutsideReaps
<1>3. TypeOK'
  BY Zenon, <1>1, <1>2 DEF TypeOK, IInv
<1>4. TaskInv'
  BY Zenon, <1>1, <1>2 DEF TaskInv, IInv, TypeOK
<1>5. LockInv' /\ PeerInv' /\ TidInv' /\ SlotInv'
  BY <1>1 DEF LockInv, PeerInv, TidInv, SlotInv, SlotOk, IInv
<1>6. CloneInv' /\ JoinInv'
  BY <1>1 DEF CloneInv, CloneOk, JoinInv, JoinOk, Joining, IInv
<1>7. ActiveInv'
  BY <1>1 DEF ActiveInv, ActiveOk, Active, EntryOf, IInv
<1> QED BY Zenon, <1>3, <1>4, <1>5, <1>6, <1>7 DEF IInv

(* The start of pthread_exit keeps the invariant. *)
LEMMA ExitStep ==
  ASSUME IInv, NEW t \in Thread, NEW v \in Value, Exit(t, v)
  PROVE  IInv'
<1>1. /\ UNCHANGED <<tcb_table, global_lock, peer, reaped, task, parent, on>>
      /\ pc[t] = "run" /\ global_lock = NULL
  BY Zenon DEF Exit, lockVars, kernelVars
<1>2. CASE Found(t) = {}
  <2>1. pc' = [pc EXCEPT ![t] = "dying"] /\ UNCHANGED <<at, retval>>
    BY Zenon, <1>2 DEF Exit
  <2>2. pc'[t] = "dying" /\ \A u \in Thread \ {t} : pc'[u] = pc[u]
    BY Zenon, <2>1 DEF TypeOK, IInv
  <2>3. TypeOK'
    BY Zenon, <1>1, <2>1 DEF TypeOK, IInv
  <2>4. TaskInv' /\ PeerInv'
    <3>1. TaskInv'
      BY Zenon, <1>1, <2>2 DEF TaskInv, IInv
    <3> QED BY Zenon, <1>1, <2>2, <3>1, PeerFrame
  <2>5. \A s \in Slot : tcb_table[s].tid # t
    <3> SUFFICES ASSUME NEW s \in Slot, tcb_table[s].tid = t PROVE FALSE
      BY Zenon
    <3>1. tcb_table[s].state = "unused"
      BY Zenon, <1>2 DEF Found, Used
    <3> QED BY Zenon, <3>1, Constants DEF IInv, SlotInv, SlotOk
  <2>6. ~Joining(t)'
    BY Zenon, <2>2 DEF Joining
  <2>7. \A u \in Thread \ {t} : at'[u] = at[u] /\ peer'[u] = peer[u] /\ retval'[u] = retval[u]
    BY Zenon, <1>1, <2>1
  <2> QED BY Zenon, <1>1, <2>1, <2>3, <2>4, <2>5, <2>6, <2>7, LocalStep
<1>3. CASE Found(t) # {}
  <2> DEFINE s == First(Found(t))
  <2>1. s \in Slot /\ tcb_table[s].tid = t
    <3>1. Found(t) \subseteq Slot
      BY Zenon DEF Found
    <3>2. s \in Found(t)
      BY Zenon, <1>3, <3>1, FirstFacts
    <3> QED BY Zenon, <3>2 DEF Found
  <2>2. /\ pc' = [pc EXCEPT ![t] = "exit"]
        /\ at' = [at EXCEPT ![t] = s]
        /\ retval' = [retval EXCEPT ![t] = v]
    BY Zenon, <1>3 DEF Exit
  <2> HIDE DEF s
  <2>3. pc'[t] = "exit" /\ \A u \in Thread \ {t} : pc'[u] = pc[u]
    BY Zenon, <2>2 DEF TypeOK, IInv
  <2>4. TypeOK'
    BY Zenon, <1>1, <2>1, <2>2 DEF TypeOK, IInv
  <2>5. TaskInv' /\ PeerInv'
    <3>1. TaskInv'
      BY Zenon, <1>1, <2>3 DEF TaskInv, IInv
    <3> QED BY Zenon, <1>1, <2>3, <3>1, PeerFrame
  <2>6. at'[t] = s
    BY Zenon, <2>2 DEF TypeOK, IInv
  <2>7. ~Joining(t)'
    BY Zenon, <2>3 DEF Joining
  <2>8. \A u \in Thread \ {t} : at'[u] = at[u] /\ peer'[u] = peer[u] /\ retval'[u] = retval[u]
    BY Zenon, <1>1, <2>2 DEF TypeOK, IInv
  <2> QED BY ZenonT(40), <1>1, <2>1, <2>2, <2>4, <2>5, <2>6, <2>7, <2>8, LocalStep
<1> QED BY Zenon, <1>2, <1>3

(* The lookup of pthread_join keeps the invariant: no one else names its thread. *)
LEMMA JoinStep ==
  ASSUME IInv, NEW t \in Thread, NEW u \in Thread, Join(t, u)
  PROVE  IInv'
<1> DEFINE s == First(Found(u))
<1>1. /\ UNCHANGED <<tcb_table, global_lock, retval, task, parent, on>>
      /\ pc[t] = "run" /\ global_lock = NULL /\ t # u
      /\ Callable(u) /\ ~tcb_table[s].detached
      /\ pc' = [pc EXCEPT ![t] = "check"]
      /\ at' = [at EXCEPT ![t] = s]
      /\ peer' = [peer EXCEPT ![t] = u]
      /\ reaped' = [reaped EXCEPT ![t] = FALSE]
  BY Zenon DEF Join, lockVars, kernelVars
<1>2. s \in Slot /\ tcb_table[s].tid = u
  <2>1. Found(u) \subseteq Slot /\ Found(u) # {}
    BY Zenon DEF Found, Join
  <2>2. s \in Found(u)
    BY Zenon, <2>1, FirstFacts
  <2> QED BY Zenon, <2>2 DEF Found
<1> HIDE DEF s
<1>3. /\ pc'[t] = "check" /\ at'[t] = s /\ peer'[t] = u
      /\ \A w \in Thread \ {t} : /\ pc'[w] = pc[w] /\ at'[w] = at[w]
                                 /\ peer'[w] = peer[w] /\ retval'[w] = retval[w]
  BY Zenon, <1>1 DEF TypeOK, IInv
<1>4. TypeOK'
  BY Zenon, <1>1, <1>2 DEF TypeOK, IInv
<1>5. TaskInv'
  BY <1>1, <1>3 DEF TaskInv, IInv
<1>6. PeerInv'
  <2>1. \A w \in Thread : peer[w] \in Thread \cup {NULL} /\ peer[w] # u
    BY Zenon, <1>1 DEF IInv, TypeOK, Callable
  <2>2. pc[u] # "none"
    BY Zenon, <1>1 DEF Callable, IInv, TaskInv
  <2>3. \A w \in Thread : peer'[w] # NULL => pc'[peer'[w]] # "none"
    BY <1>1, <1>3, <2>1, <2>2 DEF IInv, PeerInv
  <2>4. ASSUME NEW w \in Thread, NEW x \in Thread, peer'[w] # NULL, peer'[w] = peer'[x]
        PROVE  w = x
    BY <1>3, <2>1, <2>4 DEF IInv, PeerInv
  <2> QED BY Zenon, <2>3, <2>4 DEF PeerInv
<1>7. JoinOk(t)'
  BY Zenon, <1>1, <1>2, <1>3 DEF JoinOk
<1> QED BY Zenon, <1>1, <1>3, <1>4, <1>5, <1>6, <1>7, LocalStep

-------------------------------------------------------------------------------
(* Steps that change one entry. *)

(* The end of pthread_create keeps the invariant: the tid it stores is in no other entry. *)
LEMMA CreatedStep ==
  ASSUME IInv, NEW t \in Thread, Created(t)
  PROVE  IInv'
<1> DEFINE u == peer[t]
           a == at[t]
<1>1. pc[t] = "cloned" /\ global_lock = t /\ global_lock' = NULL
  BY Zenon DEF Created, IInv, LockInv
<1>2. UNCHANGED <<retval, task, parent, on>>
  BY Zenon DEF Created, kernelVars
<1>3. /\ a \in Slot /\ u \in Thread \ {Main} /\ u # t
      /\ pc[u] \in {"entry", "run", "dead"}
      /\ tcb_table[a].state = "running" /\ tcb_table[a].stack_base = on[u]
      /\ tcb_table[a].tid \in {NULL, u}
      /\ \A s \in Slot \ {a} : tcb_table[s].tid # u
  BY Zenon, <1>1 DEF IInv, CloneInv, CloneOk
<1>4. /\ tcb_table'[a] = [tcb_table[a] EXCEPT !.tid = u]
      /\ \A s \in Slot \ {a} : tcb_table'[s] = tcb_table[s]
  BY Zenon, <1>3 DEF Created, IInv, TypeOK
<1>5. /\ tcb_table'[a].tid = u
      /\ tcb_table'[a].state = tcb_table[a].state
      /\ tcb_table'[a].detached = tcb_table[a].detached
      /\ tcb_table'[a].retval = tcb_table[a].retval
      /\ tcb_table'[a].stack_base = tcb_table[a].stack_base
  <2>1. tcb_table[a] \in Tcb /\ u \in Thread \cup {NULL}
    BY Zenon, <1>3 DEF IInv, TypeOK
  <2> QED BY <1>4, <2>1, SetTid
<1>6. /\ pc'[t] = "run" /\ peer'[t] = NULL
      /\ \A v \in Thread \ {t} : pc'[v] = pc[v] /\ at'[v] = at[v] /\ peer'[v] = peer[v]
  BY Zenon DEF Created, Return, IInv, TypeOK
<1>7. \A s \in Slot : tcb_table[s].tid \in Thread \cup {NULL}
  BY Zenon DEF IInv, TypeOK, Tcb
<1>8. TypeOK'
  <2>1. tcb_table' \in [Slot -> Tcb]
    BY <1>3, SetTid DEF Created, IInv, TypeOK
  <2> QED BY Zenon, <1>1, <1>2, <2>1 DEF Created, Return, IInv, TypeOK
<1> HIDE DEF u, a
<1>9. TaskInv'
  BY Zenon, <1>1, <1>2, <1>6 DEF IInv, TaskInv
<1>10. LockInv'
  BY Zenon, <1>1, <1>6, Constants DEF IInv, LockInv
<1>11. CloneInv'
  BY Zenon, <1>1, <1>6 DEF IInv, LockInv, CloneInv
<1>12. SlotInv'
  <2> SUFFICES ASSUME NEW s \in Slot PROVE SlotOk(s)'
    BY Zenon DEF SlotInv
  <2>1. SlotOk(s)
    BY Zenon DEF IInv, SlotInv
  <2>2. CASE s = a
    BY Zenon, <1>2, <1>3, <1>5, <1>6, <2>1, <2>2, Constants DEF SlotOk
  <2>3. CASE s # a
    <3>1. tcb_table[s].state # "unused" => tcb_table[s].tid # NULL
      BY Zenon, <1>1, <2>1, <2>3 DEF SlotOk, a
    <3>2. tcb_table[s].tid # NULL =>
            pc'[tcb_table[s].tid] = pc[tcb_table[s].tid] \/ tcb_table[s].tid = t
      BY Zenon, <1>6, <1>7
    <3> QED BY <1>1, <1>2, <1>4, <1>6, <2>1, <2>3, <3>1, <3>2 DEF SlotOk
  <2> QED BY Zenon, <2>2, <2>3
<1>13. TidInv'
  <2> SUFFICES ASSUME NEW s \in Slot, NEW r \in Slot,
                      tcb_table'[s].tid # NULL, tcb_table'[s].tid = tcb_table'[r].tid
               PROVE  s = r
    BY Zenon DEF TidInv
  <2>1. CASE s = a \/ r = a
    BY ZenonT(40), <1>3, <1>4, <1>5, <2>1
  <2>2. CASE s # a /\ r # a
    BY <1>4, <2>2 DEF IInv, TidInv
  <2> QED BY Zenon, <2>1, <2>2
<1>14. ActiveInv'
  <2> SUFFICES ASSUME NEW v \in Active' PROVE ActiveOk(v)'
    BY Zenon DEF ActiveInv
  <2>1. v \in Active /\ ActiveOk(v)
    BY Zenon, <1>1, <1>6 DEF IInv, ActiveInv, Active
  <2>2. v \in Thread /\ v # NULL
    BY Zenon, Constants DEF Active
  <2>3. ASSUME NEW s \in Slot, tcb_table[s].tid = v
        PROVE  tcb_table'[s].tid = v /\ tcb_table'[s].state = tcb_table[s].state
    BY Zenon, <1>3, <1>4, <1>5, <2>2, <2>3
  <2>4. pc'[v] # "entry" =>
          \E s \in Slot : tcb_table'[s].tid = v /\ tcb_table'[s].state = "running"
    BY Zenon, <1>1, <1>6, <2>1, <2>2, <2>3 DEF ActiveOk
  <2>5. ASSUME pc'[v] = "entry"
        PROVE  /\ at'[v] \in Slot /\ tcb_table'[at'[v]].tid = v
               /\ tcb_table'[at'[v]].state = "running"
               /\ tcb_table'[at'[v]].stack_base = on[v]
    <3>1. v # t /\ pc[v] = "entry" /\ at'[v] = at[v]
      BY Zenon, <1>6, <2>2, <2>5
    <3>2. at[v] \in Slot /\ EntryOf(at[v], v)
          /\ tcb_table[at[v]].state = "running" /\ tcb_table[at[v]].stack_base = on[v]
      BY Zenon, <2>1, <3>1 DEF ActiveOk
    <3>3. CASE tcb_table[at[v]].tid = v
      <4>1. tcb_table'[at[v]].stack_base = tcb_table[at[v]].stack_base
        BY Zenon, <1>4, <1>5, <3>2
      <4> QED BY Zenon, <2>3, <3>1, <3>2, <3>3, <4>1
    <3>4. CASE tcb_table[at[v]].tid # v
      <4>1. at[v] = a /\ u = v
        BY Zenon, <1>1, <3>2, <3>4 DEF EntryOf, a, u
      <4> QED BY Zenon, <1>5, <3>1, <3>2, <4>1
    <3> QED BY Zenon, <3>3, <3>4
  <2>6. pc'[v] = "exit" => at'[v] \in Slot /\ tcb_table'[at'[v]].tid = v
    BY Zenon, <1>6, <2>1, <2>2, <2>3 DEF ActiveOk
  <2> QED BY Zenon, <1>2, <2>4, <2>5, <2>6 DEF ActiveOk, EntryOf
<1>15. PeerInv'
  <2>1. \A v \in Thread : peer[v] \in Thread \cup {NULL}
    BY Zenon DEF IInv, TypeOK
  <2> QED BY <1>1, <1>6, <2>1 DEF IInv, PeerInv
<1>16. JoinInv'
  <2> SUFFICES ASSUME NEW v \in Thread, Joining(v)' PROVE JoinOk(v)'
    BY Zenon DEF JoinInv
  <2>1. v # t /\ Joining(v) /\ JoinOk(v)
    BY Zenon, <1>6 DEF Joining, IInv, JoinInv
  <2>2. at[v] # a
    <3> SUFFICES ASSUME at[v] = a PROVE FALSE
      BY Zenon
    <3>1. peer[v] = u
      BY Zenon, <1>3, <2>1, Constants DEF JoinOk
    <3> QED BY Zenon, <1>3, <2>1, <3>1, Constants DEF IInv, PeerInv, u
  <2>3. pc[peer[v]] \in {"dying", "dead"} => pc'[peer[v]] \in {"dying", "dead"}
    BY Zenon, <1>1, <1>6, <2>1 DEF JoinOk
  <2> QED BY ZenonT(40), <1>4, <1>6, <2>1, <2>2, <2>3 DEF JoinOk
<1> QED BY Zenon, <1>8, <1>9, <1>10, <1>11, <1>12, <1>13, <1>14, <1>15, <1>16 DEF IInv

(* The start of a thread keeps the invariant, before and after its creator stores the tid. *)
LEMMA EntryStep ==
  ASSUME IInv, NEW t \in Thread, Entry(t)
  PROVE  IInv'
<1> DEFINE a == at[t]
<1>1. pc[t] = "entry" /\ t # Main /\ global_lock # t
  BY Zenon DEF Entry, IInv, LockInv
<1>2. UNCHANGED <<global_lock, retval, task, parent, on>>
  BY Zenon DEF Entry, kernelVars
<1>3. /\ a \in Slot /\ EntryOf(a, t)
      /\ tcb_table[a].state = "running" /\ tcb_table[a].stack_base = on[t]
  BY Zenon, <1>1 DEF IInv, ActiveInv, ActiveOk, Active
<1>4. /\ global_lock \in Thread \cup {NULL}
      /\ global_lock # NULL => pc[global_lock] = "cloned" /\ CloneOk(global_lock)
      /\ \A v \in Thread : pc[v] = "cloned" => global_lock = v
  BY Zenon DEF IInv, LockInv, CloneInv, TypeOK
<1>5. \A s \in Slot \ {a} : tcb_table[s].tid # t
  <2>1. CASE tcb_table[a].tid = t
    BY Zenon, <1>3, <2>1, Constants DEF IInv, TidInv
  <2>2. CASE tcb_table[a].tid # t
    BY Zenon, <1>3, <1>4, <2>2 DEF EntryOf, CloneOk
  <2> QED BY Zenon, <2>1, <2>2
<1>6. tcb_table[a].tid \in {NULL, t} /\ tcb_table[a] \in Tcb /\ tcb_table \in [Slot -> Tcb]
  BY Zenon, <1>3 DEF EntryOf, IInv, TypeOK
<1>7. tcb_table' = [tcb_table EXCEPT ![a] = [tcb_table[a] EXCEPT !.tid = t]]
  BY Zenon, <1>3, <1>6, Constants DEF Entry, Tcb
<1>8. /\ tcb_table'[a].tid = t
      /\ tcb_table'[a].state = "running"
      /\ tcb_table'[a].detached = tcb_table[a].detached
      /\ tcb_table'[a].retval = tcb_table[a].retval
      /\ tcb_table'[a].stack_base = on[t]
      /\ \A s \in Slot \ {a} : tcb_table'[s] = tcb_table[s]
      /\ tcb_table' \in [Slot -> Tcb]
  BY <1>3, <1>6, <1>7, SetTid
<1>9. /\ pc'[t] = "run" /\ peer'[t] = NULL
      /\ \A v \in Thread \ {t} : pc'[v] = pc[v] /\ at'[v] = at[v] /\ peer'[v] = peer[v]
  BY Zenon DEF Entry, Return, IInv, TypeOK
<1>10. \A s \in Slot : tcb_table[s].tid \in Thread \cup {NULL}
  BY Zenon DEF IInv, TypeOK, Tcb
<1>11. TypeOK'
  BY Zenon, <1>2, <1>8 DEF Entry, Return, IInv, TypeOK
<1>12. TaskInv'
  BY Zenon, <1>1, <1>2, <1>9 DEF IInv, TaskInv
<1>13. LockInv'
  BY Zenon, <1>1, <1>2, <1>9, Constants DEF IInv, LockInv
<1> HIDE DEF a
<1>14. ASSUME NEW v \in Thread, pc[v] = "cloned"
       PROVE  v # t /\ (peer[v] = t <=> at[v] = a)
  <2>1. CloneOk(v) /\ v # t /\ global_lock = v
    BY Zenon, <1>1, <1>4, <1>14 DEF IInv, CloneInv
  <2>2. CASE tcb_table[a].tid = t
    BY Zenon, <1>3, <2>1, <2>2, Constants DEF CloneOk
  <2>3. CASE tcb_table[a].tid # t
    BY Zenon, <1>3, <2>1, <2>3 DEF EntryOf
  <2> QED BY Zenon, <2>1, <2>2, <2>3
<1>15. CloneInv'
  <2> SUFFICES ASSUME NEW v \in Thread, pc'[v] = "cloned" PROVE CloneOk(v)'
    BY Zenon DEF CloneInv
  <2>1. v # t /\ pc[v] = "cloned" /\ CloneOk(v) /\ (peer[v] = t <=> at[v] = a)
    BY Zenon, <1>9, <1>14 DEF IInv, CloneInv
  <2>2. at'[v] = at[v] /\ peer'[v] = peer[v]
    BY Zenon, <1>9, <2>1
  <2>3. CASE peer[v] = t
    BY SMTT(20), <1>2, <1>3, <1>5, <1>8, <1>9, <2>1, <2>2, <2>3 DEF CloneOk
  <2>4. CASE peer[v] # t
    <3>1. pc'[peer[v]] = pc[peer[v]]
      BY ZenonT(40), <1>9, <2>1, <2>4 DEF CloneOk
    <3>2. \A s \in Slot \ {at[v]} : tcb_table'[s].tid # peer[v]
      BY Zenon, <1>8, <2>1, <2>4 DEF CloneOk
    <3>3. tcb_table'[at[v]] = tcb_table[at[v]]
      BY Zenon, <1>8, <2>1, <2>4 DEF CloneOk
    <3> QED BY Zenon, <1>2, <2>1, <2>2, <3>1, <3>2, <3>3 DEF CloneOk
  <2> QED BY Zenon, <2>3, <2>4
<1>16. SlotInv'
  <2> SUFFICES ASSUME NEW s \in Slot PROVE SlotOk(s)'
    BY Zenon DEF SlotInv
  <2>1. SlotOk(s)
    BY Zenon DEF IInv, SlotInv
  <2>2. CASE s = a
    BY ZenonT(30), <1>1, <1>2, <1>3, <1>8, <1>9, <2>1, <2>2, Constants DEF SlotOk
  <2>3. CASE s # a
    <3>1. tcb_table[s].tid # NULL => pc'[tcb_table[s].tid] = pc[tcb_table[s].tid]
      BY Zenon, <1>5, <1>9, <1>10, <2>3
    <3>2. global_lock # NULL => at'[global_lock] = at[global_lock]
      BY Zenon, <1>1, <1>4, <1>9
    <3> QED BY Zenon, <1>2, <1>8, <2>1, <2>3, <3>1, <3>2 DEF SlotOk
  <2> QED BY Zenon, <2>2, <2>3
<1>17. TidInv'
  <2> SUFFICES ASSUME NEW s \in Slot, NEW r \in Slot,
                      tcb_table'[s].tid # NULL, tcb_table'[s].tid = tcb_table'[r].tid
               PROVE  s = r
    BY Zenon DEF TidInv
  <2>1. CASE s = a \/ r = a
    BY Zenon, <1>5, <1>8, <2>1
  <2>2. CASE s # a /\ r # a
    BY <1>8, <2>2 DEF IInv, TidInv
  <2> QED BY Zenon, <2>1, <2>2
<1>18. ActiveInv'
  <2> SUFFICES ASSUME NEW v \in Active' PROVE ActiveOk(v)'
    BY Zenon DEF ActiveInv
  <2>1. v \in Active /\ ActiveOk(v) /\ v \in Thread /\ v # NULL
    BY Zenon, <1>1, <1>9, Constants DEF IInv, ActiveInv, Active
  <2>2. CASE v = t
    BY Zenon, <1>3, <1>8, <1>9, <2>2 DEF ActiveOk
  <2>3. CASE v # t
    <3>1. \A s \in Slot : tcb_table[s].tid = v => tcb_table'[s] = tcb_table[s]
      BY Zenon, <1>6, <1>8, <2>1, <2>3
    <3>2. pc'[v] = pc[v] /\ at'[v] = at[v]
      BY Zenon, <1>9, <2>1, <2>3
    <3>3. ASSUME pc[v] = "entry" PROVE at[v] # a
      <4>1. EntryOf(at[v], v)
        BY Zenon, <2>1, <3>3 DEF ActiveOk
      <4> QED BY Zenon, <1>3, <2>1, <2>3, <4>1, Constants DEF EntryOf
    <3>4. ASSUME pc[v] = "entry"
          PROVE  /\ EntryOf(at[v], v)' /\ tcb_table'[at[v]] = tcb_table[at[v]]
                 /\ at[v] \in Slot
      <4>1. at[v] \in Slot /\ EntryOf(at[v], v)
        BY Zenon, <2>1, <3>4 DEF ActiveOk
      <4>2. tcb_table'[at[v]] = tcb_table[at[v]]
        BY Zenon, <1>8, <3>3, <3>4, <4>1
      <4>3. global_lock # NULL =>
              at'[global_lock] = at[global_lock] /\ peer'[global_lock] = peer[global_lock]
        BY Zenon, <1>1, <1>4, <1>9
      <4> QED BY Zenon, <1>2, <3>2, <4>1, <4>2, <4>3 DEF EntryOf
    <3>5. pc[v] # "entry" =>
            \E s \in Slot : tcb_table'[s].tid = v /\ tcb_table'[s].state = "running"
      BY Zenon, <2>1, <3>1 DEF ActiveOk
    <3>6. pc[v] = "exit" => at[v] \in Slot /\ tcb_table'[at[v]].tid = v
      BY Zenon, <2>1, <3>1 DEF ActiveOk
    <3>7. pc[v] = "entry" =>
            tcb_table'[at[v]].state = "running" /\ tcb_table'[at[v]].stack_base = on[v]
      BY Zenon, <2>1, <3>4 DEF ActiveOk
    <3> QED BY Zenon, <1>2, <3>2, <3>4, <3>5, <3>6, <3>7 DEF ActiveOk, EntryOf
  <2> QED BY Zenon, <2>2, <2>3
<1>19. PeerInv'
  <2>1. \A v \in Thread : peer[v] \in Thread \cup {NULL}
    BY Zenon DEF IInv, TypeOK
  <2> QED BY SMTT(20), <1>1, <1>9, <2>1 DEF IInv, PeerInv
<1>20. JoinInv'
  <2> SUFFICES ASSUME NEW v \in Thread, Joining(v)' PROVE JoinOk(v)'
    BY Zenon DEF JoinInv
  <2>1. v # t /\ Joining(v) /\ JoinOk(v)
    BY Zenon, <1>9 DEF Joining, IInv, JoinInv
  <2>2. pc[peer[v]] \in {"dying", "dead"} => pc'[peer[v]] \in {"dying", "dead"}
    BY ZenonT(40), <1>1, <1>9, <2>1 DEF JoinOk
  <2>3. tcb_table'[at[v]].tid = peer[v] /\ ~tcb_table'[at[v]].detached
    BY Zenon, <1>6, <1>8, <2>1, Constants DEF JoinOk
  <2> QED BY ZenonT(40), <1>9, <2>1, <2>2, <2>3 DEF JoinOk
<1> QED BY Zenon, <1>11, <1>12, <1>13, <1>15, <1>16, <1>17, <1>18, <1>19, <1>20 DEF IInv

(* The end of pthread_exit keeps the invariant: the entry it publishes in is its own. *)
LEMMA ExitedStep ==
  ASSUME IInv, NEW t \in Thread, Exited(t)
  PROVE  IInv'
<1> DEFINE a == at[t]
<1>1. pc[t] = "exit" /\ t # Main /\ global_lock = NULL
  BY Zenon DEF Exited, IInv, LockInv
<1>2. UNCHANGED <<global_lock, at, peer, reaped, retval, task, parent, on>>
  BY Zenon DEF Exited, localVars, kernelVars
<1>3. a \in Slot /\ tcb_table[a].tid = t /\ tcb_table[a].state = "running"
  <2>1. ActiveOk(t)
    BY Zenon, <1>1 DEF IInv, ActiveInv, Active
  <2> QED BY Zenon, <1>1, <2>1, Constants DEF ActiveOk, IInv, TidInv
<1>4. tcb_table[a] \in Tcb /\ tcb_table \in [Slot -> Tcb] /\ retval[t] \in Value \cup {NULL}
  BY Zenon, <1>3 DEF IInv, TypeOK
<1>5. tcb_table' = [tcb_table EXCEPT ![a] =
                      [tcb_table[a] EXCEPT !.retval = retval[t], !.state = "exited"]]
  BY Zenon, <1>3, <1>4 DEF Exited
<1>6. /\ tcb_table'[a].tid = t
      /\ tcb_table'[a].state = "exited"
      /\ tcb_table'[a].detached = tcb_table[a].detached
      /\ tcb_table'[a].retval = retval[t]
      /\ tcb_table'[a].stack_base = tcb_table[a].stack_base
      /\ \A s \in Slot \ {a} : tcb_table'[s] = tcb_table[s]
      /\ tcb_table' \in [Slot -> Tcb]
  BY ZenonT(40), <1>3, <1>4, <1>5, SetExited
<1>7. \A s \in Slot \ {a} : tcb_table[s].tid # t
  BY Zenon, <1>3, Constants DEF IInv, TidInv
<1>8. /\ pc'[t] = "dying"
      /\ \A v \in Thread \ {t} : pc'[v] = pc[v]
  BY Zenon DEF Exited, IInv, TypeOK
<1>9. \A s \in Slot : tcb_table[s].tid \in Thread \cup {NULL}
  BY Zenon DEF IInv, TypeOK, Tcb
<1>10. \A s \in Slot : tcb_table'[s].tid = tcb_table[s].tid
  BY Zenon, <1>3, <1>6
<1>11. TypeOK'
  BY Zenon, <1>2, <1>6 DEF Exited, IInv, TypeOK
<1>12. TaskInv'
  BY Zenon, <1>1, <1>2, <1>8 DEF IInv, TaskInv
<1>13. LockInv' /\ CloneInv'
  <2>1. \A v \in Thread : pc'[v] # "cloned"
    BY Zenon, <1>1, <1>8, Constants DEF IInv, LockInv
  <2> QED BY Zenon, <1>1, <1>2, <1>8, <2>1, Constants DEF IInv, LockInv, CloneInv
<1> HIDE DEF a
<1>14. SlotInv'
  <2> SUFFICES ASSUME NEW s \in Slot PROVE SlotOk(s)'
    BY Zenon DEF SlotInv
  <2>1. SlotOk(s)
    BY Zenon DEF IInv, SlotInv
  <2>2. CASE s = a
    <3>1. tcb_table[s].tid = t /\ t # NULL
      BY Zenon, <1>3, <2>2, Constants
    <3>2. t # Main /\ tcb_table[s].stack_base = on[t]
      BY Zenon, <2>1, <3>1 DEF SlotOk
    <3>3. /\ tcb_table'[s].tid = t /\ tcb_table'[s].state = "exited"
          /\ tcb_table'[s].stack_base = on'[t] /\ tcb_table'[s].retval = retval'[t]
      BY Zenon, <1>2, <1>6, <2>2, <3>2
    <3>4. pc'[t] \in {"dying", "dead"} /\ pc'[t] # "none"
      BY Zenon, <1>8
    <3> QED BY Zenon, <3>1, <3>2, <3>3, <3>4 DEF SlotOk
  <2>3. CASE s # a
    <3>1. tcb_table[s].tid # NULL => pc'[tcb_table[s].tid] = pc[tcb_table[s].tid]
      BY Zenon, <1>7, <1>8, <1>9, <2>3
    <3> QED BY Zenon, <1>2, <1>6, <2>1, <2>3, <3>1 DEF SlotOk
  <2> QED BY Zenon, <2>2, <2>3
<1>15. TidInv'
  BY Zenon, <1>10 DEF IInv, TidInv
<1>16. ActiveInv'
  <2> SUFFICES ASSUME NEW v \in Active' PROVE ActiveOk(v)'
    BY Zenon DEF ActiveInv
  <2>1. v # t /\ v \in Active /\ ActiveOk(v) /\ v \in Thread /\ v # NULL
    BY Zenon, <1>8, Constants DEF IInv, ActiveInv, Active
  <2>2. \A s \in Slot : tcb_table[s].tid = v => tcb_table'[s] = tcb_table[s]
    BY Zenon, <1>3, <1>6, <2>1
  <2>3. pc'[v] = pc[v] /\ at'[v] = at[v]
    BY Zenon, <1>2, <1>8, <2>1
  <2>4. pc[v] = "entry" => at[v] \in Slot /\ tcb_table[at[v]].tid = v
    BY Zenon, <1>1, <2>1 DEF ActiveOk, EntryOf
  <2> QED BY Zenon, <1>2, <2>1, <2>2, <2>3, <2>4 DEF ActiveOk, EntryOf
<1>17. PeerInv'
  BY Zenon, <1>1, <1>2, <1>8, PeerFrame
<1>18. JoinInv'
  <2> SUFFICES ASSUME NEW v \in Thread, Joining(v)' PROVE JoinOk(v)'
    BY Zenon DEF JoinInv
  <2>1. v # t /\ Joining(v) /\ JoinOk(v)
    BY ZenonT(40), <1>8 DEF Joining, IInv, JoinInv
  <2>2. pc[peer[v]] \in {"dying", "dead"} => pc'[peer[v]] \in {"dying", "dead"}
    BY Zenon, <1>1, <1>8, <2>1 DEF JoinOk
  <2>3. tcb_table'[at[v]].tid = peer[v] /\ ~tcb_table'[at[v]].detached
    BY Zenon, <1>6, <1>10, <2>1 DEF JoinOk
  <2> QED BY Zenon, <1>2, <1>8, <2>1, <2>2, <2>3 DEF JoinOk
<1> QED BY Zenon, <1>11, <1>12, <1>13, <1>14, <1>15, <1>16, <1>17, <1>18 DEF IInv

--------------------------------------------------------------------------------
(* The end of pthread_join keeps the invariant: the entry it frees is no running thread's. *)
LEMMA JoinFreeStep ==
  ASSUME IInv, NEW t \in Thread, JoinFree(t)
  PROVE  IInv'
<1> DEFINE a == at[t]
           u == peer[t]
<1>1. pc[t] = "free" /\ global_lock = NULL
  BY Zenon DEF JoinFree
<1>2. UNCHANGED <<global_lock, retval, task, parent, on>>
  BY Zenon DEF JoinFree, kernelVars
<1>3. /\ a \in Slot /\ u \in Thread /\ tcb_table[a].tid = u
      /\ pc[u] \in {"dying", "dead"} /\ u # t
  BY Zenon, <1>1 DEF IInv, JoinInv, Joining, JoinOk
<1>4. tcb_table[a] \in Tcb /\ tcb_table \in [Slot -> Tcb]
  BY Zenon, <1>3 DEF IInv, TypeOK
<1>5. /\ tcb_table'[a].tid = NULL /\ tcb_table'[a].state = "unused"
      /\ tcb_table'[a].stack_base = NULL
      /\ \A s \in Slot \ {a} : tcb_table'[s] = tcb_table[s]
      /\ tcb_table' \in [Slot -> Tcb]
  <2>1. tcb_table' = [tcb_table EXCEPT ![a] = Cleared(tcb_table[a])]
    BY Zenon DEF JoinFree
  <2> QED BY Zenon, <1>3, <1>4, <2>1, ClearedFacts
<1>6. /\ pc'[t] = "run" /\ peer'[t] = NULL
      /\ \A v \in Thread \ {t} : pc'[v] = pc[v] /\ at'[v] = at[v] /\ peer'[v] = peer[v]
  BY Zenon DEF JoinFree, Return, IInv, TypeOK
<1>7. \A s \in Slot : tcb_table[s].tid \in Thread \cup {NULL}
  BY Zenon DEF IInv, TypeOK, Tcb
<1>8. TypeOK'
  BY Zenon, <1>2, <1>5 DEF JoinFree, Return, IInv, TypeOK
<1>9. TaskInv'
  BY Zenon, <1>1, <1>2, <1>6 DEF IInv, TaskInv
<1>10. LockInv' /\ CloneInv'
  <2>1. \A v \in Thread : pc'[v] # "cloned"
    BY Zenon, <1>1, <1>6, Constants DEF IInv, LockInv
  <2> QED BY Zenon, <1>1, <1>2, <1>6, <2>1, Constants DEF IInv, LockInv, CloneInv
<1> HIDE DEF a, u
<1>11. SlotInv'
  <2> SUFFICES ASSUME NEW s \in Slot PROVE SlotOk(s)'
    BY Zenon DEF SlotInv
  <2>1. SlotOk(s)
    BY Zenon DEF IInv, SlotInv
  <2>2. CASE s = a
    BY Zenon, <1>5, <2>2 DEF SlotOk
  <2>3. CASE s # a
    <3>1. tcb_table[s].tid # NULL =>
            pc'[tcb_table[s].tid] = pc[tcb_table[s].tid] \/ tcb_table[s].tid = t
      BY Zenon, <1>6, <1>7
    <3> QED BY Zenon, <1>1, <1>2, <1>5, <1>6, <2>1, <2>3, <3>1 DEF SlotOk
  <2> QED BY Zenon, <2>2, <2>3
<1>12. TidInv'
  <2> SUFFICES ASSUME NEW s \in Slot, NEW r \in Slot,
                      tcb_table'[s].tid # NULL, tcb_table'[s].tid = tcb_table'[r].tid
               PROVE  s = r
    BY Zenon DEF TidInv
  <2>1. s # a /\ r # a
    BY Zenon, <1>5
  <2> QED BY <1>5, <2>1 DEF IInv, TidInv
<1>13. ActiveInv'
  <2> SUFFICES ASSUME NEW v \in Active' PROVE ActiveOk(v)'
    BY Zenon DEF ActiveInv
  <2>1. v \in Active /\ ActiveOk(v) /\ v \in Thread /\ v # u
    BY Zenon, <1>1, <1>3, <1>6 DEF IInv, ActiveInv, Active
  <2>2. \A s \in Slot : tcb_table[s].tid = v => tcb_table'[s] = tcb_table[s]
    BY Zenon, <1>3, <1>5, <2>1
  <2>3. CASE v = t
    BY Zenon, <1>1, <1>6, <2>1, <2>2, <2>3 DEF ActiveOk
  <2>4. CASE v # t
    <3>1. pc'[v] = pc[v] /\ at'[v] = at[v]
      BY Zenon, <1>6, <2>1, <2>4
    <3>2. pc[v] = "entry" => at[v] \in Slot /\ tcb_table[at[v]].tid = v
      BY Zenon, <1>1, <2>1 DEF ActiveOk, EntryOf
    <3> QED BY Zenon, <1>2, <2>1, <2>2, <3>1, <3>2 DEF ActiveOk, EntryOf
  <2> QED BY Zenon, <2>3, <2>4
<1>14. PeerInv'
  <2>1. \A v \in Thread : peer[v] \in Thread \cup {NULL}
    BY Zenon DEF IInv, TypeOK
  <2> QED BY SMTT(20), <1>1, <1>6, <2>1 DEF IInv, PeerInv
<1>15. JoinInv'
  <2> SUFFICES ASSUME NEW v \in Thread, Joining(v)' PROVE JoinOk(v)'
    BY Zenon DEF JoinInv
  <2>1. v # t /\ Joining(v) /\ JoinOk(v)
    BY Zenon, <1>6 DEF Joining, IInv, JoinInv
  <2>2. at[v] # a
    BY Zenon, <1>3, <2>1, Constants DEF JoinOk, IInv, PeerInv, u
  <2>3. pc[peer[v]] \in {"dying", "dead"} => pc'[peer[v]] \in {"dying", "dead"}
    BY Zenon, <1>1, <1>6, <2>1 DEF JoinOk
  <2>4. at'[v] = at[v] /\ peer'[v] = peer[v] /\ pc'[v] = pc[v]
    BY Zenon, <1>1, <1>6, <2>1
  <2>5. tcb_table'[at[v]] = tcb_table[at[v]]
    BY Zenon, <1>5, <2>1, <2>2 DEF JoinOk
  <2> QED BY Zenon, <2>1, <2>3, <2>4, <2>5 DEF JoinOk
<1> QED BY Zenon, <1>8, <1>9, <1>10, <1>11, <1>12, <1>13, <1>14, <1>15 DEF IInv

-------------------------------------------------------------------------------
(* The reaper of detached threads, which pthread_create and pthread_detach call. *)

(* The reaper's waitpid takes tasks that have exited, and only those. *)
LEMMA WaitedForFacts ==
  ASSUME IInv, NEW t \in Thread, NEW tbl
  PROVE  /\ WaitedFor(t, tbl) \in [Thread -> {"none", "live", "zombie", "gone"}]
         /\ \A v \in Thread : /\ WaitedFor(t, tbl)[v] = "none" <=> task[v] = "none"
                              /\ WaitedFor(t, tbl)[v] = "live" <=> task[v] = "live"
BY Zenon DEF WaitedFor, IInv, TypeOK

(* The reaper clears entries of threads that have ended, and that nobody joins. *)
LEMMA ReapedFacts ==
  ASSUME IInv, NEW tbl \in [Slot -> Tcb]
  PROVE  /\ Reaped(tbl) \in [Slot -> Tcb]
         /\ \A s \in Slot :
              IF s \in Reapable(tbl)
              THEN /\ Reaped(tbl)[s].tid = NULL /\ Reaped(tbl)[s].state = "unused"
                   /\ Reaped(tbl)[s].stack_base = NULL
                   /\ tbl[s].state = "exited" /\ tbl[s].detached
              ELSE Reaped(tbl)[s] = tbl[s]
BY Zenon, ClearedFacts DEF Reaped, Reapable

(* reap_detached_zombies_locked keeps the invariant: it frees no entry that a thread or a join
   still uses. *)
LEMMA ReapStep ==
  ASSUME IInv, global_lock = NULL, NEW t \in Thread, NEW tbl \in [Slot -> Tcb],
         \A s \in Slot : /\ tbl[s].state = tcb_table[s].state /\ tbl[s].tid = tcb_table[s].tid
                         /\ tbl[s].retval = tcb_table[s].retval
                         /\ tbl[s].stack_base = tcb_table[s].stack_base,
         \A v \in Thread : Joining(v) => ~tbl[at[v]].detached,
         tcb_table' = Reaped(tbl), task' = WaitedFor(t, tbl),
         UNCHANGED <<global_lock, pc, at, peer, reaped, retval, parent, on>>
  PROVE  IInv'
<1> DEFINE E == Reapable(tbl)
<1>1. /\ tcb_table' \in [Slot -> Tcb]
      /\ \A s \in Slot \ E : tcb_table'[s] = tbl[s]
      /\ \A s \in Slot : s \in E =>
           /\ tcb_table'[s].tid = NULL /\ tcb_table'[s].state = "unused"
           /\ tcb_table'[s].stack_base = NULL
           /\ tcb_table[s].state = "exited" /\ tbl[s].detached
  BY Zenon, ReapedFacts
<1> HIDE DEF E
<1>2. TypeOK' /\ TaskInv'
  <2>1. /\ task' \in [Thread -> {"none", "live", "zombie", "gone"}]
        /\ \A v \in Thread : /\ task'[v] = "none" <=> task[v] = "none"
                             /\ task'[v] = "live" <=> task[v] = "live"
    BY SMTT(20), WaitedForFacts
  <2>2. TypeOK'
    BY Zenon, <1>1, <2>1 DEF IInv, TypeOK
  <2>3. TaskInv'
    BY Zenon, <2>1 DEF IInv, TaskInv
  <2> QED BY Zenon, <2>2, <2>3
<1>3. LockInv' /\ PeerInv'
  BY Zenon DEF IInv, LockInv, PeerInv
<1>4. CloneInv'
  BY Zenon, Constants DEF IInv, LockInv, CloneInv
<1>5. SlotInv'
  <2> SUFFICES ASSUME NEW s \in Slot PROVE SlotOk(s)'
    BY Zenon DEF SlotInv
  <2>1. SlotOk(s)
    BY Zenon DEF IInv, SlotInv
  <2>2. CASE s \in E
    BY Zenon, <1>1, <2>2 DEF SlotOk
  <2>3. CASE s \notin E
    <3>1. /\ tcb_table'[s].state = tcb_table[s].state /\ tcb_table'[s].tid = tcb_table[s].tid
          /\ tcb_table'[s].retval = tcb_table[s].retval
          /\ tcb_table'[s].stack_base = tcb_table[s].stack_base
      <4>1. tcb_table'[s] = tbl[s]
        BY Zenon, <1>1, <2>3
      <4> QED BY Zenon, <4>1
    <3> QED BY Zenon, <2>1, <3>1 DEF SlotOk
  <2> QED BY Zenon, <2>2, <2>3
<1>6. TidInv'
  <2> SUFFICES ASSUME NEW s \in Slot, NEW r \in Slot,
                      tcb_table'[s].tid # NULL, tcb_table'[s].tid = tcb_table'[r].tid
               PROVE  s = r
    BY Zenon DEF TidInv
  <2>1. s \notin E /\ r \notin E
    BY Zenon, <1>1
  <2>2. tcb_table'[s].tid = tcb_table[s].tid /\ tcb_table'[r].tid = tcb_table[r].tid
    <3>1. tcb_table'[s] = tbl[s] /\ tcb_table'[r] = tbl[r]
      BY Zenon, <1>1, <2>1
    <3> QED BY Zenon, <3>1
  <2> QED BY Zenon, <2>2 DEF IInv, TidInv
<1>7. ActiveInv'
  <2> SUFFICES ASSUME NEW v \in Active' PROVE ActiveOk(v)'
    BY Zenon DEF ActiveInv
  <2>1. v \in Active /\ ActiveOk(v) /\ v \in Thread
    BY Zenon DEF IInv, ActiveInv, Active
  <2>2. \A s \in Slot : tcb_table[s].state = "running" => tcb_table'[s] = tbl[s]
    BY Zenon, <1>1
  <2>3. pc[v] = "exit" => tcb_table[at[v]].state = "running"
    BY ZenonT(40), <2>1, Constants DEF ActiveOk, IInv, TidInv
  <2> QED BY ZenonT(40), <2>1, <2>2, <2>3 DEF ActiveOk, EntryOf
<1>8. JoinInv'
  <2> SUFFICES ASSUME NEW v \in Thread, Joining(v) PROVE JoinOk(v)'
    BY Zenon DEF JoinInv, Joining
  <2>1. JoinOk(v) /\ at[v] \in Slot
    BY Zenon DEF IInv, JoinInv, JoinOk
  <2>2. tcb_table'[at[v]] = tbl[at[v]]
    BY Zenon, <1>1, <2>1
  <2> QED BY Zenon, <2>1, <2>2 DEF JoinOk
<1> QED BY Zenon, <1>2, <1>3, <1>4, <1>5, <1>6, <1>7, <1>8 DEF IInv

(* A pthread_create that fails keeps the invariant. *)
LEMMA CreateFailsStep ==
  ASSUME IInv, NEW t \in Thread, CreateFails(t)
  PROVE  IInv'
<1>1. /\ tcb_table' = Reaped(tcb_table) /\ task' = WaitedFor(t, tcb_table)
      /\ UNCHANGED <<global_lock, pc, at, peer, reaped, retval, parent, on>>
      /\ global_lock = NULL
  BY Zenon DEF CreateFails, localVars
<1>2. tcb_table \in [Slot -> Tcb]
  BY Zenon DEF IInv, TypeOK
<1>3. \A v \in Thread : Joining(v) => ~tcb_table[at[v]].detached
  BY Zenon DEF IInv, JoinInv, JoinOk
<1> QED BY Zenon, <1>1, <1>2, <1>3, ReapStep

(* pthread_detach keeps the invariant: nobody joins the thread it names. *)
LEMMA DetachStep ==
  ASSUME IInv, NEW t \in Thread, NEW u \in Thread, Detach(t, u)
  PROVE  IInv'
<1> DEFINE a == First(Found(u))
           tbl == [tcb_table EXCEPT ![a].detached = TRUE]
<1>1. /\ tcb_table' = Reaped(tbl) /\ task' = WaitedFor(t, tbl)
      /\ UNCHANGED <<global_lock, pc, at, peer, reaped, retval, parent, on>>
      /\ global_lock = NULL /\ Callable(u) /\ Found(u) # {}
  BY Zenon DEF Detach, localVars
<1>2. tcb_table \in [Slot -> Tcb]
  BY Zenon DEF IInv, TypeOK
<1>3. a \in Slot /\ tcb_table[a].tid = u
  <2>1. Found(u) \subseteq Slot
    BY Zenon DEF Found
  <2>2. a \in Found(u)
    BY Zenon, <1>1, <2>1, FirstFacts
  <2> QED BY Zenon, <2>2 DEF Found
<1> HIDE DEF a
<1>4. /\ tcb_table[a] \in Tcb
      /\ tbl = [tcb_table EXCEPT ![a] = [tcb_table[a] EXCEPT !.detached = TRUE]]
  BY Zenon, <1>2, <1>3
<1>5. /\ tbl \in [Slot -> Tcb]
      /\ \A s \in Slot \ {a} : tbl[s] = tcb_table[s]
      /\ tbl[a] = [tcb_table[a] EXCEPT !.detached = TRUE]
  BY Zenon, <1>2, <1>3, <1>4, SetDetached
<1> HIDE DEF tbl
<1>6. \A s \in Slot : /\ tbl[s].state = tcb_table[s].state /\ tbl[s].tid = tcb_table[s].tid
                      /\ tbl[s].retval = tcb_table[s].retval
                      /\ tbl[s].stack_base = tcb_table[s].stack_base
  BY <1>4, <1>5, SetDetached
<1>7. ASSUME NEW v \in Thread, Joining(v)
      PROVE  ~tbl[at[v]].detached
  <2>1. JoinOk(v) /\ peer[v] # u
    BY Zenon, <1>1, <1>7 DEF IInv, JoinInv, Callable
  <2>2. at[v] # a
    BY Zenon, <1>3, <2>1 DEF JoinOk
  <2> QED BY Zenon, <1>5, <2>1, <2>2 DEF JoinOk
<1> QED BY Zenon, <1>1, <1>5, <1>6, <1>7, ReapStep

(* pthread_create up to clone keeps the invariant: the entry it takes is free. *)
LEMMA CreateStep ==
  ASSUME IInv, NEW t \in Thread, NEW u \in Thread, NEW st \in Stack, NEW d \in BOOLEAN,
         Create(t, u, st, d)
  PROVE  IInv'
<1> DEFINE tbl == Reaped(tcb_table)
           a == First(FreeSlots(tbl))
           E == Reapable(tcb_table)
           entry == [state |-> "running", detached |-> d, tid |-> NULL,
                     retval |-> NULL, stack_base |-> st]
<1>1. /\ pc[t] = "run" /\ global_lock = NULL /\ global_lock' = t
      /\ FreeSlots(tbl) # {}
      /\ tcb_table' = [tbl EXCEPT ![a] = entry]
      /\ pc' = [pc EXCEPT ![t] = "cloned", ![u] = "entry"]
      /\ at' = [at EXCEPT ![t] = a, ![u] = a]
      /\ peer' = [peer EXCEPT ![t] = u]
      /\ WaitedFor(t, tcb_table)[u] = "none"
      /\ task' = [WaitedFor(t, tcb_table) EXCEPT ![u] = "live"]
      /\ parent' = [parent EXCEPT ![u] = WaitRoot(t)]
      /\ on' = [on EXCEPT ![u] = st]
      /\ UNCHANGED <<reaped, retval>>
  BY Zenon DEF Create, Clone
<1>2. /\ tbl \in [Slot -> Tcb]
      /\ \A s \in Slot \ E : tbl[s] = tcb_table[s]
      /\ \A s \in Slot : s \in E =>
           /\ tbl[s].tid = NULL /\ tbl[s].state = "unused" /\ tbl[s].stack_base = NULL
           /\ tcb_table[s].state = "exited" /\ tcb_table[s].detached
  BY Zenon, ReapedFacts DEF IInv, TypeOK
<1>3. a \in Slot /\ tbl[a].state = "unused"
  <2>1. FreeSlots(tbl) \subseteq Slot
    BY Zenon DEF FreeSlots
  <2>2. a \in FreeSlots(tbl)
    BY Zenon, <1>1, <2>1, FirstFacts
  <2> QED BY Zenon, <2>2 DEF FreeSlots
<1>4. entry \in Tcb /\ entry.state = "running" /\ entry.tid = NULL /\ entry.retval = NULL
      /\ entry.stack_base = st
  BY Zenon DEF Tcb
<1> HIDE DEF tbl, a, E, entry
<1>5. tcb_table'[a] = entry /\ tcb_table' \in [Slot -> Tcb]
      /\ \A s \in Slot \ {a} : tcb_table'[s] = tbl[s]
  BY Zenon, <1>1, <1>2, <1>3, <1>4
<1>6. ASSUME NEW s \in Slot, tcb_table[s].state = "running"
      PROVE  s # a /\ tcb_table'[s] = tcb_table[s]
  BY Zenon, <1>2, <1>3, <1>5, <1>6
<1>7. /\ WaitedFor(t, tcb_table) \in [Thread -> {"none", "live", "zombie", "gone"}]
      /\ \A v \in Thread : /\ WaitedFor(t, tcb_table)[v] = "none" <=> task[v] = "none"
                           /\ WaitedFor(t, tcb_table)[v] = "live" <=> task[v] = "live"
  BY Zenon, WaitedForFacts
<1>8. pc[u] = "none" /\ u # t /\ u # Main
  BY Zenon, <1>1, <1>7 DEF IInv, TaskInv, LockInv
<1>9. /\ pc'[t] = "cloned" /\ pc'[u] = "entry" /\ at'[t] = a /\ at'[u] = a /\ peer'[t] = u
      /\ on'[u] = st
      /\ \A v \in Thread \ {t, u} : pc'[v] = pc[v] /\ at'[v] = at[v]
      /\ \A v \in Thread \ {t} : peer'[v] = peer[v]
      /\ \A v \in Thread \ {u} : on'[v] = on[v]
  BY Zenon, <1>1, <1>8 DEF IInv, TypeOK
<1>10. \A s \in Slot : tcb_table[s].tid \in Thread \cup {NULL} /\ tcb_table[s].tid # u
  <2> TAKE s \in Slot
  <2>1. tcb_table[s] \in Tcb
    BY Zenon DEF IInv, TypeOK
  <2>2. tcb_table[s].tid \in Thread \cup {NULL}
    BY Zenon, <2>1 DEF Tcb
  <2>3. SlotOk(s)
    BY Zenon DEF IInv, SlotInv
  <2>4. u # NULL
    BY Zenon, Constants
  <2>5. tcb_table[s].tid # u
    BY Zenon, <1>8, <2>3, <2>4 DEF SlotOk
  <2> QED BY Zenon, <2>2, <2>5
<1>11. \A v \in Thread : pc[v] # "cloned"
  BY Zenon, <1>1, Constants DEF IInv, LockInv
<1>12. TypeOK'
  <2>1. WaitRoot(t) \in Thread \cup {Outside}
    BY Zenon DEF WaitRoot
  <2> QED BY Zenon, <1>1, <1>3, <1>5, <1>7, <2>1 DEF IInv, TypeOK
<1>13. TaskInv'
  <2> SUFFICES ASSUME NEW v \in Thread
               PROVE  /\ task'[v] = "none" <=> pc'[v] = "none"
                      /\ task'[v] = "live" <=> pc'[v] \notin {"none", "dead"}
    BY Zenon DEF TaskInv
  <2>1. CASE v = u
    BY Zenon, <1>1, <1>7, <1>9, <2>1
  <2>2. CASE v # u
    <3>1. task'[v] = WaitedFor(t, tcb_table)[v]
      BY Zenon, <1>1, <1>7, <2>2
    <3>2. /\ task'[v] = "none" <=> task[v] = "none"
          /\ task'[v] = "live" <=> task[v] = "live"
      BY Zenon, <1>7, <3>1
    <3>3. CASE v = t
      BY Zenon, <1>1, <1>9, <3>2, <3>3 DEF IInv, TaskInv
    <3>4. CASE v # t
      <4>1. pc'[v] = pc[v]
        BY Zenon, <1>9, <2>2, <3>4
      <4> QED BY Zenon, <3>2, <4>1 DEF IInv, TaskInv
    <3> QED BY Zenon, <3>3, <3>4
  <2> QED BY Zenon, <2>1, <2>2
<1>14. LockInv'
  BY ZenonT(40), <1>1, <1>8, <1>9, <1>11, Constants DEF IInv, LockInv
<1>15. CloneInv'
  <2> SUFFICES ASSUME NEW v \in Thread, pc'[v] = "cloned" PROVE CloneOk(v)'
    BY Zenon DEF CloneInv
  <2>1. v = t
    BY Zenon, <1>9, <1>11
  <2>2. \A s \in Slot \ {a} : tcb_table'[s].tid # u
    BY <1>2, <1>5, <1>10, Constants
  <2> QED BY Zenon, <1>3, <1>4, <1>5, <1>8, <1>9, <2>1, <2>2 DEF CloneOk
<1>16. SlotInv'
  <2> SUFFICES ASSUME NEW s \in Slot PROVE SlotOk(s)'
    BY Zenon DEF SlotInv
  <2>1. SlotOk(s)
    BY Zenon DEF IInv, SlotInv
  <2>2. CASE s = a
    BY Zenon, <1>1, <1>4, <1>5, <1>9, <2>2, Constants DEF SlotOk
  <2>3. CASE s # a /\ s \in E
    BY Zenon, <1>2, <1>5, <2>3 DEF SlotOk
  <2>4. CASE s # a /\ s \notin E
    <3>1. tcb_table'[s] = tcb_table[s]
      BY Zenon, <1>2, <1>5, <2>4
    <3>2. tcb_table[s].state # "unused" => tcb_table[s].tid # NULL
      BY Zenon, <1>1, <2>1 DEF SlotOk
    <3>3. tcb_table[s].tid # NULL =>
            /\ on'[tcb_table[s].tid] = on[tcb_table[s].tid]
            /\ pc'[tcb_table[s].tid] = pc[tcb_table[s].tid] \/ tcb_table[s].tid = t
      BY Zenon, <1>9, <1>10
    <3>4. tcb_table[s].tid = t => tcb_table[s].state # "exited"
      BY Zenon, <1>1, <2>1 DEF SlotOk
    <3>5. tcb_table[s].tid # NULL =>
            /\ pc'[tcb_table[s].tid] # "none"
            /\ tcb_table[s].state = "running" => pc'[tcb_table[s].tid] # "dying"
      BY Zenon, <1>9, <2>1, <3>3 DEF SlotOk
    <3>6. tcb_table[s].state = "exited" => pc'[tcb_table[s].tid] \in {"dying", "dead"}
      BY Zenon, <2>1, <3>3, <3>4 DEF SlotOk
    <3>7. retval' = retval
      BY Zenon, <1>1
    <3> QED BY Zenon, <2>1, <3>1, <3>2, <3>3, <3>5, <3>6, <3>7 DEF SlotOk
  <2> QED BY Zenon, <2>2, <2>3, <2>4
<1>17. TidInv'
  <2> SUFFICES ASSUME NEW s \in Slot, NEW r \in Slot,
                      tcb_table'[s].tid # NULL, tcb_table'[s].tid = tcb_table'[r].tid
               PROVE  s = r
    BY Zenon DEF TidInv
  <2>1. s # a /\ r # a /\ s \notin E /\ r \notin E
    BY <1>2, <1>4, <1>5
  <2> QED BY <1>2, <1>5, <2>1 DEF IInv, TidInv
<1>18. ActiveInv'
  <2> SUFFICES ASSUME NEW v \in Active' PROVE ActiveOk(v)'
    BY Zenon DEF ActiveInv
  <2>1. CASE v = u
    <3>1. t # NULL
      BY Zenon, Constants
    <3>2. tcb_table'[a].tid = NULL /\ tcb_table'[a].state = "running"
          /\ tcb_table'[a].stack_base = on'[u]
      BY Zenon, <1>4, <1>5, <1>9
    <3>3. EntryOf(at[u], u)'
      BY Zenon, <1>1, <1>9, <3>1, <3>2 DEF EntryOf
    <3>4. pc'[u] = "entry" /\ at'[u] \in Slot /\ at'[u] = a
      BY Zenon, <1>3, <1>9
    <3> QED BY Zenon, <2>1, <3>2, <3>3, <3>4 DEF ActiveOk
  <2>2. CASE v = t
    <3>1. v \in Active /\ ActiveOk(v)
      BY Zenon, <1>1, <2>2 DEF IInv, ActiveInv, Active
    <3>2. PICK s \in Slot : tcb_table[s].tid = v /\ tcb_table[s].state = "running"
      BY Zenon, <1>1, <2>2, <3>1 DEF ActiveOk
    <3>3. tcb_table'[s] = tcb_table[s]
      BY Zenon, <1>6, <3>2
    <3> QED BY Zenon, <1>9, <2>2, <3>2, <3>3 DEF ActiveOk
  <2>3. CASE v # u /\ v # t
    <3>1. v \in Active /\ ActiveOk(v) /\ v \in Thread /\ pc'[v] = pc[v] /\ at'[v] = at[v]
          /\ on'[v] = on[v]
      BY Zenon, <1>9, <2>3 DEF IInv, ActiveInv, Active
    <3>2. pc[v] = "entry" => at[v] \in Slot /\ tcb_table[at[v]].tid = v
      BY Zenon, <1>1, <3>1 DEF ActiveOk, EntryOf
    <3>3. pc[v] = "exit" => tcb_table[at[v]].state = "running"
      BY Zenon, <3>1, Constants DEF ActiveOk, IInv, TidInv
    <3> QED BY Zenon, <1>6, <3>1, <3>2, <3>3 DEF ActiveOk, EntryOf
  <2> QED BY Zenon, <2>1, <2>2, <2>3
<1>19. PeerInv'
  <2>1. \A v \in Thread : peer[v] \in Thread \cup {NULL} /\ peer[v] # u
    BY Zenon, <1>8, Constants DEF IInv, TypeOK, PeerInv
  <2>2. \A v \in Thread : peer'[v] # NULL => pc'[peer'[v]] # "none"
    <3> SUFFICES ASSUME NEW v \in Thread, peer'[v] # NULL PROVE pc'[peer'[v]] # "none"
      BY Zenon
    <3>1. CASE v = t
      BY Zenon, <1>9, <3>1
    <3>2. CASE v # t
      <4>1. peer'[v] = peer[v] /\ peer[v] \in Thread /\ peer[v] # u
        BY Zenon, <1>9, <2>1, <3>2
      <4>2. pc[peer[v]] # "none"
        BY Zenon, <4>1 DEF IInv, PeerInv
      <4>3. pc'[peer[v]] = pc[peer[v]] \/ peer[v] = t
        BY Zenon, <1>9, <4>1
      <4> QED BY Zenon, <1>9, <4>1, <4>2, <4>3
    <3> QED BY Zenon, <3>1, <3>2
  <2>3. ASSUME NEW w \in Thread, NEW x \in Thread, peer'[w] # NULL, peer'[w] = peer'[x]
        PROVE  w = x
    <3>0. peer'[t] = u /\ \A v \in Thread : v # t => peer'[v] = peer[v] /\ peer'[v] # u
      BY Zenon, <1>9, <2>1
    <3>1. CASE w = t \/ x = t
      BY Zenon, <2>3, <3>0, <3>1
    <3>2. CASE w # t /\ x # t
      <4>1. peer[w] # NULL /\ peer[w] = peer[x]
        BY Zenon, <2>3, <3>0, <3>2
      <4>2. PeerInv
        BY Zenon DEF IInv
      <4> QED BY Zenon, <4>1, <4>2 DEF PeerInv
    <3> QED BY Zenon, <3>1, <3>2
  <2> QED BY Zenon, <2>2, <2>3 DEF PeerInv
<1>20. JoinInv'
  <2> SUFFICES ASSUME NEW v \in Thread, Joining(v)' PROVE JoinOk(v)'
    BY Zenon DEF JoinInv
  <2>1. v # t /\ v # u /\ Joining(v) /\ JoinOk(v)
    BY Zenon, <1>9 DEF Joining, IInv, JoinInv
  <2>2. at[v] \in Slot /\ tcb_table[at[v]].tid = peer[v] /\ peer[v] \in Thread /\ peer[v] # u
    BY Zenon, <1>10, <2>1 DEF JoinOk
  <2>3. at[v] \notin E
    BY Zenon, <1>2, <2>1, <2>2 DEF JoinOk
  <2>4. tcb_table[at[v]].state # "unused"
    BY SMTT(20), <2>2, Constants DEF IInv, SlotInv, SlotOk
  <2>5. at[v] # a
    BY Zenon, <1>2, <1>3, <2>2, <2>3, <2>4
  <2>6. tcb_table'[at[v]] = tcb_table[at[v]]
    BY Zenon, <1>2, <1>5, <2>2, <2>3, <2>5
  <2>7. pc[peer[v]] \in {"dying", "dead"} => pc'[peer[v]] \in {"dying", "dead"}
    BY Zenon, <1>1, <1>9, <2>2
  <2> QED BY Zenon, <1>9, <2>1, <2>6, <2>7 DEF JoinOk
<1> QED BY Zenon, <1>12, <1>13, <1>14, <1>15, <1>16, <1>17, <1>18, <1>19, <1>20 DEF IInv

-------------------------------------------------------------------------------
(* The steps together. *)
LEMMA NextIInv ==
  ASSUME IInv, [Next]_vars
  PROVE  IInv'
<1>1. CASE UNCHANGED vars
  <2>1. UNCHANGED <<tcb_table, global_lock, pc, at, peer, reaped, retval, task, parent, on>>
    BY Zenon, <1>1 DEF vars, lockVars, localVars, kernelVars
  <2>2. TypeOK' /\ TaskInv' /\ LockInv'
    BY Zenon, <2>1 DEF IInv, TypeOK, TaskInv, LockInv
  <2>3. CloneInv' /\ TidInv'
    BY Zenon, <2>1 DEF IInv, CloneInv, CloneOk, TidInv
  <2>4. SlotInv'
    BY Zenon, <2>1 DEF IInv, SlotInv, SlotOk
  <2>5. ActiveInv'
    <3>1. Active' = Active
      BY Zenon, <2>1 DEF Active
    <3>2. \A v : ActiveOk(v)' <=> ActiveOk(v)
      BY Zenon, <2>1 DEF ActiveOk, EntryOf
    <3> QED BY Zenon, <3>1, <3>2 DEF IInv, ActiveInv
  <2>6. PeerInv' /\ JoinInv'
    BY Zenon, <2>1 DEF IInv, PeerInv, JoinInv, JoinOk, Joining
  <2> QED BY Zenon, <2>2, <2>3, <2>4, <2>5, <2>6 DEF IInv
<1>2. CASE Next
  <2>1. PICK t \in Thread : Advance(t) \/ Call(t) \/ Kill(t) \/ OutsideReaps(t)
    BY Zenon, <1>2 DEF Next
  <2>2. CASE Advance(t)
    <3>1. CASE Die(t)
      <4>1. Dies(t) /\ pc[t] = "dying"
        BY Zenon, <3>1 DEF Die
      <4>2. task[t] = "live" /\ global_lock # t
        BY Zenon, <4>1 DEF IInv, TaskInv, LockInv
      <4> QED BY Zenon, <4>1, <4>2, DiesStep
    <3> QED BY Zenon, <2>2, <3>1, CreatedStep, EntryStep, ExitedStep, JoinCheckStep, JoinWaitStep,
            JoinLastWaitStep, JoinFreeStep DEF Advance
  <2>3. CASE Call(t)
    <3>1. CASE \E u \in Thread, st \in Stack, d \in BOOLEAN : Create(t, u, st, d)
      BY Zenon, <3>1, CreateStep
    <3>2. CASE \E u \in Thread : Detach(t, u) \/ Join(t, u)
      BY Zenon, <3>2, DetachStep, JoinStep
    <3>3. CASE \E v \in Value : Exit(t, v)
      BY Zenon, <3>3, ExitStep
    <3> QED BY Zenon, <2>3, <3>1, <3>2, <3>3, CreateFailsStep DEF Call
  <2>4. CASE Kill(t)
    BY Zenon, <2>4, DiesStep DEF Kill
  <2> QED BY Zenon, <2>1, <2>2, <2>3, <2>4, OutsideReapsStep
<1> QED BY Zenon, <1>1, <1>2

(* IInv holds in every state of every program. *)
THEOREM Invariance == Spec => []IInv
<1>1. Init => IInv
  BY Zenon, InitIInv
<1>2. IInv /\ [Next]_vars => IInv'
  BY Zenon, NextIInv
<1> QED BY <1>1, <1>2, PTL DEF Spec

(* A thread keeps its entry and its stack in tcb_table until pthread_exit has published its
   result, however many threads there are and whatever they call. *)
THEOREM TcbSafe == Spec => []TcbOwned
<1>1. IInv => TcbOwned
  <2> SUFFICES ASSUME IInv, NEW t \in Active
               PROVE  \E s \in Slot :
                        /\ tcb_table[s].state = "running"
                        /\ tcb_table[s].stack_base = on[t]
                        /\ \/ Found(t) = {s}
                           \/ global_lock # NULL /\ peer[global_lock] = t /\ Found(t) = {}
    BY Zenon DEF TcbOwned
  <2>1. t \in Thread /\ t # NULL /\ ActiveOk(t)
    BY Zenon, Constants DEF IInv, ActiveInv, Active
  <2>2. ASSUME NEW s \in Slot, tcb_table[s].tid = t, tcb_table[s].state = "running"
        PROVE  tcb_table[s].stack_base = on[t] /\ Found(t) = {s}
    <3>1. SlotOk(s)
      BY Zenon DEF IInv, SlotInv
    <3>2. tcb_table[s].stack_base = on[t]
      BY Zenon, <2>1, <2>2, <3>1 DEF SlotOk
    <3>3. \A r \in Slot : tcb_table[r].tid = t => r = s
      BY Zenon, <2>1, <2>2 DEF IInv, TidInv
    <3> QED BY Zenon, <2>2, <3>2, <3>3 DEF Found, Used
  <2>3. CASE pc[t] # "entry"
    BY Zenon, <2>1, <2>2, <2>3 DEF ActiveOk
  <2>4. CASE pc[t] = "entry" /\ tcb_table[at[t]].tid = t
    BY Zenon, <2>1, <2>2, <2>4 DEF ActiveOk
  <2>5. CASE pc[t] = "entry" /\ tcb_table[at[t]].tid # t
    <3>1. /\ at[t] \in Slot /\ tcb_table[at[t]].tid = NULL
          /\ global_lock # NULL /\ at[global_lock] = at[t] /\ peer[global_lock] = t
          /\ tcb_table[at[t]].state = "running" /\ tcb_table[at[t]].stack_base = on[t]
      BY Zenon, <2>1, <2>5 DEF ActiveOk, EntryOf
    <3>2. global_lock \in Thread
      BY Zenon, <3>1 DEF IInv, TypeOK
    <3>3. CloneOk(global_lock)
      BY Zenon, <3>2 DEF IInv, LockInv, CloneInv
    <3>4. Found(t) = {}
      BY Zenon, <2>1, <3>1, <3>3 DEF CloneOk, Found
    <3> QED BY Zenon, <3>1, <3>4
  <2> QED BY Zenon, <2>3, <2>4, <2>5
<1> QED BY <1>1, Invariance, PTL

(* pthread_join frees the entry of the thread it was called for, and gives the result that
   this thread published. *)
THEOREM JoinSafe == Spec => []JoinSettled
<1>1. IInv => JoinSettled
  <2> SUFFICES ASSUME IInv, NEW t \in Thread, pc[t] = "free"
               PROVE  /\ tcb_table[at[t]].tid = peer[t]
                      /\ tcb_table[at[t]].stack_base = on[peer[t]]
                      /\ pc[peer[t]] \in {"dying", "dead"}
                      /\ tcb_table[at[t]].retval = IF tcb_table[at[t]].state = "exited"
                                                   THEN retval[peer[t]] ELSE NULL
    BY Zenon DEF JoinSettled
  <2>1. JoinOk(t)
    BY Zenon DEF IInv, JoinInv, Joining
  <2>2. at[t] \in Slot /\ tcb_table[at[t]].tid = peer[t] /\ peer[t] # NULL
        /\ pc[peer[t]] \in {"dying", "dead"}
    BY Zenon, <2>1, Constants DEF JoinOk
  <2>3. SlotOk(at[t]) /\ tcb_table[at[t]] \in Tcb
    BY Zenon, <2>2 DEF IInv, SlotInv, TypeOK
  <2>4. tcb_table[at[t]].state \in {"unused", "running", "exited"}
    BY Zenon, <2>3 DEF Tcb
  <2> QED BY Zenon, <2>2, <2>3, <2>4 DEF SlotOk
<1> QED BY <1>1, Invariance, PTL

--------------------------------------------------------------------------------
(* Stacks, in a program that detaches no thread, handles no signal and does not leave main
   early: Main lives, all threads are its children, and the entry of a thread stays until
   its task is gone. *)

MainInv ==
  task[Main] = "live" /\ parent[Main] = Outside /\ on[Main] = NULL /\ pc[Main] # "dying"

NoDetached == \A s \in Slot : ~tcb_table[s].detached

(* No stack is in two entries. *)
BaseInv ==
  \A s, r \in Slot :
    tcb_table[s].stack_base # NULL /\ tcb_table[s].stack_base = tcb_table[r].stack_base => s = r

ChildInv ==
  \A t \in Thread \ {Main} : pc[t] # "none" => parent[t] = Main /\ on[t] \in Stack

HasEntry(t) == \E s \in Slot : EntryOf(s, t) /\ tcb_table[s].stack_base = on[t]
KeptInv == \A t \in Thread \ {Main} : task[t] \in {"live", "zombie"} => HasEntry(t)

(* When pthread_join frees, or goes on with reaped set, the task is gone. *)
GoneOk(t) ==
  (pc[t] = "free" \/ (pc[t] = "check" /\ reaped[t])) => task[peer[t]] = "gone"
GoneInv == \A t \in Thread : GoneOk(t)

StackInv == MainInv /\ NoDetached /\ BaseInv /\ ChildInv /\ KeptInv /\ GoneInv

(* Steps that leave the table, but for states and results, and the lock alone. *)
LEMMA StackFrame ==
  ASSUME IInv, StackInv, NEW t \in Thread, global_lock # t,
         UNCHANGED <<global_lock, on, parent>>,
         \A s \in Slot : /\ tcb_table'[s].tid = tcb_table[s].tid
                         /\ tcb_table'[s].stack_base = tcb_table[s].stack_base
                         /\ tcb_table'[s].detached = tcb_table[s].detached,
         \A v \in Thread \ {t} : /\ pc'[v] = pc[v] /\ at'[v] = at[v]
                                 /\ peer'[v] = peer[v] /\ reaped'[v] = reaped[v],
         \A v \in Thread : task'[v] = task[v] \/ (task[v] = "zombie" /\ task'[v] = "gone"),
         pc[t] # "none", t = Main => pc'[t] # "dying", GoneOk(t)'
  PROVE  StackInv'
<1>1. MainInv'
  BY Zenon, Constants DEF StackInv, MainInv
<1>2. NoDetached' /\ BaseInv'
  BY DEF StackInv, NoDetached, BaseInv
<1>3. ChildInv'
  BY Zenon DEF StackInv, ChildInv
<1>4. ASSUME NEW v \in Thread \ {Main}, task'[v] \in {"live", "zombie"}
      PROVE  HasEntry(v)'
  <2>1. PICK s \in Slot : EntryOf(s, v) /\ tcb_table[s].stack_base = on[v]
    BY Zenon, <1>4 DEF StackInv, KeptInv, HasEntry
  <2>2. global_lock # NULL =>
          at'[global_lock] = at[global_lock] /\ peer'[global_lock] = peer[global_lock]
    BY Zenon DEF IInv, TypeOK
  <2>3. EntryOf(s, v)'
    BY Zenon, <2>1, <2>2 DEF EntryOf
  <2> QED BY Zenon, <2>1, <2>3 DEF HasEntry
<1>5. ASSUME NEW v \in Thread PROVE GoneOk(v)'
  <2>1. CASE v # t
    <3>1. pc'[v] = pc[v] /\ reaped'[v] = reaped[v] /\ peer'[v] = peer[v]
      BY Zenon, <2>1
    <3> SUFFICES ASSUME pc[v] = "free" \/ (pc[v] = "check" /\ reaped[v])
                 PROVE  task'[peer[v]] = "gone"
      BY Zenon, <3>1 DEF GoneOk
    <3>2. peer[v] \in Thread
      BY Zenon DEF IInv, JoinInv, Joining, JoinOk
    <3>3. task[peer[v]] = "gone"
      BY Zenon DEF StackInv, GoneInv, GoneOk
    <3> QED BY Zenon, <3>2, <3>3
  <2> QED BY Zenon, <2>1
<1> QED BY Zenon, <1>1, <1>2, <1>3, <1>4, <1>5 DEF StackInv, KeptInv, GoneInv

(* With Main alive all threads wait for the same children. *)
LEMMA OneRoot ==
  ASSUME IInv, StackInv, NEW t \in Thread, pc[t] # "none"
  PROVE  WaitRoot(t) = Main
BY Zenon, Constants DEF StackInv, MainInv, ChildInv, WaitRoot

(* Without detached threads the reaper does nothing. *)
LEMMA NothingReaped ==
  ASSUME IInv, StackInv, NEW t \in Thread
  PROVE  Reaped(tcb_table) = tcb_table /\ WaitedFor(t, tcb_table) = task
<1>1. Reapable(tcb_table) = {}
  BY Zenon DEF StackInv, NoDetached, Reapable
<1>2. Reaped(tcb_table) = tcb_table
  BY Zenon, <1>1 DEF Reaped, IInv, TypeOK
<1>3. WaitedFor(t, tcb_table) = task
  BY Zenon, <1>1 DEF WaitedFor, IInv, TypeOK
<1> QED BY Zenon, <1>2, <1>3

(* What waitpid of pthread_join leaves behind. *)
LEMMA WaitGone ==
  ASSUME IInv, StackInv, NEW t \in Thread, Joining(t), Use \subseteq {"kill"},
         WaitReaps(t) \/ NoChild(t) \/ Interrupted(t)
  PROVE  /\ task'[peer[t]] = "gone"
         /\ \A v \in Thread : task'[v] = task[v] \/ (task[v] = "zombie" /\ task'[v] = "gone")
<1>1. ~Interrupted(t)
  BY Zenon DEF Interrupted
<1>2. peer[t] \in Thread /\ tcb_table[at[t]].tid = peer[t] /\ at[t] \in Slot
  BY Zenon DEF IInv, JoinInv, JoinOk
<1>3. peer[t] # Main /\ pc[peer[t]] # "none"
  <2>1. SlotOk(at[t])
    BY Zenon, <1>2 DEF IInv, SlotInv
  <2> QED BY Zenon, <1>2, <2>1, Constants DEF SlotOk
<1>4. CASE WaitReaps(t)
  BY Zenon, <1>2, <1>4 DEF WaitReaps, IInv, TypeOK
<1>5. CASE NoChild(t)
  <2>1. parent[peer[t]] = Main /\ WaitRoot(t) = Main
    BY Zenon, <1>2, <1>3, OneRoot DEF StackInv, ChildInv, Joining
  <2>2. task[peer[t]] \notin {"live", "zombie"} /\ task' = task
    BY Zenon, <1>2, <1>5, <2>1 DEF NoChild, Child
  <2>3. task[peer[t]] \in {"none", "live", "zombie", "gone"} /\ task[peer[t]] # "none"
    BY Zenon, <1>2, <1>3 DEF IInv, TypeOK, TaskInv
  <2> QED BY Zenon, <2>2, <2>3
<1> QED BY Zenon, <1>1, <1>4, <1>5

(* pthread_create keeps StackInv: malloc gives it a stack that is in no entry. *)
LEMMA StackCreate ==
  ASSUME IInv, StackInv, NEW t \in Thread, NEW u \in Thread, NEW st \in Stack,
         Create(t, u, st, FALSE)
  PROVE  StackInv'
<1> DEFINE a == First(FreeSlots(tcb_table))
           entry == [state |-> "running", detached |-> FALSE, tid |-> NULL,
                     retval |-> NULL, stack_base |-> st]
<1>1. Reaped(tcb_table) = tcb_table /\ WaitedFor(t, tcb_table) = task
  BY Zenon, NothingReaped
<1>2. /\ pc[t] = "run" /\ global_lock = NULL /\ global_lock' = t
      /\ FreeSlots(tcb_table) # {}
      /\ \A r \in Slot : tcb_table[r].stack_base # st
      /\ tcb_table' = [tcb_table EXCEPT ![a] = entry]
      /\ pc' = [pc EXCEPT ![t] = "cloned", ![u] = "entry"]
      /\ at' = [at EXCEPT ![t] = a, ![u] = a]
      /\ peer' = [peer EXCEPT ![t] = u]
      /\ task[u] = "none"
      /\ task' = [task EXCEPT ![u] = "live"]
      /\ parent' = [parent EXCEPT ![u] = WaitRoot(t)]
      /\ on' = [on EXCEPT ![u] = st]
      /\ reaped' = reaped
  BY Zenon, <1>1 DEF Create, Clone
<1>3. a \in Slot /\ tcb_table[a].state = "unused"
  <2>1. FreeSlots(tcb_table) \subseteq Slot
    BY Zenon DEF FreeSlots
  <2>2. a \in FreeSlots(tcb_table)
    BY Zenon, <1>2, <2>1, FirstFacts
  <2> QED BY Zenon, <2>2 DEF FreeSlots
<1>4. entry.tid = NULL /\ entry.stack_base = st /\ ~entry.detached
  BY Zenon
<1> HIDE DEF a, entry
<1>5. tcb_table'[a] = entry /\ \A s \in Slot \ {a} : tcb_table'[s] = tcb_table[s]
  BY Zenon, <1>2, <1>3 DEF IInv, TypeOK
<1>6. pc[u] = "none" /\ u # t /\ u # Main
  BY Zenon, <1>2 DEF IInv, TaskInv, LockInv
<1>7. /\ pc'[t] = "cloned" /\ pc'[u] = "entry" /\ at'[t] = a /\ peer'[t] = u
      /\ on'[u] = st /\ task'[u] = "live" /\ parent'[u] = Main
      /\ \A v \in Thread \ {t, u} : pc'[v] = pc[v]
      /\ \A v \in Thread \ {t} : peer'[v] = peer[v]
      /\ \A v \in Thread \ {u} : on'[v] = on[v] /\ task'[v] = task[v] /\ parent'[v] = parent[v]
  <2>1. WaitRoot(t) = Main
    BY Zenon, <1>2, OneRoot
  <2> QED BY Zenon, <1>2, <1>6, <2>1 DEF IInv, TypeOK
<1>8. MainInv'
  <2>1. Main \in Thread /\ Main # u
    BY Zenon, <1>6, Constants
  <2>2. task'[Main] = task[Main] /\ parent'[Main] = parent[Main] /\ on'[Main] = on[Main]
    BY Zenon, <1>7, <2>1
  <2>3. pc'[Main] = pc[Main] \/ pc'[Main] = "cloned"
    BY Zenon, <1>7, <2>1
  <2> QED BY Zenon, <2>2, <2>3 DEF StackInv, MainInv
<1>9. NoDetached'
  BY Zenon, <1>4, <1>5 DEF StackInv, NoDetached
<1>10. BaseInv'
  BY SMTT(20), <1>2, <1>4, <1>5 DEF StackInv, BaseInv
<1>11. ChildInv'
  <2> SUFFICES ASSUME NEW v \in Thread \ {Main}, pc'[v] # "none"
               PROVE  parent'[v] = Main /\ on'[v] \in Stack
    BY Zenon DEF ChildInv
  <2>1. CASE v = u
    BY Zenon, <1>7, <2>1
  <2>2. CASE v # u
    <3>1. pc[v] # "none"
      BY Zenon, <1>2, <1>7, <2>2
    <3> QED BY Zenon, <1>7, <2>2, <3>1 DEF StackInv, ChildInv
  <2> QED BY Zenon, <2>1, <2>2
<1>12. ASSUME NEW v \in Thread \ {Main}, task'[v] \in {"live", "zombie"}
       PROVE  HasEntry(v)'
  <2>1. CASE v = u
    <3>1. t # NULL
      BY Zenon, Constants
    <3>2. PICK s \in Slot : s = a
      BY Zenon, <1>3
    <3>3. tcb_table'[s].tid = NULL /\ tcb_table'[s].stack_base = on'[v]
      BY Zenon, <1>4, <1>5, <1>7, <2>1, <3>2
    <3>4. EntryOf(s, v)'
      BY Zenon, <1>2, <1>7, <2>1, <3>1, <3>2, <3>3 DEF EntryOf
    <3> QED BY Zenon, <3>3, <3>4 DEF HasEntry
  <2>2. CASE v # u
    <3>1. PICK s \in Slot : EntryOf(s, v) /\ tcb_table[s].stack_base = on[v]
      BY Zenon, <1>7, <1>12, <2>2 DEF StackInv, KeptInv, HasEntry
    <3>2. tcb_table[s].tid = v
      BY Zenon, <1>2, <3>1 DEF EntryOf
    <3>3. s # a
      BY Zenon, <1>3, <3>2, Constants DEF IInv, SlotInv, SlotOk
    <3>4. EntryOf(s, v)' /\ tcb_table'[s].stack_base = on'[v]
      BY Zenon, <1>5, <1>7, <2>2, <3>1, <3>2, <3>3 DEF EntryOf
    <3> QED BY Zenon, <3>4 DEF HasEntry
  <2> QED BY Zenon, <2>1, <2>2
<1>13. ASSUME NEW v \in Thread, pc'[v] = "free" \/ (pc'[v] = "check" /\ reaped'[v])
       PROVE  task'[peer'[v]] = "gone"
  <2>1. v # t /\ v # u
    BY Zenon, <1>7, <1>13
  <2>2. pc[v] = "free" \/ (pc[v] = "check" /\ reaped[v])
    BY Zenon, <1>2, <1>7, <1>13, <2>1
  <2>3. peer[v] \in Thread /\ task[peer[v]] = "gone"
    BY Zenon, <2>2 DEF IInv, JoinInv, Joining, JoinOk, StackInv, GoneInv, GoneOk
  <2> QED BY SMTT(20), <1>2, <1>7, <2>1, <2>3
<1> QED BY Zenon, <1>8, <1>9, <1>10, <1>11, <1>12, <1>13 DEF StackInv, KeptInv, GoneInv, GoneOk

(* The end of pthread_create keeps StackInv. *)
LEMMA StackCreated ==
  ASSUME IInv, StackInv, NEW t \in Thread, Created(t)
  PROVE  StackInv'
<1> DEFINE a == at[t]
           u == peer[t]
<1>1. /\ pc[t] = "cloned" /\ global_lock = t /\ CloneOk(t)
      /\ tcb_table' = [tcb_table EXCEPT ![a].tid = u] /\ global_lock' = NULL
      /\ pc' = [pc EXCEPT ![t] = "run"]
      /\ peer' = [peer EXCEPT ![t] = NULL]
      /\ reaped' = [reaped EXCEPT ![t] = FALSE]
      /\ UNCHANGED <<task, parent, on>>
  BY Zenon DEF Created, Return, kernelVars, IInv, LockInv, CloneInv
<1>2. a \in Slot /\ u \in Thread /\ tcb_table[a].tid \in {NULL, u} /\ tcb_table[a] \in Tcb
  BY Zenon, <1>1 DEF CloneOk, IInv, TypeOK
<1>3. /\ tcb_table'[a].tid = u /\ tcb_table'[a].stack_base = tcb_table[a].stack_base
      /\ tcb_table'[a].detached = tcb_table[a].detached
  <2>1. tcb_table'[a] = [tcb_table[a] EXCEPT !.tid = u]
    BY Zenon, <1>1, <1>2 DEF IInv, TypeOK
  <2>2. u \in Thread \cup {NULL}
    BY Zenon, <1>2
  <2> QED BY <1>2, <2>1, <2>2, SetTid
<1>4. \A s \in Slot \ {a} : tcb_table'[s] = tcb_table[s]
  BY Zenon, <1>1, <1>2 DEF IInv, TypeOK
<1>5. /\ pc'[t] = "run"
      /\ \A v \in Thread \ {t} : pc'[v] = pc[v] /\ peer'[v] = peer[v] /\ reaped'[v] = reaped[v]
  BY Zenon, <1>1 DEF IInv, TypeOK
<1>6. MainInv' /\ ChildInv'
  BY <1>1, <1>5 DEF StackInv, MainInv, ChildInv
<1>7. NoDetached'
  BY Zenon, <1>3, <1>4 DEF StackInv, NoDetached
<1>8. BaseInv'
  <2>1. \A s \in Slot : tcb_table'[s].stack_base = tcb_table[s].stack_base
    BY Zenon, <1>3, <1>4
  <2> QED BY Zenon, <2>1 DEF StackInv, BaseInv
<1>9. ASSUME NEW v \in Thread \ {Main}, task'[v] \in {"live", "zombie"}
      PROVE  HasEntry(v)'
  <2>1. PICK s \in Slot : EntryOf(s, v) /\ tcb_table[s].stack_base = on[v]
    BY Zenon, <1>1, <1>9 DEF StackInv, KeptInv, HasEntry
  <2>2. tcb_table'[s].tid = v
    BY Zenon, <1>1, <1>2, <1>3, <1>4, <2>1, Constants DEF EntryOf
  <2>3. tcb_table'[s].stack_base = on'[v]
    BY Zenon, <1>1, <1>3, <1>4, <2>1
  <2> QED BY Zenon, <2>2, <2>3 DEF HasEntry, EntryOf
<1>10. GoneInv'
  BY <1>1, <1>5 DEF StackInv, GoneInv, GoneOk
<1> QED BY Zenon, <1>6, <1>7, <1>8, <1>9, <1>10 DEF StackInv, KeptInv

(* The start of a thread keeps StackInv. *)
LEMMA StackEntry ==
  ASSUME IInv, StackInv, NEW t \in Thread, Entry(t)
  PROVE  StackInv'
<1> DEFINE a == at[t]
<1>1. /\ pc[t] = "entry" /\ t # Main /\ global_lock # t /\ ActiveOk(t)
      /\ tcb_table' = [tcb_table EXCEPT ![a].tid = IF @ = NULL THEN t ELSE @]
      /\ pc' = [pc EXCEPT ![t] = "run"]
      /\ at' = [at EXCEPT ![t] = NoSlot]
      /\ peer' = [peer EXCEPT ![t] = NULL]
      /\ reaped' = [reaped EXCEPT ![t] = FALSE]
      /\ UNCHANGED <<global_lock, task, parent, on>>
  BY Zenon DEF Entry, Return, kernelVars, IInv, LockInv, ActiveInv, Active
<1>2. a \in Slot /\ EntryOf(a, t) /\ tcb_table[a] \in Tcb
  BY Zenon, <1>1 DEF ActiveOk, IInv, TypeOK
<1>3. /\ tcb_table'[a].tid = t /\ tcb_table'[a].stack_base = tcb_table[a].stack_base
      /\ tcb_table'[a].detached = tcb_table[a].detached
  <2>1. tcb_table[a].tid \in {NULL, t}
    BY Zenon, <1>2 DEF EntryOf
  <2>2. tcb_table'[a] = [tcb_table[a] EXCEPT !.tid = t]
    BY Zenon, <1>1, <1>2, <2>1, Constants DEF IInv, TypeOK
  <2>3. t \in Thread \cup {NULL}
    BY Zenon
  <2> QED BY <1>2, <2>2, <2>3, SetTid
<1>4. \A s \in Slot \ {a} : tcb_table'[s] = tcb_table[s]
  BY Zenon, <1>1, <1>2 DEF IInv, TypeOK
<1>5. /\ pc'[t] = "run"
      /\ \A v \in Thread \ {t} : /\ pc'[v] = pc[v] /\ peer'[v] = peer[v]
                                 /\ reaped'[v] = reaped[v] /\ at'[v] = at[v]
  BY Zenon, <1>1 DEF IInv, TypeOK
<1>6. MainInv' /\ ChildInv'
  BY Zenon, <1>1, <1>5, Constants DEF StackInv, MainInv, ChildInv
<1>7. NoDetached'
  BY Zenon, <1>3, <1>4 DEF StackInv, NoDetached
<1>8. BaseInv'
  <2>1. \A s \in Slot : tcb_table'[s].stack_base = tcb_table[s].stack_base
    BY Zenon, <1>3, <1>4
  <2> QED BY Zenon, <2>1 DEF StackInv, BaseInv
<1>9. ASSUME NEW v \in Thread \ {Main}, task'[v] \in {"live", "zombie"}
      PROVE  HasEntry(v)'
  <2>1. PICK s \in Slot : EntryOf(s, v) /\ tcb_table[s].stack_base = on[v]
    BY Zenon, <1>1, <1>9 DEF StackInv, KeptInv, HasEntry
  <2>2. tcb_table'[s].stack_base = on'[v]
    BY Zenon, <1>1, <1>3, <1>4, <2>1
  <2>3. CASE s = a
    <3>1. v = t
      BY Zenon, <1>2, <2>1, <2>3, Constants DEF EntryOf
    <3> QED BY Zenon, <1>3, <2>2, <2>3, <3>1 DEF HasEntry, EntryOf
  <2>4. CASE s # a
    <3>1. global_lock # NULL =>
            at'[global_lock] = at[global_lock] /\ peer'[global_lock] = peer[global_lock]
      BY Zenon, <1>1, <1>5 DEF IInv, TypeOK
    <3>2. EntryOf(s, v)'
      BY Zenon, <1>1, <1>4, <2>1, <2>4, <3>1 DEF EntryOf
    <3> QED BY Zenon, <2>2, <3>2 DEF HasEntry
  <2> QED BY Zenon, <2>3, <2>4
<1>10. GoneInv'
  BY <1>1, <1>5 DEF StackInv, GoneInv, GoneOk
<1> QED BY Zenon, <1>6, <1>7, <1>8, <1>9, <1>10 DEF StackInv, KeptInv

(* The death of a thread other than main keeps StackInv: it stays a child of main. *)
LEMMA StackDies ==
  ASSUME IInv, StackInv, NEW t \in Thread, t # Main, task[t] = "live", Dies(t)
  PROVE  StackInv'
<1>1. /\ UNCHANGED <<tcb_table, global_lock, at, peer, reaped, on>>
      /\ task' = [task EXCEPT ![t] = "zombie"]
      /\ parent' = [u \in Thread |-> IF parent[u] = t THEN Outside ELSE parent[u]]
      /\ pc' = [pc EXCEPT ![t] = "dead"]
  BY Zenon DEF Dies, lockVars, localVars
<1>2. /\ pc'[t] = "dead" /\ task'[t] = "zombie" /\ pc[t] # "none"
      /\ \A v \in Thread \ {t} : pc'[v] = pc[v] /\ task'[v] = task[v]
  BY Zenon, <1>1 DEF IInv, TypeOK, TaskInv
<1>3. MainInv'
  BY Zenon, <1>1, <1>2, Constants DEF StackInv, MainInv
<1>4. NoDetached' /\ BaseInv'
  BY Zenon, <1>1 DEF StackInv, NoDetached, BaseInv
<1>5. ChildInv'
  BY Zenon, <1>1, <1>2 DEF StackInv, ChildInv
<1>6. KeptInv'
  BY Zenon, <1>1, <1>2 DEF StackInv, KeptInv, HasEntry, EntryOf
<1>7. ASSUME NEW v \in Thread, pc'[v] = "free" \/ (pc'[v] = "check" /\ reaped'[v])
      PROVE  task'[peer'[v]] = "gone"
  <2>1. pc[v] = "free" \/ (pc[v] = "check" /\ reaped[v])
    BY Zenon, <1>1, <1>2, <1>7
  <2>2. peer[v] \in Thread /\ task[peer[v]] = "gone"
    BY Zenon, <2>1 DEF IInv, JoinInv, Joining, JoinOk, StackInv, GoneInv, GoneOk
  <2> QED BY Zenon, <1>1, <1>2, <2>2
<1> QED BY Zenon, <1>3, <1>4, <1>5, <1>6, <1>7 DEF StackInv, GoneInv, GoneOk

(* pthread_join keeps StackInv when it frees: the task of its thread is gone. *)
LEMMA StackFree ==
  ASSUME IInv, StackInv, NEW t \in Thread, JoinFree(t)
  PROVE  StackInv'
<1> DEFINE a == at[t]
<1>1. /\ pc[t] = "free" /\ global_lock = NULL /\ JoinOk(t) /\ task[peer[t]] = "gone"
      /\ tcb_table' = [tcb_table EXCEPT ![a] = Cleared(@)]
      /\ pc' = [pc EXCEPT ![t] = "run"]
      /\ peer' = [peer EXCEPT ![t] = NULL]
      /\ reaped' = [reaped EXCEPT ![t] = FALSE]
      /\ UNCHANGED <<global_lock, task, parent, on>>
  BY Zenon DEF JoinFree, Return, kernelVars, IInv, JoinInv, Joining, StackInv, GoneInv, GoneOk
<1>2. a \in Slot /\ tcb_table[a] \in Tcb /\ tcb_table[a].tid = peer[t]
  BY Zenon, <1>1 DEF JoinOk, IInv, TypeOK
<1>3. tcb_table'[a].stack_base = NULL /\ tcb_table'[a].detached = tcb_table[a].detached
  <2>1. tcb_table'[a] = Cleared(tcb_table[a])
    BY Zenon, <1>1, <1>2 DEF IInv, TypeOK
  <2> QED BY Zenon, <1>2, <2>1, ClearedFacts
<1>4. \A s \in Slot \ {a} : tcb_table'[s] = tcb_table[s]
  BY Zenon, <1>1, <1>2 DEF IInv, TypeOK
<1>5. /\ pc'[t] = "run"
      /\ \A v \in Thread \ {t} : pc'[v] = pc[v] /\ peer'[v] = peer[v] /\ reaped'[v] = reaped[v]
  BY Zenon, <1>1 DEF IInv, TypeOK
<1>6. MainInv' /\ ChildInv'
  <2>1. \A v \in Thread : /\ pc'[v] = pc[v] \/ pc'[v] = "run"
                          /\ pc'[v] # "none" => pc[v] # "none"
    BY Zenon, <1>1, <1>5
  <2>2. MainInv'
    BY Zenon, <1>1, <2>1, Constants DEF StackInv, MainInv
  <2>3. ChildInv'
    BY Zenon, <1>1, <2>1 DEF StackInv, ChildInv
  <2> QED BY Zenon, <2>2, <2>3
<1>7. NoDetached'
  BY Zenon, <1>3, <1>4 DEF StackInv, NoDetached
<1>8. BaseInv'
  BY <1>3, <1>4 DEF StackInv, BaseInv
<1>9. ASSUME NEW v \in Thread \ {Main}, task'[v] \in {"live", "zombie"}
      PROVE  HasEntry(v)'
  <2>1. PICK s \in Slot : EntryOf(s, v) /\ tcb_table[s].stack_base = on[v]
    BY Zenon, <1>1, <1>9 DEF StackInv, KeptInv, HasEntry
  <2>2. tcb_table[s].tid = v
    BY Zenon, <1>1, <2>1 DEF EntryOf
  <2>3. s # a
    BY Zenon, <1>1, <1>2, <1>9, <2>2
  <2> QED BY Zenon, <1>1, <1>4, <2>1, <2>2, <2>3 DEF HasEntry, EntryOf
<1>10. GoneInv'
  BY <1>1, <1>5 DEF StackInv, GoneInv, GoneOk
<1> QED BY Zenon, <1>6, <1>7, <1>8, <1>9, <1>10 DEF StackInv, KeptInv

(* The end of pthread_exit keeps StackInv. *)
LEMMA StackExited ==
  ASSUME IInv, StackInv, NEW t \in Thread, Exited(t)
  PROVE  StackInv'
<1> DEFINE a == at[t]
<1>1. /\ pc[t] = "exit" /\ global_lock = NULL /\ t # Main
      /\ tcb_table' = [tcb_table EXCEPT ![a].retval = retval[t], ![a].state = "exited"]
      /\ pc' = [pc EXCEPT ![t] = "dying"]
      /\ UNCHANGED <<global_lock, at, peer, reaped, task, parent, on>>
  BY Zenon DEF Exited, localVars, kernelVars, IInv, LockInv
<1>2. a \in Slot /\ tcb_table[a] \in Tcb /\ retval[t] \in Value \cup {NULL}
  <2>1. ActiveOk(t)
    BY Zenon, <1>1 DEF IInv, ActiveInv, Active
  <2>2. a \in Slot
    BY Zenon, <1>1, <2>1 DEF ActiveOk
  <2> QED BY Zenon, <2>2 DEF IInv, TypeOK
<1>3. tcb_table \in [Slot -> Tcb]
      /\ tcb_table' = [tcb_table EXCEPT ![a] =
                        [tcb_table[a] EXCEPT !.retval = retval[t], !.state = "exited"]]
  BY Zenon, <1>2 DEF Exited, IInv, TypeOK
<1>4. \A s \in Slot : /\ tcb_table'[s].tid = tcb_table[s].tid
                      /\ tcb_table'[s].stack_base = tcb_table[s].stack_base
                      /\ tcb_table'[s].detached = tcb_table[s].detached
  <2>1. /\ tcb_table'[a].tid = tcb_table[a].tid
        /\ tcb_table'[a].detached = tcb_table[a].detached
        /\ tcb_table'[a].stack_base = tcb_table[a].stack_base
        /\ \A s \in Slot \ {a} : tcb_table'[s] = tcb_table[s]
    BY ZenonT(40), <1>2, <1>3, SetExited
  <2> QED BY Zenon, <2>1
<1>5. /\ pc'[t] = "dying"
      /\ \A v \in Thread \ {t} : /\ pc'[v] = pc[v] /\ at'[v] = at[v]
                                 /\ peer'[v] = peer[v] /\ reaped'[v] = reaped[v]
  BY Zenon, <1>1 DEF IInv, TypeOK
<1>6. GoneOk(t)'
  BY Zenon, <1>5 DEF GoneOk
<1>7. global_lock # t
  BY Zenon, <1>1, Constants
<1> QED BY Zenon, <1>1, <1>4, <1>5, <1>6, <1>7, StackFrame

(* The steps together; those that StackFrame covers are here. *)
LEMMA StackNext ==
  ASSUME Use \subseteq {"kill"}, IInv, IInv', StackInv, [Next]_vars
  PROVE  StackInv'
<1>1. CASE UNCHANGED vars
  BY ZenonT(40), <1>1 DEF vars, lockVars, localVars, kernelVars, StackInv, MainInv, NoDetached, BaseInv,
     ChildInv, KeptInv, HasEntry, EntryOf, GoneInv, GoneOk
<1>2. CASE Next
  <2>1. PICK t \in Thread : Advance(t) \/ Call(t) \/ Kill(t) \/ OutsideReaps(t)
    BY Zenon, <1>2 DEF Next
  <2>2. \A q, r : UNCHANGED <<at, peer, reaped>> /\ pc' = [pc EXCEPT ![t] = q] =>
          /\ pc'[t] = q
          /\ \A v \in Thread \ {t} : /\ pc'[v] = pc[v] /\ at'[v] = at[v]
                                     /\ peer'[v] = peer[v] /\ reaped'[v] = reaped[v]
    BY ZenonT(40) DEF IInv, TypeOK
  <2>3. CASE Die(t) \/ Kill(t)
    <3>1. Dies(t) /\ t # Main /\ task[t] = "live"
      <4>1. CASE Die(t)
        BY Zenon, <4>1 DEF Die, StackInv, MainInv, IInv, TaskInv
      <4>2. CASE Kill(t)
        BY Zenon, <4>2 DEF Kill
      <4> QED BY Zenon, <2>3, <4>1, <4>2
    <3> QED BY Zenon, <3>1, StackDies
  <2>4. CASE OutsideReaps(t)
    <3>1. task[t] = "zombie" /\ parent[t] = Outside
      BY Zenon, <2>4 DEF OutsideReaps
    <3>2. t # Main /\ pc[t] # "none"
      BY Zenon, <3>1 DEF StackInv, MainInv, IInv, TaskInv
    <3> QED BY Zenon, <3>1, <3>2, Constants DEF StackInv, ChildInv
  <2>5. CASE Exited(t)
    BY Zenon, <2>5, StackExited
  <2>6. CASE JoinCheck(t)
    <3>1. /\ pc[t] = "check"
          /\ pc' = [pc EXCEPT ![t] = IF tcb_table[at[t]].state = "running" THEN "wait"
                                     ELSE IF reaped[t] THEN "free" ELSE "last wait"]
          /\ UNCHANGED <<tcb_table, global_lock, at, peer, reaped, task, parent, on>>
      BY Zenon, <2>6 DEF JoinCheck, lockVars, localVars, kernelVars
    <3>2. /\ pc'[t] \in {"wait", "free", "last wait"} /\ (pc'[t] = "free" => reaped[t])
          /\ \A v \in Thread \ {t} : /\ pc'[v] = pc[v] /\ at'[v] = at[v]
                                     /\ peer'[v] = peer[v] /\ reaped'[v] = reaped[v]
      BY Zenon, <3>1 DEF IInv, TypeOK
    <3>3. GoneOk(t)'
      BY Zenon, <3>1, <3>2 DEF GoneOk, StackInv, GoneInv
    <3>4. global_lock # t
      BY Zenon, <3>1 DEF IInv, LockInv
    <3> QED BY Zenon, <3>1, <3>2, <3>3, <3>4, StackFrame
  <2>7. CASE JoinWait(t) \/ JoinLastWait(t)
    <3>1. /\ pc[t] \in {"wait", "last wait"}
          /\ WaitReaps(t) \/ NoChild(t) \/ Interrupted(t)
          /\ UNCHANGED <<tcb_table, global_lock, at, peer, parent, on>>
      BY Zenon, <2>7 DEF JoinWait, JoinLastWait, lockVars, localVars
    <3>2. /\ task'[peer[t]] = "gone"
          /\ \A v \in Thread : task'[v] = task[v] \/ (task[v] = "zombie" /\ task'[v] = "gone")
      BY Zenon, <3>1, WaitGone DEF Joining
    <3>3. /\ pc'[t] \in {"check", "free"}
          /\ \A v \in Thread \ {t} : /\ pc'[v] = pc[v] /\ at'[v] = at[v]
                                     /\ peer'[v] = peer[v] /\ reaped'[v] = reaped[v]
      BY ZenonT(40), <2>7, <3>1 DEF JoinWait, JoinLastWait, localVars, IInv, TypeOK
    <3>4. GoneOk(t)'
      BY Zenon, <3>1, <3>2 DEF GoneOk
    <3>5. global_lock # t
      BY Zenon, <3>1 DEF IInv, LockInv
    <3> QED BY Zenon, <3>1, <3>2, <3>3, <3>4, <3>5, StackFrame
  <2>8. CASE \E u \in Thread : Join(t, u)
    <3>1. /\ pc[t] = "run" /\ global_lock = NULL
          /\ pc' = [pc EXCEPT ![t] = "check"]
          /\ reaped' = [reaped EXCEPT ![t] = FALSE]
          /\ \E x, y : at' = [at EXCEPT ![t] = x] /\ peer' = [peer EXCEPT ![t] = y]
          /\ UNCHANGED <<tcb_table, global_lock, task, parent, on>>
      BY Zenon, <2>8 DEF Join, lockVars, kernelVars
    <3>5. \A v \in Thread \ {t} : at'[v] = at[v] /\ peer'[v] = peer[v]
      BY ZenonT(40), <3>1 DEF IInv, TypeOK
    <3>6. DOMAIN pc = Thread /\ DOMAIN reaped = Thread
      BY Zenon DEF IInv, TypeOK
    <3>2. /\ pc'[t] = "check" /\ ~reaped'[t]
          /\ \A v \in Thread \ {t} : /\ pc'[v] = pc[v] /\ at'[v] = at[v]
                                     /\ peer'[v] = peer[v] /\ reaped'[v] = reaped[v]
      BY Zenon, <3>1, <3>5, <3>6
    <3>3. GoneOk(t)'
      BY Zenon, <3>2 DEF GoneOk
    <3>4. global_lock # t
      BY Zenon, <3>1, Constants
    <3> QED BY Zenon, <3>1, <3>2, <3>3, <3>4, StackFrame
  <2>9. CASE \E v \in Value : Exit(t, v)
    <3>1. /\ pc[t] = "run" /\ global_lock = NULL /\ t # Main
          /\ pc' = [pc EXCEPT ![t] = "dying"] \/ pc' = [pc EXCEPT ![t] = "exit"]
          /\ \A v \in Thread \ {t} : at'[v] = at[v]
          /\ UNCHANGED <<tcb_table, global_lock, peer, reaped, task, parent, on>>
      BY ZenonT(40), <2>9 DEF Exit, lockVars, kernelVars, IInv, TypeOK
    <3>2. /\ pc'[t] \in {"dying", "exit"}
          /\ \A v \in Thread \ {t} : /\ pc'[v] = pc[v] /\ at'[v] = at[v]
                                     /\ peer'[v] = peer[v] /\ reaped'[v] = reaped[v]
      BY ZenonT(40), <3>1 DEF IInv, TypeOK
    <3>3. GoneOk(t)'
      BY Zenon, <3>2 DEF GoneOk
    <3>4. global_lock # t
      BY Zenon, <3>1, Constants
    <3> QED BY ZenonT(30), <3>1, <3>2, <3>3, <3>4, StackFrame
  <2>10. CASE CreateFails(t)
    <3>1. /\ pc[t] = "run" /\ global_lock = NULL
          /\ UNCHANGED <<tcb_table, global_lock, pc, at, peer, reaped, task, parent, on>>
      BY Zenon, <2>10, NothingReaped DEF CreateFails, localVars
    <3>2. GoneOk(t)'
      BY Zenon, <3>1 DEF GoneOk
    <3>3. global_lock # t
      BY Zenon, <3>1, Constants
    <3> QED BY Zenon, <3>1, <3>2, <3>3, StackFrame
  <2>11. CASE \E u \in Thread, st \in Stack, d \in BOOLEAN :
                (d => "detach" \in Use) /\ Create(t, u, st, d)
    <3>1. PICK u \in Thread, st \in Stack, d \in BOOLEAN :
            (d => "detach" \in Use) /\ Create(t, u, st, d)
      BY Zenon, <2>11
    <3>2. d = FALSE
      BY Zenon, <3>1
    <3>3. Create(t, u, st, FALSE)
      BY Zenon, <3>1, <3>2
    <3> QED BY Zenon, <3>3, StackCreate
  <2>12. ~\E u \in Thread : Detach(t, u)
    BY Zenon DEF Detach
  <2> QED BY Zenon, <2>1, <2>3, <2>4, <2>5, <2>6, <2>7, <2>8, <2>9, <2>10, <2>11, <2>12,
             StackCreated, StackEntry, StackFree DEF Advance, Call
<1> QED BY Zenon, <1>1, <1>2

(* StackInv holds when the program starts. *)
LEMMA StackInit ==
  ASSUME Init
  PROVE  StackInv
<1>1. /\ \A s \in Slot : ~tcb_table[s].detached /\ tcb_table[s].stack_base = NULL
      /\ \A t \in Thread : t # Main => pc[t] = "none" /\ task[t] = "none"
      /\ pc[Main] = "run" /\ task[Main] = "live" /\ parent[Main] = Outside /\ on[Main] = NULL
  BY Zenon, Constants DEF Init
<1>2. \A t \in Thread : pc[t] \in {"none", "run"}
  BY Zenon, <1>1
<1> QED BY Zenon, <1>1, <1>2 DEF StackInv, MainInv, NoDetached, BaseInv, ChildInv, KeptInv, GoneInv,
           GoneOk

(* pthread_join frees a stack only when the kernel's task has left it, and no stack is
   given to two threads: "Ensure the kernel task has fully exited its stack before
   freeing" holds for every program that detaches no thread, has no waitpid interrupted by a
   signal and keeps main until the end, however threads are killed. *)
THEOREM StackSafe ==
  ASSUME Use \subseteq {"kill"}
  PROVE  Spec => []StackLive
<1>1. Init => StackInv
  BY Zenon, StackInit
<1>2. IInv /\ IInv' /\ StackInv /\ [Next]_vars => StackInv'
  BY Zenon, StackNext
<1>3. IInv /\ StackInv => StackLive
  <2> SUFFICES ASSUME IInv, StackInv, NEW t \in Thread \ {Main}, task[t] = "live"
               PROVE  /\ \E s \in Slot : tcb_table[s].stack_base = on[t]
                      /\ \A u \in Thread \ {t} : task[u] = "live" => on[u] # on[t]
    BY Zenon DEF StackLive
  <2>1. PICK s \in Slot : EntryOf(s, t) /\ tcb_table[s].stack_base = on[t]
    BY Zenon DEF StackInv, KeptInv, HasEntry
  <2>2. on[t] \in Stack /\ on[t] # NULL
    BY Zenon, Constants DEF StackInv, ChildInv, IInv, TaskInv
  <2>3. ASSUME NEW u \in Thread \ {t}, task[u] = "live", on[u] = on[t]
        PROVE  FALSE
    <3>1. u # Main
      BY Zenon, <2>2, <2>3 DEF StackInv, MainInv
    <3>2. PICK r \in Slot : EntryOf(r, u) /\ tcb_table[r].stack_base = on[u]
      BY Zenon, <2>3, <3>1 DEF StackInv, KeptInv, HasEntry
    <3>3. r = s
      BY Zenon, <2>1, <2>2, <2>3, <3>2 DEF StackInv, BaseInv
    <3> QED BY Zenon, <2>1, <2>3, <3>2, <3>3, Constants DEF EntryOf
  <2> QED BY Zenon, <2>1, <2>3
<1> QED BY <1>1, <1>2, <1>3, Invariance, PTL DEF Spec

-------------------------------------------------------------------------------
(* Keys and destructors only add to the life of threads: with them every behaviour is
   still one of Spec, so that what is proved above holds for PthreadKeys too. *)
THEOREM KeysKeepThreads == KSpec => Spec
<1>1. KInit => Init
  BY Zenon DEF KInit
<1>2. [KNext]_allVars => [Next]_vars
  <2> SUFFICES ASSUME KNext \/ UNCHANGED allVars PROVE [Next]_vars
    BY Zenon
  <2>1. CASE UNCHANGED allVars
    BY Zenon, <2>1 DEF allVars
  <2>2. CASE KNext
    <3>1. PICK t \in Thread :
            \/ InLibrary(t) \/ Others(t) \/ KExited(t) \/ DtorStep(t) \/ DtorReturns(t)
            \/ \E u \in Thread, st \in Stack, d \in BOOLEAN :
                 (d => "detach" \in Use) /\ KCreate(t, u, st, d)
            \/ \E v \in Value : KExit(t, v)
            \/ \E d \in BOOLEAN : KeyCreate(t, d)
            \/ \E k \in Key : \/ KeyDelete(t, k)
                              \/ SetSpecific(t, k, [by |-> t, gen |-> gen[k]])
                              \/ SetSpecific(t, k, NoValue)
      BY Zenon, <2>2 DEF KNext, KAdvance
    <3>2. CASE InLibrary(t) \/ Others(t)
      BY Zenon, <3>2 DEF InLibrary, Others, Next, Advance, Call
    <3>3. CASE KExited(t)
      BY Zenon, <3>3 DEF KExited, Next, Advance
    <3>4. CASE \E u \in Thread, st \in Stack, d \in BOOLEAN :
                 (d => "detach" \in Use) /\ KCreate(t, u, st, d)
      BY <3>4 DEF KCreate, Next, Call
    <3>5. CASE \E v \in Value : KExit(t, v)
      BY Zenon, <3>5 DEF KExit, Next, Call
    <3>6. CASE DtorStep(t) \/ DtorReturns(t)
      BY Zenon, <3>6 DEF DtorStep, DtorReturns
    <3>7. CASE \E d \in BOOLEAN : KeyCreate(t, d)
      BY Zenon, <3>7 DEF KeyCreate
    <3>8. CASE \E k \in Key : \/ KeyDelete(t, k)
                              \/ SetSpecific(t, k, [by |-> t, gen |-> gen[k]])
                              \/ SetSpecific(t, k, NoValue)
      BY Zenon, <3>8 DEF KeyDelete, SetSpecific
    <3> QED BY Zenon, <3>1, <3>2, <3>3, <3>4, <3>5, <3>6, <3>7, <3>8
  <2> QED BY Zenon, <2>1, <2>2
<1> QED BY <1>1, <1>2, PTL DEF KSpec, Spec

--------------------------------------------------------------------------------
(* The keys: the inductive invariant. *)

(* What an entry in use holds under a key in use: nothing, or what the thread of the entry
   stored since the key was created. *)
ValueOk(s, k) ==
  \/ tls[s][k] = NoValue
  \/ tcb_table[s].tid # NULL /\ tls[s][k] = [by |-> tcb_table[s].tid, gen |-> gen[k]]
TlsInv == \A s \in Slot, k \in Key : Used(s) /\ key_used[k] => ValueOk(s, k)

(* The same of main_tls, which is Main's alone. *)
MainTlsInv ==
  \A k \in Key : key_used[k] =>
    gen[k] # 0 /\ main_tls[k] \in {NoValue, [by |-> Main, gen |-> gen[k]]}

(* The keys that run_tls_destructors has passed have no value for a destructor, unless one
   ran in this pass: a destructor may store values anywhere. *)
ScanOk(t) ==
  /\ pc[t] \notin {"exit", "dead"} => scan[t] = ScanStart
  /\ pc[t] = "exit" =>
       /\ scan[t].calling => scan[t].any /\ ~scan[t].done
       /\ ~scan[t].any => \A k \in Key : k < scan[t].key \/ scan[t].done => ~HasDtor(t, k)
       /\ scan[t].done /\ scan[t].any => scan[t].pass = Passes - 1
ScanInv == \A t \in Thread : ScanOk(t)

KeysInv == KTypeOK /\ TlsInv /\ MainTlsInv /\ ScanInv

(* The steps of Pthread as the keys see them: an entry in use keeps its thread, or gets one,
   and a thread in pthread_exit stays there with its entry, or dies. *)
KeysFrame ==
  /\ \A s \in Slot : Used(s)' =>
       Used(s) /\ (tcb_table'[s].tid = tcb_table[s].tid \/ tcb_table[s].tid = NULL)
  /\ \A t \in Thread :
       /\ pc'[t] = "exit" => pc[t] = "exit" /\ at'[t] = at[t]
       /\ pc[t] \in {"exit", "dead"} => pc'[t] \in {"exit", "dead"}

(* A thread with nothing new for its destructors, and whose scan stands still, keeps ScanOk. *)
LEMMA ScanKept ==
  ASSUME NEW t \in Thread, ScanOk(t), scan'[t] = scan[t],
         pc'[t] = "exit" => pc[t] = "exit",
         pc[t] \in {"exit", "dead"} => pc'[t] \in {"exit", "dead"},
         pc'[t] = "exit" /\ ~scan[t].any => \A k \in Key : HasDtor(t, k)' => HasDtor(t, k)
  PROVE  ScanOk(t)'
<1>1. pc'[t] \notin {"exit", "dead"} => scan'[t] = ScanStart
  BY Zenon DEF ScanOk
<1>2. ASSUME pc'[t] = "exit"
      PROVE  /\ scan'[t].calling => scan'[t].any /\ ~scan'[t].done
             /\ ~scan'[t].any =>
                  \A k \in Key : k < scan'[t].key \/ scan'[t].done => ~HasDtor(t, k)'
             /\ scan'[t].done /\ scan'[t].any => scan'[t].pass = Passes - 1
  BY Zenon, <1>2 DEF ScanOk
<1> QED BY Zenon, <1>1, <1>2 DEF ScanOk, ScanStart

(* What a thread finds in its own entry does not change with the entry's other fields. *)
LEMMA FrameKeeps ==
  ASSUME KeysInv, KeysFrame, Same
  PROVE  KeysInv'
<1>1. UNCHANGED <<key_used, key_dtor, gen, tls, main_tls, scan>>
  BY Zenon DEF Same, keyVars, tlsVars
<1>2. KTypeOK' /\ MainTlsInv'
  BY Zenon, <1>1 DEF KeysInv, KTypeOK, MainTlsInv
<1>3. TlsInv'
  <2> SUFFICES ASSUME NEW s \in Slot, NEW k \in Key, Used(s)', key_used[k]
               PROVE  ValueOk(s, k)'
    BY Zenon, <1>1 DEF TlsInv
  <2>1. /\ Used(s) /\ ValueOk(s, k)
        /\ tcb_table'[s].tid = tcb_table[s].tid \/ tcb_table[s].tid = NULL
    BY Zenon DEF KeysFrame, KeysInv, TlsInv
  <2> QED BY Zenon, <1>1, <2>1 DEF ValueOk
<1>4. ScanInv'
  <2> SUFFICES ASSUME NEW t \in Thread PROVE ScanOk(t)'
    BY Zenon DEF ScanInv
  <2>1. /\ pc'[t] = "exit" => pc[t] = "exit" /\ at'[t] = at[t]
        /\ pc[t] \in {"exit", "dead"} => pc'[t] \in {"exit", "dead"}
    BY Zenon DEF KeysFrame
  <2>2. pc'[t] = "exit" => \A k \in Key : HasDtor(t, k)' => HasDtor(t, k)
    BY Zenon, <1>1, <2>1 DEF HasDtor
  <2>3. ScanOk(t)
    BY Zenon DEF KeysInv, ScanInv
  <2> QED BY Zenon, <1>1, <2>1, <2>2, <2>3, ScanKept
<1> QED BY Zenon, <1>2, <1>3, <1>4 DEF KeysInv

(* A step that leaves the table alone, and no thread in pthread_exit, is such a step. *)
LEMMA PcFrame ==
  ASSUME TypeOK, NEW t \in Thread, UNCHANGED tcb_table, NEW x,
         pc' = [pc EXCEPT ![t] = x], x # "exit",
         pc[t] \in {"exit", "dead"} => x \in {"exit", "dead"},
         \A u \in Thread \ {t} : at'[u] = at[u]
  PROVE  KeysFrame
<1>1. \A u \in Thread : pc'[u] = IF u = t THEN x ELSE pc[u]
  BY Zenon DEF TypeOK
<1> QED BY Zenon, <1>1 DEF KeysFrame, Used

(* The steps inside a call of the library. *)
LEMMA LibraryFrame ==
  ASSUME IInv, NEW t \in Thread,
         \/ Created(t) \/ Entry(t) \/ Die(t) \/ JoinCheck(t) \/ JoinWait(t)
         \/ JoinLastWait(t) \/ JoinFree(t)
  PROVE  KeysFrame
<1>0. TypeOK
  BY Zenon DEF IInv
<1>1. ASSUME NEW x \in Thread \cup {NULL}, at[t] \in Slot, tcb_table[at[t]].tid \in {NULL, x},
             tcb_table' = [tcb_table EXCEPT ![at[t]].tid = x], Return(t),
             pc[t] \notin {"exit", "dead"}
      PROVE  KeysFrame
  <2>1. /\ tcb_table \in [Slot -> Tcb]
        /\ tcb_table' = [tcb_table EXCEPT ![at[t]] = [tcb_table[at[t]] EXCEPT !.tid = x]]
    BY Zenon, <1>0, <1>1 DEF TypeOK
  <2>2. \A s \in Slot : tcb_table'[s] = IF s = at[t] THEN [tcb_table[s] EXCEPT !.tid = x]
                                                     ELSE tcb_table[s]
    BY Zenon, <2>1
  <2>3. /\ [tcb_table[at[t]] EXCEPT !.tid = x].state = tcb_table[at[t]].state
        /\ [tcb_table[at[t]] EXCEPT !.tid = x].tid = x
    <3>1. tcb_table[at[t]] \in Tcb
      BY Zenon, <1>1, <2>1
    <3> QED BY Zenon, <1>1, <3>1, SetTid
  <2>4. \A s \in Slot : Used(s)' =>
          Used(s) /\ (tcb_table'[s].tid = tcb_table[s].tid \/ tcb_table[s].tid = NULL)
    BY Zenon, <1>1, <2>2, <2>3 DEF Used
  <2>5. \A u \in Thread : /\ pc'[u] = IF u = t THEN "run" ELSE pc[u]
                          /\ at'[u] = IF u = t THEN NoSlot ELSE at[u]
    BY Zenon, <1>0, <1>1 DEF TypeOK, Return
  <2> QED BY Zenon, <1>1, <2>4, <2>5 DEF KeysFrame
<1>2. CASE Created(t)
  <2>1. CloneOk(t) /\ pc[t] = "cloned"
    BY Zenon, <1>2 DEF Created, IInv, CloneInv
  <2> QED BY Zenon, <1>1, <1>2, <2>1 DEF Created, CloneOk
<1>3. CASE Entry(t)
  <2>1. pc[t] = "entry" /\ t \in Active
    BY Zenon, <1>3 DEF Entry, IInv, LockInv, Active
  <2>2. at[t] \in Slot /\ EntryOf(at[t], t)
    BY Zenon, <2>1 DEF IInv, ActiveInv, ActiveOk
  <2>3. tcb_table[at[t]].tid \in {NULL, t}
    BY Zenon, <2>2 DEF EntryOf
  <2>4. /\ tcb_table' = [tcb_table EXCEPT ![at[t]].tid = IF @ = NULL THEN t ELSE @]
        /\ Return(t)
    BY Zenon, <1>3 DEF Entry
  <2>5. tcb_table' = [tcb_table EXCEPT ![at[t]].tid = t]
    BY Zenon, <2>3, <2>4
  <2> QED BY Zenon, <1>1, <2>1, <2>2, <2>3, <2>4, <2>5
<1>4. CASE Die(t)
  BY Zenon, <1>0, <1>4, PcFrame DEF Die, Dies, lockVars, localVars
<1>5. CASE JoinCheck(t)
  <2>1. PICK x \in {"wait", "free", "last wait"} :
          /\ pc' = [pc EXCEPT ![t] = x] /\ pc[t] = "check"
          /\ UNCHANGED <<tcb_table, at>>
    BY Zenon, <1>5 DEF JoinCheck, lockVars, localVars
  <2> QED BY Zenon, <1>0, <2>1, PcFrame
<1>6. CASE JoinWait(t)
  <2>1. PICK x \in {"check", "free"} :
          /\ pc' = [pc EXCEPT ![t] = x] /\ pc[t] = "wait"
          /\ UNCHANGED <<tcb_table, at>>
    BY Zenon, <1>6 DEF JoinWait, lockVars
  <2> QED BY Zenon, <1>0, <2>1, PcFrame
<1>7. CASE JoinLastWait(t)
  BY Zenon, <1>0, <1>7, PcFrame DEF JoinLastWait, lockVars, localVars
<1>8. CASE JoinFree(t)
  <2>1. /\ tcb_table \in [Slot -> Tcb] /\ pc[t] = "free" /\ Return(t)
        /\ tcb_table' = [tcb_table EXCEPT ![at[t]] = Cleared(@)]
    BY Zenon, <1>0, <1>8 DEF JoinFree, TypeOK
  <2>2. \A s \in Slot : tcb_table'[s] = IF s = at[t] THEN Cleared(tcb_table[s])
                                                     ELSE tcb_table[s]
    BY Zenon, <2>1
  <2>3. \A s \in Slot : Used(s)' => Used(s) /\ tcb_table'[s].tid = tcb_table[s].tid
    <3> TAKE s \in Slot
    <3>1. Cleared(tcb_table[s]).state = "unused"
      BY Zenon, <2>1, ClearedFacts
    <3> QED BY Zenon, <2>2, <3>1 DEF Used
  <2>4. \A u \in Thread : /\ pc'[u] = IF u = t THEN "run" ELSE pc[u]
                          /\ at'[u] = IF u = t THEN NoSlot ELSE at[u]
    BY Zenon, <1>0, <2>1 DEF TypeOK, Return
  <2> QED BY Zenon, <2>1, <2>3, <2>4 DEF KeysFrame
<1> QED BY Zenon, <1>2, <1>3, <1>4, <1>5, <1>6, <1>7, <1>8

(* The reaper leaves entries as they are, or not in use. *)
LEMMA ReapedFrame ==
  ASSUME IInv, NEW tbl \in [Slot -> Tcb], tcb_table' = Reaped(tbl), UNCHANGED <<pc, at>>,
         \A s \in Slot : tbl[s].state = tcb_table[s].state /\ tbl[s].tid = tcb_table[s].tid
  PROVE  KeysFrame
<1>1. \A s \in Slot : Reaped(tbl)[s].state = "unused" \/ Reaped(tbl)[s] = tbl[s]
  BY Zenon, ReapedFacts
<1> QED BY Zenon, <1>1 DEF KeysFrame, Used

(* The other calls, and a fatal signal. *)
LEMMA CallFrame ==
  ASSUME IInv, NEW t \in Thread,
         \/ CreateFails(t) \/ Kill(t) \/ OutsideReaps(t)
         \/ \E u \in Thread : Detach(t, u) \/ Join(t, u)
  PROVE  KeysFrame
<1>0. TypeOK /\ tcb_table \in [Slot -> Tcb]
  BY Zenon DEF IInv, TypeOK
<1>1. CASE CreateFails(t)
  BY Zenon, <1>0, <1>1, ReapedFrame DEF CreateFails, localVars
<1>2. CASE Kill(t)
  BY Zenon, <1>0, <1>2, PcFrame DEF Kill, Dies, lockVars, localVars
<1>3. CASE OutsideReaps(t)
  BY Zenon, <1>3 DEF OutsideReaps, lockVars, localVars, KeysFrame, Used
<1>4. ASSUME NEW u \in Thread, Detach(t, u)
      PROVE  KeysFrame
  <2> DEFINE a == First(Found(u))
             tbl == [tcb_table EXCEPT ![a].detached = TRUE]
  <2>1. tcb_table' = Reaped(tbl) /\ UNCHANGED <<pc, at>> /\ Found(u) # {}
    BY Zenon, <1>4 DEF Detach, localVars
  <2>2. a \in Slot
    <3>1. Found(u) \subseteq Slot
      BY Zenon DEF Found
    <3> QED BY Zenon, <2>1, <3>1, FirstFacts
  <2> HIDE DEF a
  <2>3. tbl = [tcb_table EXCEPT ![a] = [tcb_table[a] EXCEPT !.detached = TRUE]]
    BY Zenon, <1>0, <2>2
  <2>4. /\ tbl \in [Slot -> Tcb]
        /\ \A s \in Slot : tbl[s].state = tcb_table[s].state /\ tbl[s].tid = tcb_table[s].tid
    <3>1. /\ [tcb_table[a] EXCEPT !.detached = TRUE] \in Tcb
          /\ [tcb_table[a] EXCEPT !.detached = TRUE].state = tcb_table[a].state
          /\ [tcb_table[a] EXCEPT !.detached = TRUE].tid = tcb_table[a].tid
      BY Zenon, <1>0, <2>2, SetDetached
    <3> QED BY Zenon, <1>0, <2>2, <2>3, <3>1
  <2> HIDE DEF tbl
  <2> QED BY Zenon, <2>1, <2>4, ReapedFrame
<1>5. ASSUME NEW u \in Thread, Join(t, u)
      PROVE  KeysFrame
  <2>1. /\ pc[t] = "run" /\ pc' = [pc EXCEPT ![t] = "check"] /\ UNCHANGED tcb_table
        /\ at' = [at EXCEPT ![t] = First(Found(u))]
    BY Zenon, <1>5 DEF Join, lockVars
  <2>2. \A v \in Thread \ {t} : at'[v] = at[v]
    BY Zenon, <1>0, <2>1 DEF TypeOK
  <2> QED BY Zenon, <1>0, <2>1, <2>2, PcFrame
<1> QED BY Zenon, <1>1, <1>2, <1>3, <1>4, <1>5

(* pthread_exit starts with nothing scanned. *)
LEMMA ExitKeeps ==
  ASSUME IInv, KeysInv, NEW t \in Thread, NEW v, KExit(t, v)
  PROVE  KeysInv'
<1>1. /\ UNCHANGED <<key_used, key_dtor, gen, tls, main_tls, scan, tcb_table>>
      /\ pc[t] = "run" /\ Exit(t, v)
  BY Zenon DEF KExit, Exit, lockVars, keyVars, tlsVars
<1>2. KTypeOK' /\ MainTlsInv' /\ TlsInv'
  BY Zenon, <1>1 DEF KeysInv, KTypeOK, MainTlsInv, TlsInv, ValueOk, Used
<1>3. PICK x \in {"dying", "exit"} : pc' = [pc EXCEPT ![t] = x]
  BY Zenon, <1>1 DEF Exit
<1>4. \A u \in Thread : /\ pc'[u] = IF u = t THEN x ELSE pc[u]
                        /\ u # t => at'[u] = at[u]
  BY Zenon, <1>1, <1>3 DEF IInv, TypeOK, Exit
<1>5. ScanInv'
  <2> SUFFICES ASSUME NEW u \in Thread PROVE ScanOk(u)'
    BY Zenon DEF ScanInv
  <2>1. ScanOk(u)
    BY Zenon DEF KeysInv, ScanInv
  <2>2. CASE u = t
    <3>1. scan'[t] = ScanStart
      BY Zenon, <1>1, <2>1, <2>2 DEF ScanOk
    <3>2. \A k \in Key : ~(k < 1)
      BY DEF Key
    <3>3. /\ ~scan'[t].calling /\ ~scan'[t].done /\ scan'[t].key = 1
      BY <3>1 DEF ScanStart
    <3> QED BY Zenon, <2>2, <3>1, <3>2, <3>3 DEF ScanOk
  <2>3. CASE u # t
    <3>1. pc'[u] = pc[u] /\ at'[u] = at[u] /\ scan'[u] = scan[u]
      BY Zenon, <1>1, <1>4, <2>3
    <3>2. \A k \in Key : HasDtor(u, k)' => HasDtor(u, k)
      BY Zenon, <1>1, <3>1 DEF HasDtor
    <3> QED BY Zenon, <2>1, <3>1, <3>2, ScanKept
  <2> QED BY Zenon, <2>2, <2>3
<1> QED BY Zenon, <1>2, <1>5 DEF KeysInv

(* The start of run_tls_destructors, and an arbitrary place in it. *)
Scanning == [pass : 0 .. Passes - 1, key : Key, any : BOOLEAN, calling : BOOLEAN, done : BOOLEAN]

LEMMA ScanStartType == ScanStart \in Scanning
<1>1. 0 \in 0 .. Passes - 1 /\ 1 \in Key
  BY KeysAssumption DEF Key
<1> QED BY <1>1 DEF ScanStart, Scanning

(* Publishing the result ends the scan. *)
LEMMA ExitedKeeps ==
  ASSUME IInv, KeysInv, NEW t \in Thread, KExited(t)
  PROVE  KeysInv'
<1>0. /\ tcb_table \in [Slot -> Tcb] /\ at[t] \in Slot
      /\ retval[t] \in Value \cup {NULL}
  <2>1. pc[t] = "exit"
    BY Zenon DEF KExited, Exited
  <2>2. t \in Active
    BY Zenon, <2>1 DEF Active, IInv, LockInv
  <2>3. at[t] \in Slot
    BY Zenon, <2>1, <2>2 DEF IInv, ActiveInv, ActiveOk
  <2> QED BY Zenon, <2>3 DEF IInv, TypeOK
<1>1. /\ UNCHANGED <<key_used, key_dtor, gen, tls, main_tls, at>>
      /\ pc[t] = "exit" /\ \A u \in Thread : pc'[u] = IF u = t THEN "dying" ELSE pc[u]
      /\ scan' = [scan EXCEPT ![t] = ScanStart]
      /\ tcb_table' = [tcb_table EXCEPT ![at[t]].retval = retval[t], ![at[t]].state = "exited"]
  BY Zenon DEF KExited, Exited, localVars, keyVars, tlsVars, IInv, TypeOK
<1>2. scan \in [Thread -> Scanning]
  BY Zenon DEF KeysInv, KTypeOK, Scanning
<1>3. scan' \in [Thread -> Scanning]
  BY Zenon, <1>1, <1>2, ScanStartType
<1>4. KTypeOK' /\ MainTlsInv'
  BY Zenon, <1>1, <1>3 DEF KeysInv, KTypeOK, MainTlsInv, Scanning
<1>5. TlsInv'
  <2> DEFINE e == [tcb_table[at[t]] EXCEPT !.retval = retval[t], !.state = "exited"]
  <2>1. tcb_table' = [tcb_table EXCEPT ![at[t]] = e]
    BY Zenon, <1>0, <1>1
  <2>2. e.tid = tcb_table[at[t]].tid
    BY Zenon, <1>0, SetExited
  <2>3. Used(at[t])
    <3>1. SlotOk(at[t]) /\ tcb_table[at[t]].tid = t
      <4>1. t \in Active
        BY Zenon, <1>1 DEF Active, IInv, LockInv
      <4> QED BY Zenon, <1>0, <1>1, <4>1 DEF IInv, SlotInv, ActiveInv, ActiveOk
    <3> QED BY Zenon, <3>1, Constants DEF SlotOk, Used
  <2> HIDE DEF e
  <2>4. \A s \in Slot : /\ tcb_table'[s].tid = tcb_table[s].tid
                        /\ Used(s)' => Used(s)
    BY Zenon, <1>0, <2>1, <2>2, <2>3 DEF Used
  <2>5. UNCHANGED <<key_used, gen, tls>> /\ TlsInv
    BY Zenon, <1>1 DEF KeysInv
  <2> QED BY ZenonT(40), <2>4, <2>5 DEF TlsInv, ValueOk
<1>6. ScanInv'
  <2> SUFFICES ASSUME NEW u \in Thread PROVE ScanOk(u)'
    BY Zenon DEF ScanInv
  <2>1. ScanOk(u)
    BY Zenon DEF KeysInv, ScanInv
  <2>2. CASE u = t
    <3>1. scan'[t] = ScanStart /\ pc'[t] = "dying"
      BY Zenon, <1>0, <1>1, <1>2
    <3> QED BY Zenon, <2>2, <3>1 DEF ScanOk
  <2>3. CASE u # t
    <3>1. pc'[u] = pc[u] /\ scan'[u] = scan[u]
      BY Zenon, <1>0, <1>1, <1>2, <2>3
    <3>2. \A k \in Key : HasDtor(u, k)' => HasDtor(u, k)
      BY Zenon, <1>1 DEF HasDtor
    <3> QED BY Zenon, <2>1, <3>1, <3>2, ScanKept
  <2> QED BY Zenon, <2>2, <2>3
<1> QED BY Zenon, <1>4, <1>5, <1>6 DEF KeysInv

(* pthread_create hands out an entry without values. *)
LEMMA CreateKeeps ==
  ASSUME IInv, KeysInv, NEW t \in Thread, NEW u \in Thread, NEW st \in Stack,
         NEW d \in BOOLEAN, KCreate(t, u, st, d)
  PROVE  KeysInv'
<1> DEFINE tbl == Reaped(tcb_table)
           a == First(FreeSlots(tbl))
<1>1. /\ pc[t] = "run" /\ FreeSlots(tbl) # {}
      /\ pc' = [pc EXCEPT ![t] = "cloned", ![u] = "entry"]
      /\ at' = [at EXCEPT ![t] = a, ![u] = a]
      /\ WaitedFor(t, tcb_table)[u] = "none"
      /\ tls' = [tls EXCEPT ![at'[t]] = NoValues]
      /\ UNCHANGED <<key_used, key_dtor, gen, main_tls, scan>>
  BY Zenon DEF KCreate, Create, Clone, keyVars
<1>2. /\ tcb_table \in [Slot -> Tcb] /\ at \in [Thread -> Slot \cup {NoSlot}]
      /\ \A v \in Thread : pc'[v] = IF v = u THEN "entry" ELSE IF v = t THEN "cloned" ELSE pc[v]
      /\ tls \in [Slot -> [Key -> Stored \cup {NoValue}]]
  BY Zenon, <1>1 DEF IInv, TypeOK, KeysInv, KTypeOK
<1>3. a \in Slot
  <2>1. FreeSlots(tbl) \subseteq Slot
    BY Zenon DEF FreeSlots
  <2> QED BY Zenon, <1>1, <2>1, FirstFacts
<1>4. tbl \in [Slot -> Tcb]
      /\ \A s \in Slot : tbl[s].state = "unused" \/ tbl[s] = tcb_table[s]
  BY Zenon, <1>2, ReapedFacts
<1>5. PICK e : e.tid = NULL /\ tcb_table' = [tbl EXCEPT ![a] = e]
  <2> DEFINE e == [state |-> "running", detached |-> d, tid |-> NULL,
                   retval |-> NULL, stack_base |-> st]
  <2>1. tcb_table' = [tbl EXCEPT ![a] = e]
    BY Zenon DEF KCreate, Create
  <2> QED BY <2>1
<1>6. at'[t] = a /\ \A v \in Thread \ {t, u} : at'[v] = at[v]
  BY Zenon, <1>1, <1>2
<1> HIDE DEF a, tbl
<1>7. NoValues \in [Key -> Stored \cup {NoValue}] /\ \A k \in Key : NoValues[k] = NoValue
  BY Zenon DEF NoValues
<1>8. tls' \in [Slot -> [Key -> Stored \cup {NoValue}]]
      /\ \A s \in Slot : tls'[s] = IF s = a THEN NoValues ELSE tls[s]
  BY Zenon, <1>1, <1>2, <1>3, <1>6, <1>7
<1>9. KTypeOK' /\ MainTlsInv'
  BY Zenon, <1>1, <1>8 DEF KeysInv, KTypeOK, MainTlsInv
<1>10. TlsInv'
  <2> SUFFICES ASSUME NEW s \in Slot, NEW k \in Key, Used(s)', key_used[k]
               PROVE  ValueOk(s, k)'
    BY Zenon, <1>1 DEF TlsInv
  <2>1. CASE s = a
    BY Zenon, <1>7, <1>8, <2>1 DEF ValueOk
  <2>2. CASE s # a
    <3>1. tcb_table'[s] = tbl[s] /\ tls'[s] = tls[s]
      BY Zenon, <1>4, <1>5, <1>8, <2>2
    <3>2. tcb_table'[s] = tcb_table[s] /\ Used(s)
      BY Zenon, <1>4, <3>1 DEF Used
    <3> QED BY ZenonT(40), <1>1, <3>1, <3>2 DEF KeysInv, TlsInv, ValueOk
  <2> QED BY Zenon, <2>1, <2>2
<1>11. pc[u] = "none"
  BY Zenon, <1>1, WaitedForFacts DEF IInv, TaskInv
<1>12. pc[t] = "run"
  BY Zenon, <1>1
<1>13. ScanInv'
  <2> SUFFICES ASSUME NEW v \in Thread PROVE ScanOk(v)'
    BY Zenon DEF ScanInv
  <2>1. ScanOk(v) /\ scan'[v] = scan[v]
    BY Zenon, <1>1 DEF KeysInv, ScanInv
  <2>2. CASE v \in {t, u}
    <3>1. pc'[v] \notin {"exit", "dead"} /\ pc[v] \notin {"exit", "dead"}
      <4>1. pc'[v] \in {"entry", "cloned"}
        BY Zenon, <1>2, <2>2
      <4>2. pc[v] \in {"none", "run"}
        BY Zenon, <1>11, <1>12, <2>2
      <4> QED BY <4>1, <4>2
    <3> QED BY Zenon, <2>1, <3>1, ScanKept
  <2>3. CASE v \notin {t, u}
    <3>1. pc'[v] = pc[v] /\ at'[v] = at[v]
      BY Zenon, <1>2, <1>6, <2>3
    <3>2. ASSUME pc[v] = "exit", NEW k \in Key, HasDtor(v, k)'
          PROVE  HasDtor(v, k)
      <4>1. v \in Active
        BY Zenon, <3>2 DEF Active, IInv, LockInv
      <4>2. at[v] \in Slot
        BY Zenon, <3>2, <4>1 DEF IInv, ActiveInv, ActiveOk
      <4> QED BY Zenon, <1>1, <1>7, <1>8, <3>1, <3>2, <4>2 DEF HasDtor
    <3> QED BY Zenon, <2>1, <3>1, <3>2, ScanKept
  <2> QED BY Zenon, <2>2, <2>3
<1> QED BY Zenon, <1>9, <1>10, <1>13 DEF KeysInv

(* The first key that is not in use is one. *)
LEMMA FirstKey ==
  ASSUME NEW S, S \subseteq Key, S # {}
  PROVE  First(S) \in S
<1>1. S \subseteq Nat
  BY DEF Key
<1>2. \E s \in S : \A r \in S : s <= r
  BY <1>1, Least, Zenon
<1> QED BY Zenon, <1>2 DEF First

(* A step of the keys alone keeps the invariant if the values that are new are right, and no
   thread gets a new value to destroy behind its scan. *)
LEMMA ValuesKeep ==
  ASSUME KeysInv, KTypeOK', MainTlsInv', UNCHANGED <<vars, scan>>,
         \A s \in Slot, k \in Key : Used(s) /\ key_used'[k] => ValueOk(s, k)',
         \A t \in Thread, k \in Key :
           pc[t] = "exit" /\ ~scan[t].any /\ HasDtor(t, k)' => HasDtor(t, k)
  PROVE  KeysInv'
<1>1. UNCHANGED <<tcb_table, pc, at, scan>>
  BY Zenon DEF vars, lockVars, localVars
<1>2. TlsInv'
  BY Zenon, <1>1 DEF TlsInv, Used
<1>3. ScanInv'
  <2> SUFFICES ASSUME NEW t \in Thread PROVE ScanOk(t)'
    BY Zenon DEF ScanInv
  <2>1. ScanOk(t)
    BY Zenon DEF KeysInv, ScanInv
  <2> QED BY Zenon, <1>1, <2>1, ScanKept
<1> QED BY Zenon, <1>2, <1>3 DEF KeysInv

(* The entry of a thread in pthread_exit. *)
LEMMA ExitEntry ==
  ASSUME IInv, NEW t \in Thread, pc[t] = "exit"
  PROVE  at[t] \in Slot /\ tcb_table[at[t]].tid = t
<1>1. t \in Active
  BY Zenon DEF Active, IInv, LockInv
<1> QED BY Zenon, <1>1 DEF IInv, ActiveInv, ActiveOk

(* A new key has no values, whatever was stored under its number. *)
LEMMA KeyCreateKeeps ==
  ASSUME IInv, KeysInv, NEW t \in Thread, NEW dtor \in BOOLEAN, KeyCreate(t, dtor)
  PROVE  KeysInv'
<1> DEFINE free == {k \in Key : ~key_used[k]}
           c == First(free)
<1>0. KTypeOK /\ TlsInv /\ MainTlsInv
  BY Zenon DEF KeysInv
<1>1. /\ free # {} /\ gen[c] < MaxGen
      /\ key_used' = [key_used EXCEPT ![c] = TRUE]
      /\ key_dtor' = [key_dtor EXCEPT ![c] = dtor]
      /\ gen' = [gen EXCEPT ![c] = @ + 1]
      /\ main_tls' = [main_tls EXCEPT ![c] = NoValue]
      /\ tls' = [s \in Slot |-> [tls[s] EXCEPT ![c] = NoValue]]
      /\ UNCHANGED <<vars, scan>>
  BY Zenon DEF KeyCreate
<1>2. c \in Key /\ ~key_used[c]
  <2>1. free \subseteq Key
    BY Zenon
  <2>2. c \in free
    BY Zenon, <1>1, <2>1, FirstKey
  <2> QED BY Zenon, <2>2
<1> HIDE DEF c, free
<1>3. /\ key_used' \in [Key -> BOOLEAN] /\ key_dtor' \in [Key -> BOOLEAN]
      /\ main_tls' \in [Key -> Stored \cup {NoValue}]
      /\ tls' \in [Slot -> [Key -> Stored \cup {NoValue}]]
  BY Zenon, <1>0, <1>1, <1>2 DEF KTypeOK
<1>4. gen[c] + 1 \in 0 .. MaxGen /\ gen[c] + 1 # 0
  <2>1. gen[c] \in 0 .. MaxGen
    BY Zenon, <1>0, <1>2 DEF KTypeOK
  <2> QED BY <1>1, <2>1, KeysAssumption
<1>5. /\ gen' \in [Key -> 0 .. MaxGen] /\ gen'[c] # 0
      /\ \A k \in Key \ {c} : gen'[k] = gen[k]
  BY Zenon, <1>0, <1>1, <1>2, <1>4 DEF KTypeOK
<1>6. KTypeOK'
  BY Zenon, <1>0, <1>1, <1>3, <1>5 DEF KTypeOK
<1>7. \A k \in Key : /\ key_used'[k] = IF k = c THEN TRUE ELSE key_used[k]
                     /\ key_dtor'[k] = IF k = c THEN dtor ELSE key_dtor[k]
                     /\ main_tls'[k] = IF k = c THEN NoValue ELSE main_tls[k]
                     /\ \A s \in Slot : tls'[s][k] = IF k = c THEN NoValue ELSE tls[s][k]
  BY Zenon, <1>0, <1>1, <1>2 DEF KTypeOK
<1>8. MainTlsInv'
  <2> SUFFICES ASSUME NEW k \in Key, key_used'[k]
               PROVE  gen'[k] # 0 /\ main_tls'[k] \in {NoValue, [by |-> Main, gen |-> gen'[k]]}
    BY Zenon DEF MainTlsInv
  <2>1. CASE k = c
    BY Zenon, <1>5, <1>7, <2>1
  <2>2. CASE k # c
    BY Zenon, <1>0, <1>5, <1>7, <2>2 DEF MainTlsInv
  <2> QED BY Zenon, <2>1, <2>2
<1>9. UNCHANGED <<tcb_table, at>>
  BY Zenon, <1>1 DEF vars, lockVars, localVars
<1>10. \A s \in Slot, k \in Key : Used(s) /\ key_used'[k] => ValueOk(s, k)'
  <2> SUFFICES ASSUME NEW s \in Slot, NEW k \in Key, Used(s), key_used'[k]
               PROVE  ValueOk(s, k)'
    BY Zenon
  <2>1. CASE k = c
    BY Zenon, <1>7, <2>1 DEF ValueOk
  <2>2. CASE k # c
    <3>1. ValueOk(s, k) /\ tls'[s][k] = tls[s][k] /\ gen'[k] = gen[k]
      BY Zenon, <1>0, <1>5, <1>7, <2>2 DEF TlsInv
    <3> QED BY Zenon, <1>9, <3>1 DEF ValueOk
  <2> QED BY Zenon, <2>1, <2>2
<1>11. ASSUME NEW u \in Thread, NEW k \in Key, pc[u] = "exit", HasDtor(u, k)'
       PROVE  HasDtor(u, k)
  <2>1. at[u] \in Slot
    BY Zenon, <1>11, ExitEntry
  <2> QED BY Zenon, <1>7, <1>9, <1>11, <2>1 DEF HasDtor
<1> QED BY Zenon, <1>1, <1>6, <1>8, <1>10, <1>11, ValuesKeep

(* pthread_key_delete leaves the values, which no one gets to see any more. *)
LEMMA KeyDeleteKeeps ==
  ASSUME KeysInv, NEW t \in Thread, NEW c \in Key, KeyDelete(t, c)
  PROVE  KeysInv'
<1>0. KTypeOK /\ TlsInv /\ MainTlsInv
  BY Zenon DEF KeysInv
<1>1. /\ key_used' = [key_used EXCEPT ![c] = FALSE]
      /\ key_dtor' = [key_dtor EXCEPT ![c] = FALSE]
      /\ UNCHANGED <<vars, gen, tls, main_tls, scan>>
  BY Zenon DEF KeyDelete, tlsVars
<1>2. KTypeOK'
  BY Zenon, <1>0, <1>1 DEF KTypeOK
<1>3. \A k \in Key : /\ key_used'[k] = IF k = c THEN FALSE ELSE key_used[k]
                     /\ key_dtor'[k] = IF k = c THEN FALSE ELSE key_dtor[k]
  BY Zenon, <1>0, <1>1 DEF KTypeOK
<1>4. MainTlsInv'
  BY Zenon, <1>0, <1>1, <1>3 DEF MainTlsInv
<1>5. UNCHANGED <<tcb_table, at>>
  BY Zenon, <1>1 DEF vars, lockVars, localVars
<1>6. \A s \in Slot, k \in Key : Used(s) /\ key_used'[k] => ValueOk(s, k)'
  BY Zenon, <1>0, <1>1, <1>3, <1>5 DEF TlsInv, ValueOk
<1>7. \A u \in Thread, k \in Key : HasDtor(u, k)' => HasDtor(u, k)
  BY Zenon, <1>1, <1>3, <1>5 DEF HasDtor
<1> QED BY Zenon, <1>1, <1>2, <1>4, <1>6, <1>7, ValuesKeep

(* One value of the table changes. *)
LEMMA SetCell ==
  ASSUME NEW A, NEW B, NEW C, NEW f \in [A -> [B -> C]], NEW a \in A, NEW b \in B,
         NEW v \in C, NEW g, g = [f EXCEPT ![a][b] = v]
  PROVE  /\ g \in [A -> [B -> C]]
         /\ \A x \in A, y \in B : g[x][y] = IF x = a /\ y = b THEN v ELSE f[x][y]
<1>1. f[a] \in [B -> C] /\ [f[a] EXCEPT ![b] = v] \in [B -> C]
  BY Zenon
<1>2. g = [f EXCEPT ![a] = [f[a] EXCEPT ![b] = v]]
  BY Zenon
<1>3. g \in [A -> [B -> C]]
  BY Zenon, <1>1, <1>2
<1>4. \A x \in A : g[x] = IF x = a THEN [f[a] EXCEPT ![b] = v] ELSE f[x]
  BY Zenon, <1>2
<1>5. \A y \in B : [f[a] EXCEPT ![b] = v][y] = IF y = b THEN v ELSE f[a][y]
  BY Zenon, <1>1
<1> QED BY Zenon, <1>3, <1>4, <1>5

(* A thread that the table does not name, and that is in user code while nobody holds the
   lock, is Main. *)
LEMMA NotFound ==
  ASSUME IInv, NEW t \in Thread, InUserCode(t), Found(t) = {}, global_lock = NULL
  PROVE  t = Main
<1> SUFFICES ASSUME t # Main PROVE FALSE
  BY Zenon
<1>1. pc[t] \in {"run", "exit"}
  BY Zenon DEF InUserCode
<1>2. t \in Active
  BY <1>1 DEF Active
<1>3. PICK s \in Slot : tcb_table[s].tid = t /\ tcb_table[s].state = "running"
  BY Zenon, <1>1, <1>2 DEF IInv, ActiveInv, ActiveOk
<1>4. s \in Found(t)
  BY <1>3 DEF Found, Used
<1> QED BY Zenon, <1>4

(* The entry that pthread_setspecific and pthread_getspecific find. *)
LEMMA FoundEntry ==
  ASSUME NEW t \in Thread, Found(t) # {}
  PROVE  /\ First(Found(t)) \in Slot /\ Used(First(Found(t)))
         /\ tcb_table[First(Found(t))].tid = t
<1>1. Found(t) \subseteq Slot
  BY Zenon DEF Found
<1>2. First(Found(t)) \in Found(t)
  BY Zenon, <1>1, FirstFacts
<1> QED BY Zenon, <1>2 DEF Found

(* pthread_setspecific stores where only the thread itself looks, and behind its scan only
   from a destructor. *)
LEMMA SetSpecificKeeps ==
  ASSUME IInv, KeysInv, NEW t \in Thread, NEW c \in Key, NEW v,
         v \in {NoValue, [by |-> t, gen |-> gen[c]]}, SetSpecific(t, c, v)
  PROVE  KeysInv'
<1>0. KTypeOK /\ TlsInv /\ MainTlsInv /\ ScanOk(t)
  BY Zenon DEF KeysInv, ScanInv
<1>1. /\ InUserCode(t) /\ global_lock = NULL /\ key_used[c]
      /\ UNCHANGED <<vars, key_used, key_dtor, gen, scan>>
  BY Zenon DEF SetSpecific, keyVars
<1>2. UNCHANGED <<tcb_table, at>>
  BY Zenon, <1>1 DEF vars, lockVars, localVars
<1>3. v \in Stored \cup {NoValue}
  <2>1. gen[c] \in 0 .. MaxGen /\ gen[c] # 0
    BY Zenon, <1>0, <1>1 DEF KTypeOK, MainTlsInv
  <2>2. gen[c] \in 1 .. MaxGen
    BY <2>1, KeysAssumption
  <2>3. [by |-> t, gen |-> gen[c]] \in Stored
    BY Zenon, <2>2 DEF Stored
  <2> QED BY Zenon, <2>3
<1>4. CASE Found(t) # {}
  <2> DEFINE a == First(Found(t))
  <2>1. a \in Slot /\ Used(a) /\ tcb_table[a].tid = t
    BY Zenon, <1>4, FoundEntry
  <2>2. tls' = [tls EXCEPT ![a][c] = v] /\ UNCHANGED main_tls
    BY Zenon, <1>4 DEF SetSpecific
  <2> HIDE DEF a
  <2>3. /\ tls' \in [Slot -> [Key -> Stored \cup {NoValue}]]
        /\ \A s \in Slot, k \in Key : tls'[s][k] = IF s = a /\ k = c THEN v ELSE tls[s][k]
    <3>1. tls \in [Slot -> [Key -> Stored \cup {NoValue}]]
      BY Zenon, <1>0 DEF KTypeOK
    <3> QED BY ZenonT(40), <1>3, <2>1, <2>2, <3>1, SetCell
  <2>4. KTypeOK' /\ MainTlsInv'
    BY Zenon, <1>0, <1>1, <2>2, <2>3 DEF KTypeOK, MainTlsInv
  <2>5. ASSUME NEW s \in Slot, NEW k \in Key, Used(s), key_used'[k]
        PROVE  ValueOk(s, k)'
    <3>1. CASE s = a /\ k = c
      <4>1. tls'[s][k] = v /\ tcb_table'[s].tid = t /\ gen'[k] = gen[c] /\ t # NULL
        BY Zenon, <1>1, <1>2, <2>1, <2>3, <3>1, Constants
      <4> QED BY Zenon, <4>1 DEF ValueOk
    <3>2. CASE ~(s = a /\ k = c)
      <4>1. tls'[s][k] = tls[s][k] /\ ValueOk(s, k)
        BY Zenon, <1>0, <1>1, <2>3, <2>5, <3>2 DEF TlsInv
      <4> QED BY Zenon, <1>1, <1>2, <4>1 DEF ValueOk
    <3> QED BY Zenon, <3>1, <3>2
  <2>6. ASSUME NEW u \in Thread, NEW k \in Key, pc[u] = "exit", ~scan[u].any, HasDtor(u, k)'
        PROVE  HasDtor(u, k)
    <3>1. at[u] \in Slot /\ tcb_table[at[u]].tid = u
      BY Zenon, <2>6, ExitEntry
    <3>2. u # t
      <4> SUFFICES ASSUME u = t PROVE FALSE
        BY Zenon
      <4>1. pc[t] = "exit" /\ ~scan[t].any
        BY Zenon, <2>6
      <4>2. scan[t].calling
        BY <1>1, <4>1 DEF InUserCode
      <4> QED BY Zenon, <1>0, <4>1, <4>2 DEF ScanOk
    <3>3. tls'[at[u]][k] = tls[at[u]][k]
      BY Zenon, <2>1, <2>3, <3>1, <3>2
    <3> QED BY Zenon, <1>1, <1>2, <2>6, <3>3 DEF HasDtor
  <2> QED BY Zenon, <1>1, <2>4, <2>5, <2>6, ValuesKeep
<1>5. CASE Found(t) = {}
  <2>1. t = Main
    BY Zenon, <1>1, <1>5, NotFound
  <2>2. main_tls' = [main_tls EXCEPT ![c] = v] /\ UNCHANGED tls
    BY Zenon, <1>5 DEF SetSpecific
  <2>3. KTypeOK'
    BY Zenon, <1>0, <1>1, <1>3, <2>2 DEF KTypeOK
  <2>4. \A k \in Key : main_tls'[k] = IF k = c THEN v ELSE main_tls[k]
    BY Zenon, <1>0, <2>2 DEF KTypeOK
  <2>5. MainTlsInv'
    BY Zenon, <1>0, <1>1, <2>1, <2>4 DEF MainTlsInv
  <2>6. \A s \in Slot, k \in Key : Used(s) /\ key_used'[k] => ValueOk(s, k)'
    BY Zenon, <1>0, <1>1, <1>2, <2>2 DEF TlsInv, ValueOk
  <2>7. \A u \in Thread, k \in Key : HasDtor(u, k)' => HasDtor(u, k)
    BY Zenon, <1>1, <1>2, <2>2 DEF HasDtor
  <2> QED BY Zenon, <1>1, <2>3, <2>5, <2>6, <2>7, ValuesKeep
<1> QED BY Zenon, <1>4, <1>5

(* The next key of a scan: a pass that called no destructor is the last, and so is the pass
   number Passes. *)
LEMMA NextKeyFacts ==
  ASSUME NEW c \in Scanning, ~c.done
  PROVE  /\ NextKey(c) \in Scanning /\ ~NextKey(c).calling
         /\ \/ /\ ~NextKey(c).done /\ NextKey(c).key = c.key + 1 /\ NextKey(c).any = c.any
            \/ ~NextKey(c).done /\ NextKey(c).key = 1
            \/ /\ NextKey(c).done /\ c.key = MaxKeys /\ NextKey(c).any = c.any
               /\ NextKey(c).any => NextKey(c).pass = Passes - 1
<1>0. /\ c.pass \in 0 .. Passes - 1 /\ c.key \in 1 .. MaxKeys /\ c.any \in BOOLEAN
      /\ c.calling \in BOOLEAN /\ c.done \in BOOLEAN
      /\ MaxKeys \in Nat \ {0} /\ Passes \in Nat \ {0}
  BY Zenon, KeysAssumption DEF Scanning, Key
<1>1. CASE c.key < MaxKeys
  <2>1. NextKey(c) = [c EXCEPT !.key = c.key + 1, !.calling = FALSE]
    BY Zenon, <1>1 DEF NextKey
  <2>2. c.key + 1 \in Key
    BY <1>0, <1>1 DEF Key
  <2>3. NextKey(c) \in Scanning /\ NextKey(c).key = c.key + 1 /\ NextKey(c).any = c.any
        /\ NextKey(c).calling = FALSE /\ NextKey(c).done = c.done
    BY <2>1, <2>2 DEF Scanning
  <2> QED BY Zenon, <2>3
<1>2. CASE ~(c.key < MaxKeys) /\ c.any /\ c.pass + 1 < Passes
  <2>1. NextKey(c) = [c EXCEPT !.pass = c.pass + 1, !.key = 1, !.any = FALSE, !.calling = FALSE]
    BY Zenon, <1>2 DEF NextKey
  <2>2. c.pass + 1 \in 0 .. Passes - 1 /\ 1 \in Key
    BY <1>0, <1>2 DEF Key
  <2>3. NextKey(c) \in Scanning /\ NextKey(c).key = 1
        /\ NextKey(c).calling = FALSE /\ NextKey(c).done = c.done
    BY <2>1, <2>2 DEF Scanning
  <2> QED BY Zenon, <2>3
<1>3. CASE ~(c.key < MaxKeys) /\ ~(c.any /\ c.pass + 1 < Passes)
  <2>1. NextKey(c) = [c EXCEPT !.done = TRUE, !.calling = FALSE]
    BY Zenon, <1>3 DEF NextKey
  <2>2. NextKey(c) \in Scanning /\ NextKey(c).any = c.any /\ NextKey(c).pass = c.pass
        /\ NextKey(c).calling = FALSE /\ NextKey(c).done = TRUE
    BY <2>1 DEF Scanning
  <2>3. c.key = MaxKeys /\ (c.any => c.pass = Passes - 1)
    BY <1>0, <1>3
  <2> QED BY Zenon, <2>2, <2>3
<1> QED BY Zenon, <1>1, <1>2, <1>3

(* The scan of t goes to the next key, when nothing is left to destroy under the one at hand
   or a destructor was called in this pass. *)
LEMMA ScanAdvances ==
  ASSUME KeysInv, NEW t \in Thread, pc[t] = "exit", ~scan[t].done,
         scan[t].any \/ ~HasDtor(t, scan[t].key),
         scan' = [scan EXCEPT ![t] = NextKey(@)],
         UNCHANGED <<vars, key_used, key_dtor, gen, tls, main_tls>>
  PROVE  KeysInv'
<1>0. KTypeOK /\ TlsInv /\ MainTlsInv /\ ScanInv
  BY Zenon DEF KeysInv
<1>1. scan \in [Thread -> Scanning] /\ scan[t] \in Scanning
  BY Zenon, <1>0 DEF KTypeOK, Scanning
<1> DEFINE c == scan[t]
           n == NextKey(c)
<1>2. /\ n \in Scanning /\ ~n.calling
      /\ \/ ~n.done /\ n.key = c.key + 1 /\ n.any = c.any
         \/ ~n.done /\ n.key = 1
         \/ /\ n.done /\ c.key = MaxKeys /\ n.any = c.any
            /\ n.any => n.pass = Passes - 1
  BY Zenon, <1>1, NextKeyFacts
<1>3. scan' \in [Thread -> Scanning] /\ \A u \in Thread : scan'[u] = IF u = t THEN n ELSE scan[u]
  BY Zenon, <1>1, <1>2
<1>4. UNCHANGED <<tcb_table, pc, at>>
  BY Zenon DEF vars, lockVars, localVars
<1>5. KTypeOK' /\ MainTlsInv' /\ TlsInv'
  <2>1. KTypeOK' /\ MainTlsInv'
    BY Zenon, <1>0, <1>3 DEF KTypeOK, MainTlsInv, Scanning
  <2>2. TlsInv'
    BY Zenon, <1>0, <1>4 DEF TlsInv, ValueOk, Used
  <2> QED BY Zenon, <2>1, <2>2
<1>6. \A u \in Thread, k \in Key : HasDtor(u, k)' = HasDtor(u, k)
  BY Zenon, <1>4 DEF HasDtor
<1>7. ScanOk(t)'
  <2>1. c.key \in Key /\ ScanOk(t)
    BY Zenon, <1>0, <1>1 DEF Scanning, ScanInv
  <2> HIDE DEF n, c
  <2>2. ASSUME NEW k \in Key, ~n.any, k < n.key \/ n.done
        PROVE  ~HasDtor(t, k)
    <3>1. c.any = n.any /\ (k < c.key \/ k = c.key)
      <4>1. CASE ~n.done /\ n.key = c.key + 1 /\ n.any = c.any
        BY <2>1, <2>2, <4>1 DEF Key
      <4>2. CASE ~n.done /\ n.key = 1
        BY <2>2, <4>2 DEF Key
      <4>3. CASE n.done /\ c.key = MaxKeys /\ n.any = c.any
        BY <2>1, <2>2, <4>3, KeysAssumption DEF Key
      <4> QED BY Zenon, <1>2, <4>1, <4>2, <4>3
    <3> QED BY Zenon, <2>1, <2>2, <3>1 DEF ScanOk, c
  <2>3. scan'[t] = n /\ pc'[t] = "exit"
    BY Zenon, <1>3, <1>4 DEF n, c
  <2>4. n.done /\ n.any => n.pass = Passes - 1
    BY Zenon, <1>2
  <2> QED BY Zenon, <1>2, <1>6, <2>2, <2>3, <2>4 DEF ScanOk
<1>8. ScanInv'
  <2> SUFFICES ASSUME NEW u \in Thread PROVE ScanOk(u)'
    BY Zenon DEF ScanInv
  <2>1. CASE u = t
    BY Zenon, <1>7, <2>1
  <2>2. CASE u # t
    <3>1. ScanOk(u) /\ scan'[u] = scan[u]
      BY Zenon, <1>0, <1>3, <2>2 DEF ScanInv
    <3> QED BY Zenon, <1>4, <1>6, <3>1, ScanKept
  <2> QED BY Zenon, <2>1, <2>2
<1> QED BY Zenon, <1>5, <1>8 DEF KeysInv

(* A value is taken away and given to its destructor. *)
LEMMA DtorCalled ==
  ASSUME IInv, KeysInv, NEW t \in Thread, pc[t] = "exit", ~scan[t].done,
         tls' = [tls EXCEPT ![at[t]][scan[t].key] = NoValue],
         scan' = [scan EXCEPT ![t].any = TRUE, ![t].calling = TRUE],
         UNCHANGED <<vars, key_used, key_dtor, gen, main_tls>>
  PROVE  KeysInv'
<1>0. KTypeOK /\ TlsInv /\ MainTlsInv /\ ScanInv
  BY Zenon DEF KeysInv
<1>1. scan \in [Thread -> Scanning] /\ scan[t] \in Scanning /\ scan[t].key \in Key
  BY Zenon, <1>0 DEF KTypeOK, Scanning
<1>2. at[t] \in Slot
  BY Zenon, ExitEntry
<1>3. /\ tls' \in [Slot -> [Key -> Stored \cup {NoValue}]]
      /\ \A s \in Slot, k \in Key :
           tls'[s][k] = IF s = at[t] /\ k = scan[t].key THEN NoValue ELSE tls[s][k]
  <2>1. tls \in [Slot -> [Key -> Stored \cup {NoValue}]] /\ NoValue \in Stored \cup {NoValue}
    BY Zenon, <1>0 DEF KTypeOK
  <2> QED BY Zenon, <1>1, <1>2, <2>1, SetCell
<1> DEFINE n == [scan[t] EXCEPT !.any = TRUE, !.calling = TRUE]
<1>4. n \in Scanning /\ n.any /\ n.done = scan[t].done
  BY Zenon, <1>1 DEF Scanning
<1>5. scan' = [scan EXCEPT ![t] = n]
  BY Zenon, <1>1
<1> HIDE DEF n
<1>6. scan' \in [Thread -> Scanning] /\ \A u \in Thread : scan'[u] = IF u = t THEN n ELSE scan[u]
  BY Zenon, <1>1, <1>4, <1>5
<1>7. UNCHANGED <<tcb_table, pc, at>>
  BY Zenon DEF vars, lockVars, localVars
<1>8. KTypeOK' /\ MainTlsInv'
  BY Zenon, <1>0, <1>3, <1>6 DEF KTypeOK, MainTlsInv, Scanning
<1>9. TlsInv'
  <2> SUFFICES ASSUME NEW s \in Slot, NEW k \in Key, Used(s)', key_used'[k]
               PROVE  ValueOk(s, k)'
    BY Zenon DEF TlsInv
  <2>1. ValueOk(s, k)
    BY Zenon, <1>0, <1>7 DEF TlsInv, Used
  <2>2. tls'[s][k] = NoValue \/ tls'[s][k] = tls[s][k]
    BY Zenon, <1>3
  <2> QED BY Zenon, <1>7, <2>1, <2>2 DEF ValueOk
<1>10. ScanInv'
  <2> SUFFICES ASSUME NEW u \in Thread PROVE ScanOk(u)'
    BY Zenon DEF ScanInv
  <2>1. CASE u = t
    <3>1. scan'[u] = n /\ pc'[u] = "exit" /\ n.any /\ ~n.done
      BY Zenon, <1>4, <1>6, <1>7, <2>1
    <3> QED BY Zenon, <3>1 DEF ScanOk
  <2>2. CASE u # t
    <3>1. ScanOk(u) /\ scan'[u] = scan[u]
      BY Zenon, <1>0, <1>6, <2>2 DEF ScanInv
    <3>2. ASSUME pc[u] = "exit", NEW k \in Key, HasDtor(u, k)'
          PROVE  HasDtor(u, k)
      <4>1. at[u] \in Slot
        BY Zenon, <3>2, ExitEntry
      <4> QED BY Zenon, <1>3, <1>7, <3>2, <4>1 DEF HasDtor
    <3> QED BY Zenon, <1>7, <3>1, <3>2, ScanKept
  <2> QED BY Zenon, <2>1, <2>2
<1> QED BY Zenon, <1>8, <1>9, <1>10 DEF KeysInv

(* Every step keeps the invariant of the keys. *)
LEMMA NextKeys == IInv /\ KeysInv /\ [KNext]_allVars => KeysInv'
<1> SUFFICES ASSUME IInv, KeysInv, [KNext]_allVars PROVE KeysInv'
  BY Zenon
<1>1. CASE UNCHANGED allVars
  <2>1. Same /\ UNCHANGED <<tcb_table, pc, at>>
    BY Zenon, <1>1 DEF allVars, vars, lockVars, localVars, Same
  <2>2. KeysFrame
    BY Zenon, <2>1 DEF KeysFrame, Used
  <2> QED BY Zenon, <2>1, <2>2, FrameKeeps
<1>2. CASE KNext
  <2>1. PICK t \in Thread :
          \/ InLibrary(t) \/ Others(t) \/ KExited(t) \/ DtorStep(t) \/ DtorReturns(t)
          \/ \E u \in Thread, st \in Stack, d \in BOOLEAN : KCreate(t, u, st, d)
          \/ \E v \in Value : KExit(t, v)
          \/ \E d \in BOOLEAN : KeyCreate(t, d)
          \/ \E k \in Key : \/ KeyDelete(t, k)
                            \/ SetSpecific(t, k, [by |-> t, gen |-> gen[k]])
                            \/ SetSpecific(t, k, NoValue)
    BY Zenon, <1>2 DEF KNext, KAdvance
  <2>2. CASE InLibrary(t)
    <3>1. KeysFrame /\ Same
      BY Zenon, <2>2, LibraryFrame DEF InLibrary
    <3> QED BY Zenon, <3>1, FrameKeeps
  <2>3. CASE Others(t)
    <3>1. KeysFrame /\ Same
      BY Zenon, <2>3, CallFrame DEF Others
    <3> QED BY Zenon, <3>1, FrameKeeps
  <2>4. CASE DtorStep(t)
    <3>1. /\ pc[t] = "exit" /\ ~scan[t].done
          /\ UNCHANGED <<vars, key_used, key_dtor, gen, main_tls>>
      BY Zenon, <2>4 DEF DtorStep, keyVars
    <3>2. CASE HasDtor(t, scan[t].key)
      <4>1. /\ tls' = [tls EXCEPT ![at[t]][scan[t].key] = NoValue]
            /\ scan' = [scan EXCEPT ![t].any = TRUE, ![t].calling = TRUE]
        BY Zenon, <2>4, <3>2 DEF DtorStep
      <4> QED BY Zenon, <3>1, <4>1, DtorCalled
    <3>3. CASE ~HasDtor(t, scan[t].key)
      <4>1. scan' = [scan EXCEPT ![t] = NextKey(@)] /\ UNCHANGED tls
        BY Zenon, <2>4, <3>3 DEF DtorStep
      <4> QED BY Zenon, <3>1, <3>3, <4>1, ScanAdvances
    <3> QED BY Zenon, <3>2, <3>3
  <2>5. CASE DtorReturns(t)
    <3>1. /\ pc[t] = "exit" /\ scan[t].calling /\ scan' = [scan EXCEPT ![t] = NextKey(@)]
          /\ UNCHANGED <<vars, key_used, key_dtor, gen, tls, main_tls>>
      BY Zenon, <2>5 DEF DtorReturns, keyVars, tlsVars
    <3>2. scan[t].any /\ ~scan[t].done
      BY Zenon, <3>1 DEF KeysInv, ScanInv, ScanOk
    <3> QED BY Zenon, <3>1, <3>2, ScanAdvances
  <2>6. ASSUME NEW k \in Key, SetSpecific(t, k, [by |-> t, gen |-> gen[k]])
        PROVE  KeysInv'
    <3>1. [by |-> t, gen |-> gen[k]] \in {NoValue, [by |-> t, gen |-> gen[k]]}
      BY Zenon
    <3> QED BY Zenon, <2>6, <3>1, SetSpecificKeeps
  <2>7. ASSUME NEW k \in Key, SetSpecific(t, k, NoValue)
        PROVE  KeysInv'
    <3>1. NoValue \in {NoValue, [by |-> t, gen |-> gen[k]]}
      BY Zenon
    <3> QED BY Zenon, <2>7, <3>1, SetSpecificKeeps
  <2>8. ASSUME NEW u \in Thread, NEW st \in Stack, NEW d \in BOOLEAN, KCreate(t, u, st, d)
        PROVE  KeysInv'
    BY Zenon, <2>8, CreateKeeps
  <2>9. ASSUME NEW v, KExit(t, v)
        PROVE  KeysInv'
    BY Zenon, <2>9, ExitKeeps
  <2>10. ASSUME NEW d \in BOOLEAN, KeyCreate(t, d)
         PROVE  KeysInv'
    BY Zenon, <2>10, KeyCreateKeeps
  <2>11. ASSUME NEW k \in Key, KeyDelete(t, k)
         PROVE  KeysInv'
    BY Zenon, <2>11, KeyDeleteKeeps
  <2>12. CASE KExited(t)
    BY Zenon, <2>12, ExitedKeeps
  <2> QED BY Zenon, <2>1, <2>2, <2>3, <2>4, <2>5, <2>6, <2>7, <2>8, <2>9, <2>10, <2>11, <2>12
<1> QED BY Zenon, <1>1, <1>2

(* No key is in use, and no thread exits, when the program starts. *)
LEMMA InitKeys == KInit => KeysInv
<1> SUFFICES ASSUME KInit PROVE KeysInv
  BY Zenon
<1>1. scan \in [Thread -> Scanning]
  BY Zenon, ScanStartType DEF KInit
<1>2. 0 \in 0 .. MaxGen
  BY KeysAssumption
<1>3. KTypeOK
  BY Zenon, <1>1, <1>2 DEF KInit, KTypeOK, NoValues, Scanning
<1>4. TlsInv /\ MainTlsInv
  BY Zenon DEF KInit, TlsInv, MainTlsInv
<1>5. \A t \in Thread : pc[t] # "exit" /\ scan[t] = ScanStart
  BY Zenon DEF KInit, Init
<1>6. ScanInv
  BY Zenon, <1>5 DEF ScanInv, ScanOk
<1> QED BY Zenon, <1>3, <1>4, <1>6 DEF KeysInv

(* The invariant of the keys holds always: it rests on that of the threads, which the
   refinement KeysKeepThreads brings along. *)
THEOREM KeysInvariant == KSpec => [](IInv /\ KeysInv)
<1>1. KSpec => []IInv
  BY KeysKeepThreads, Invariance, PTL
<1>2. KInit => KeysInv
  BY InitKeys
<1>3. IInv /\ KeysInv /\ [KNext]_allVars => KeysInv'
  BY NextKeys
<1> QED BY <1>1, <1>2, <1>3, PTL DEF KSpec

(* pthread_getspecific gives a thread what it stored itself since the key was created. *)
THEOREM TlsSafe == KSpec => []TlsOwned
<1>1. IInv /\ KeysInv => TlsOwned
  <2> SUFFICES ASSUME IInv, KeysInv, NEW k \in Key, NEW t \in Thread,
                      InUserCode(t), global_lock = NULL
               PROVE  GetSpecific(t, k) \in {NoValue, [by |-> t, gen |-> gen[k]]}
    BY Zenon DEF TlsOwned
  <2>1. CASE ~key_used[k]
    BY Zenon, <2>1 DEF GetSpecific
  <2>2. CASE key_used[k] /\ Found(t) # {}
    <3> DEFINE a == First(Found(t))
    <3>1. a \in Slot /\ Used(a) /\ tcb_table[a].tid = t
      BY Zenon, <2>2, FoundEntry
    <3>2. GetSpecific(t, k) = tls[a][k]
      BY Zenon, <2>2 DEF GetSpecific
    <3> HIDE DEF a
    <3>3. ValueOk(a, k)
      BY Zenon, <2>2, <3>1 DEF KeysInv, TlsInv
    <3> QED BY Zenon, <3>1, <3>2, <3>3 DEF ValueOk
  <2>3. CASE key_used[k] /\ Found(t) = {}
    <3>1. t = Main
      BY Zenon, <2>3, NotFound
    <3>2. GetSpecific(t, k) = main_tls[k]
      BY Zenon, <2>3 DEF GetSpecific
    <3> QED BY Zenon, <2>3, <3>1, <3>2 DEF KeysInv, MainTlsInv
  <2> QED BY Zenon, <2>1, <2>2, <2>3
<1> QED BY <1>1, KeysInvariant, PTL

(* run_tls_destructors leaves a value to no destructor, but after Passes passes that each
   called one. *)
THEOREM DtorsSafe == KSpec => []DtorsRun
<1>1. KeysInv => DtorsRun
  BY Zenon DEF KeysInv, ScanInv, ScanOk, DtorsRun
<1> QED BY <1>1, KeysInvariant, PTL

================================================================================
