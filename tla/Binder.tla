-------------------------------- MODULE Binder --------------------------------
(***************************************************************************)
(* The /dev/binder driver of SIX (drivers/char/binder.c): the table of     *)
(* binder_procs, the registry of services, transactions and replies, and   *)
(* the ring of hotplug uevents.                                            *)
(*                                                                         *)
(* The kernel is not preemptive: sun_handler (arch/six/kernel/irq.c) calls *)
(* ret_from_sys_call, the only place that reschedules, when it interrupts  *)
(* user mode only.  An ioctl is therefore one step up to the point where   *)
(* it sleeps (sleep_on, interruptible_sleep_on, select) and one step from  *)
(* the wake-up to the next sleep or to its return.  kmalloc does not sleep *)
(* in this kernel: swap_out (mm/vmscan.c) is a stub.  Nor does a copy to   *)
(* or from user memory: there is no demand paging (SEGV_action, irq.c), so *)
(* the static message buffers of the driver are not shared between calls.  *)
(*                                                                         *)
(* A task that sleeps is in the state "asleep" until some step wakes it;   *)
(* nothing else lets it run, so that a lost wake-up is a state of the      *)
(* model.  A task stands for one user of an open file, as a forked child,  *)
(* which shares its parent's binder_proc and holds a reference of its own. *)
(* So do the threads of a process, on condition that none of them closes   *)
(* the descriptor while another is inside a call on it: they have one      *)
(* table of descriptors (CLONE_FILES), and a call takes no reference.      *)
(***************************************************************************)
EXTENDS Naturals, Sequences, FiniteSets

CONSTANTS
  Task,         \* tasks that use the driver
  Root,         \* the tasks with euid 0
  Name,         \* service names
  Stored,       \* what the 64 bytes of an entry keep of each name
  ReadCall,     \* the calls in use that sleep on proc->wait: the driver has three
  MaxProcs,     \* BINDER_MAX_PROCS, 32 in the code
  MaxServices,  \* BINDER_MAX_SERVICES, 32 in the code
  RingSize,     \* BINDER_UEVENT_RING_SIZE, 8 in the code
  MaxTxns,      \* bound: transactions ever sent
  MaxHandles,   \* bound: service handles ever issued
  MaxUevents    \* bound: uevents ever emitted

ASSUME ConstantsAssumption ==
  /\ MaxProcs \in Nat /\ MaxServices \in Nat /\ MaxTxns \in Nat
  /\ MaxHandles \in Nat /\ MaxUevents \in Nat
  /\ RingSize \in Nat \ {0}
  /\ Root \subseteq Task
  /\ ReadCall \subseteq {"recv", "wait_event", "select"}

ASSUME StoredAssumption ==
  /\ Stored \in [Name -> Name]
  /\ \A n \in Name : Stored[Stored[n]] = Stored[n]

Slot == 1 .. MaxProcs
SvcSlot == 1 .. MaxServices
TxnId == 1 .. MaxTxns
None == 0       \* a null pointer: no binder_proc, no transaction

VARIABLES
  file,               \* the binder_proc behind each task's descriptor, or None
  pc,                 \* the driver call each task is in, "user" when in none
  run,                \* "running", "asleep", or "signalled": awake with a signal pending
  cur,                \* the transaction a task in do_transact waits for, or None
  in_use, todo, in_flight, last_uevent_seq,   \* fields of binder_procs[]
  txn,                \* the transactions, by txn_id
  next_txn_id,
  context_mgr,        \* binder_context_mgr
  svcs, next_svc_handle,
  global_uevent_seq,  \* counted from 0, where the code starts at 1000
  uevent_ring,
  usb_online          \* whether usb_sd.c has its medium attached

taskVars == <<file, pc, run, cur>>
procVars == <<in_use, todo, in_flight>>
txnVars == <<txn, next_txn_id>>
svcVars == <<context_mgr, svcs, next_svc_handle>>
ueventVars == <<global_uevent_seq, uevent_ring, last_uevent_seq, usb_online>>
vars == <<taskVars, procVars, txnVars, svcVars, ueventVars>>

(* The fields of struct binder_txn that the driver reads again.  A free one has
   no target; status is the reply's, or -EPIPE when the target died. *)
Txn == [target : Slot \cup {None}, oneway : BOOLEAN, done : BOOLEAN,
        status : {"none", "replied", "EPIPE"}]
FreeTxn == [target |-> None, oneway |-> FALSE, done |-> FALSE, status |-> "none"]

NewTxn(p, oneway) == [target |-> p, oneway |-> oneway, done |-> FALSE, status |-> "none"]
Finished(x, status) == [target |-> x.target, oneway |-> x.oneway, done |-> TRUE,
                        status |-> status]
Allocated(i) == txn[i].target # None

(* struct binder_svc_entry; a free one is not read until memset clears it. *)
Svc == [in_use : BOOLEAN, handle : Nat, owner : Slot \cup {None},
        name : Name \cup {None}]
FreeSvc == [in_use |-> FALSE, handle |-> 0, owner |-> None, name |-> None]

(* The element a loop over a table finds first. *)
First(k, S) == k \in S /\ \A l \in S : k <= l
OnTodo(p, i) == \E k \in 1 .. Len(todo[p]) : todo[p][k] = i

-------------------------------------------------------------------------------
(* Waking up.  Each operator is the whole of run after the wake-up. *)

(* A plausible slip: only the sleepers of binder_do_recv are on proc->wait. *)
SleepsInRecv(u, p) == file[u] = p /\ pc[u] = "recv" /\ run[u] = "asleep"

SleepsOnProc(u, p) == file[u] = p /\ pc[u] \in ReadCall /\ run[u] = "asleep"

(* A plausible slip: the wake-up is forgotten. *)
WakeNobody(p) == run

(* wake_up_interruptible(&proc->wait): every reader of p, none of the senders. *)
WakeReaders(p) ==
  [u \in Task |-> IF SleepsOnProc(u, p) THEN "running" ELSE run[u]]

(* wake_up(&txn->reply_wait) for every transaction of I. *)
WakeSenders(I) ==
  [u \in Task |-> IF pc[u] = "transact" /\ cur[u] \in I THEN "running" ELSE run[u]]

-------------------------------------------------------------------------------
(* Opening, sharing and closing the device. *)

FreeSlots == {p \in Slot : ~in_use[p]}

(* binder_open: the first slot that is not in use; -ENOMEM, and no step, when
   there is none. *)
BinderOpen(t) ==
  /\ pc[t] = "user" /\ file[t] = None
  /\ \E p \in Slot :
       /\ First(p, FreeSlots)
       /\ file' = [file EXCEPT ![t] = p]
       /\ in_use' = [in_use EXCEPT ![p] = TRUE]
       /\ todo' = [todo EXCEPT ![p] = <<>>]
       /\ in_flight' = [in_flight EXCEPT ![p] = {}]
       /\ last_uevent_seq' = [last_uevent_seq EXCEPT ![p] = global_uevent_seq]
  /\ UNCHANGED <<pc, run, cur, txnVars, svcVars, global_uevent_seq, uevent_ring,
                 usb_online>>

(* fork or clone: the new task u takes a reference to the open file of t. *)
Share(t, u) ==
  /\ pc[t] = "user" /\ file[t] # None
  /\ pc[u] = "user" /\ file[u] = None
  /\ file' = [file EXCEPT ![u] = file[t]]
  /\ UNCHANGED <<pc, run, cur, procVars, txnVars, svcVars, ueventVars>>

(* A plausible slip: every close, not only the last one, releases the slot. *)
CloseSharedReleases(t) ==
  /\ pc[t] = "user" /\ file[t] # None
  /\ \E u \in Task \ {t} : file[u] = file[t]
  /\ file' = [file EXCEPT ![t] = None]
  /\ in_use' = [in_use EXCEPT ![file[t]] = FALSE]
  /\ UNCHANGED <<pc, run, cur, todo, in_flight, txnVars, svcVars, ueventVars>>

(* close_fp when another task still holds the file. *)
CloseShared(t) ==
  /\ pc[t] = "user" /\ file[t] # None
  /\ \E u \in Task \ {t} : file[u] = file[t]
  /\ file' = [file EXCEPT ![t] = None]
  /\ UNCHANGED <<pc, run, cur, procVars, txnVars, svcVars, ueventVars>>

(* Every transaction still held by p: those on todo and those in flight. *)
HeldBy(p) == {i \in TxnId : OnTodo(p, i) \/ i \in in_flight[p]}

(* Two plausible slips: a release that fails only the transactions not yet
   received, and one that leaves the services registered. *)
ReleaseTodoOnly(t) ==
  /\ pc[t] = "user" /\ file[t] # None
  /\ \A u \in Task \ {t} : file[u] # file[t]
  /\ LET p == file[t]
         Failed == {i \in TxnId : OnTodo(p, i)} IN
       /\ context_mgr' = IF context_mgr = p THEN None ELSE context_mgr
       /\ txn' = [i \in TxnId |->
                    IF i \notin Failed THEN txn[i]
                    ELSE IF txn[i].oneway THEN FreeTxn
                    ELSE Finished(txn[i], "EPIPE")]
       /\ run' = WakeSenders(Failed)
       /\ todo' = [todo EXCEPT ![p] = <<>>]
       /\ in_flight' = [in_flight EXCEPT ![p] = {}]
       /\ svcs' = [k \in SvcSlot |->
                     IF svcs[k].in_use /\ svcs[k].owner = p THEN FreeSvc ELSE svcs[k]]
       /\ in_use' = [in_use EXCEPT ![p] = FALSE]
  /\ file' = [file EXCEPT ![t] = None]
  /\ UNCHANGED <<pc, cur, next_txn_id, next_svc_handle, ueventVars>>

ReleaseKeepsServices(t) ==
  /\ pc[t] = "user" /\ file[t] # None
  /\ \A u \in Task \ {t} : file[u] # file[t]
  /\ LET p == file[t]
         Failed == HeldBy(p) IN
       /\ context_mgr' = IF context_mgr = p THEN None ELSE context_mgr
       /\ txn' = [i \in TxnId |->
                    IF i \notin Failed THEN txn[i]
                    ELSE IF txn[i].oneway THEN FreeTxn
                    ELSE Finished(txn[i], "EPIPE")]
       /\ run' = WakeSenders(Failed)
       /\ todo' = [todo EXCEPT ![p] = <<>>]
       /\ in_flight' = [in_flight EXCEPT ![p] = {}]
       /\ in_use' = [in_use EXCEPT ![p] = FALSE]
  /\ file' = [file EXCEPT ![t] = None]
  /\ UNCHANGED <<pc, cur, next_txn_id, next_svc_handle, ueventVars, svcs>>

(* close_fp by the last holder, on its own or in exit: binder_release frees the
   one-way transactions of p, fails the others with -EPIPE, wakes their senders
   and frees the services p owns. *)
BinderRelease(t) ==
  /\ pc[t] = "user" /\ file[t] # None
  /\ \A u \in Task \ {t} : file[u] # file[t]
  /\ LET p == file[t] IN
       /\ context_mgr' = IF context_mgr = p THEN None ELSE context_mgr
       /\ txn' = [i \in TxnId |->
                    IF i \notin HeldBy(p) THEN txn[i]
                    ELSE IF txn[i].oneway THEN FreeTxn
                    ELSE Finished(txn[i], "EPIPE")]
       /\ run' = WakeSenders(HeldBy(p))
       /\ todo' = [todo EXCEPT ![p] = <<>>]
       /\ in_flight' = [in_flight EXCEPT ![p] = {}]
       /\ svcs' = [k \in SvcSlot |->
                     IF svcs[k].in_use /\ svcs[k].owner = p THEN FreeSvc ELSE svcs[k]]
       /\ in_use' = [in_use EXCEPT ![p] = FALSE]
  /\ file' = [file EXCEPT ![t] = None]
  /\ UNCHANGED <<pc, cur, next_txn_id, next_svc_handle, ueventVars>>

-------------------------------------------------------------------------------
(* The context manager and the service registry. *)

(* BINDER_SET_CONTEXT_MGR: -EPERM without euid 0, -EBUSY while another process
   is the manager. *)
SetContextMgr(t) ==
  /\ pc[t] = "user" /\ file[t] # None
  /\ t \in Root
  /\ context_mgr \in {None, file[t]}
  /\ context_mgr' = file[t]
  /\ UNCHANGED <<taskVars, procVars, txnVars, svcs, next_svc_handle, ueventVars>>

(* binder_find_svc_by_name and binder_find_svc_by_handle: the entries that match. *)
FindByName(n) == {k \in SvcSlot : svcs[k].in_use /\ svcs[k].name = n}
FindByHandle(h) == {k \in SvcSlot : svcs[k].in_use /\ svcs[k].handle = h}
FreeSvcSlots == {k \in SvcSlot : ~svcs[k].in_use}

(* A plausible slip: the handle of a new service is its place in the table. *)
RegisterBySlot(p, n) ==
  \/ \E k \in SvcSlot :
       /\ First(k, FindByName(n))
       /\ svcs' = [svcs EXCEPT ![k].owner = p]
       /\ UNCHANGED next_svc_handle
  \/ /\ FindByName(n) = {}
     /\ next_svc_handle <= MaxHandles
     /\ \E k \in SvcSlot :
          /\ First(k, FreeSvcSlots)
          /\ svcs' = [svcs EXCEPT ![k] =
                        [in_use |-> TRUE, handle |-> k, owner |-> p, name |-> Stored[n]]]
     /\ next_svc_handle' = next_svc_handle + 1

(* binder_register_service_internal: a name that is registered keeps its handle
   and changes owner; a new one takes the first free entry and the next handle;
   when the table is full (-ENOMEM) nothing changes.  The name is looked up whole
   and stored cut to BINDER_MAX_NAME_LEN - 1 characters. *)
RegisterService(p, n) ==
  \/ \E k \in SvcSlot :
       /\ First(k, FindByName(n))
       /\ svcs' = [svcs EXCEPT ![k].owner = p]
       /\ UNCHANGED next_svc_handle
  \/ /\ FindByName(n) = {}
     /\ next_svc_handle <= MaxHandles
     /\ \E k \in SvcSlot :
          /\ First(k, FreeSvcSlots)
          /\ svcs' = [svcs EXCEPT ![k] =
                        [in_use |-> TRUE, handle |-> next_svc_handle, owner |-> p,
                         name |-> Stored[n]]]
     /\ next_svc_handle' = next_svc_handle + 1
  \/ /\ FindByName(n) = {} /\ FreeSvcSlots = {}
     /\ UNCHANGED <<svcs, next_svc_handle>>

(* BINDER_IOC_REGISTER_SVC, once the SELinux checks have allowed it; also an
   SVC_MGR_ADD_SERVICE that registers and is then refused (see AddService). *)
RegisterSvc(t, n) ==
  /\ pc[t] = "user" /\ file[t] # None
  /\ RegisterService(file[t], n)
  /\ UNCHANGED <<taskVars, procVars, txnVars, context_mgr, ueventVars>>

-------------------------------------------------------------------------------
(* Transactions. *)

(* The part of binder_do_transact after the target is known: allocate, queue at
   the tail of the target's todo list and wake its readers.  A one-way call
   returns; a synchronous one sleeps on reply_wait. *)
Enqueue(t, p, oneway) ==
  /\ next_txn_id <= MaxTxns
  /\ txn' = [txn EXCEPT ![next_txn_id] = NewTxn(p, oneway)]
  /\ next_txn_id' = next_txn_id + 1
  /\ todo' = [todo EXCEPT ![p] = Append(@, next_txn_id)]
  /\ pc' = [pc EXCEPT ![t] = IF oneway THEN "user" ELSE "transact"]
  /\ cur' = [cur EXCEPT ![t] = IF oneway THEN None ELSE next_txn_id]
  /\ run' = [WakeReaders(p) EXCEPT ![t] = IF oneway THEN "running" ELSE "asleep"]
  /\ UNCHANGED <<file, in_use, in_flight>>

(* The target check: -ECONNREFUSED without a live target, -EDEADLK for a
   synchronous call of a process to itself. *)
Callable(t, p, oneway) ==
  /\ p # None /\ in_use[p]
  /\ oneway \/ p # file[t]

(* BINDER_IOC_TRANSACT on a service handle; an unknown one (-ENOENT), a target
   that is not callable and a call SELinux denies change nothing. *)
TransactService(t, h, oneway) ==
  /\ pc[t] = "user" /\ file[t] # None
  /\ \E k \in FindByHandle(h) :
       /\ Callable(t, svcs[k].owner, oneway)
       /\ Enqueue(t, svcs[k].owner, oneway)
  /\ UNCHANGED <<svcVars, ueventVars>>

(* BINDER_IOC_TRANSACT on handle 0, the context manager, for anything but
   SVC_MGR_ADD_SERVICE. *)
TransactManager(t, oneway) ==
  /\ pc[t] = "user" /\ file[t] # None
  /\ Callable(t, context_mgr, oneway)
  /\ Enqueue(t, context_mgr, oneway)
  /\ UNCHANGED <<svcVars, ueventVars>>

(* SVC_MGR_ADD_SERVICE: the kernel registers the service before it looks at the
   target.  When the call is then refused, for want of a callable manager or by
   SELinux, the registration stays: that outcome is the step RegisterSvc. *)
AddService(t, n, oneway) ==
  /\ pc[t] = "user" /\ file[t] # None
  /\ RegisterService(file[t], n)
  /\ Callable(t, context_mgr, oneway)
  /\ Enqueue(t, context_mgr, oneway)
  /\ UNCHANGED <<context_mgr, ueventVars>>

(* binder_do_transact after sleep_on: sleep again while the transaction is not
   done and its target lives; otherwise return its status, or -EPIPE after
   taking it off the target's lists, and free it. *)
TransactWake(t) ==
  LET i == cur[t]
      p == txn[i].target IN
  /\ pc[t] = "transact" /\ run[t] # "asleep"
  /\ IF ~txn[i].done /\ in_use[p]
       THEN /\ run' = [run EXCEPT ![t] = "asleep"]
            /\ UNCHANGED <<pc, cur, todo, in_flight, txn>>
       ELSE /\ pc' = [pc EXCEPT ![t] = "user"]
            /\ run' = [run EXCEPT ![t] = "running"]
            /\ cur' = [cur EXCEPT ![t] = None]
            /\ todo' = IF txn[i].done THEN todo
                       ELSE [todo EXCEPT ![p] = SelectSeq(@, LAMBDA j : j # i)]
            /\ in_flight' = IF txn[i].done THEN in_flight
                            ELSE [in_flight EXCEPT ![p] = @ \ {i}]
            /\ txn' = [txn EXCEPT ![i] = FreeTxn]
  /\ UNCHANGED <<file, in_use, next_txn_id, svcVars, ueventVars>>

(* Three plausible slips: a reply that leaves the transaction in flight, one that
   frees it under its sender, and one that finds a transaction not yet received. *)
ReplyKeepsInFlight(t, i) ==
  /\ pc[t] = "user" /\ file[t] # None
  /\ i \in in_flight[file[t]]
  /\ in_flight' = in_flight
  /\ txn' = [txn EXCEPT ![i] = Finished(@, "replied")]
  /\ run' = WakeSenders({i})
  /\ UNCHANGED <<file, pc, cur, in_use, todo, next_txn_id, svcVars, ueventVars>>

ReplyFrees(t, i) ==
  /\ pc[t] = "user" /\ file[t] # None
  /\ i \in in_flight[file[t]]
  /\ in_flight' = [in_flight EXCEPT ![file[t]] = @ \ {i}]
  /\ txn' = [txn EXCEPT ![i] = FreeTxn]
  /\ run' = WakeSenders({i})
  /\ UNCHANGED <<file, pc, cur, in_use, todo, next_txn_id, svcVars, ueventVars>>

ReplyUnreceived(t, i) ==
  /\ pc[t] = "user" /\ file[t] # None
  /\ i \in HeldBy(file[t])
  /\ in_flight' = [in_flight EXCEPT ![file[t]] = @ \ {i}]
  /\ txn' = [txn EXCEPT ![i] = Finished(@, "replied")]
  /\ run' = WakeSenders({i})
  /\ UNCHANGED <<file, pc, cur, in_use, todo, next_txn_id, svcVars, ueventVars>>

(* binder_do_reply: the transaction leaves in_flight and its sender is woken.  A
   reply with txn_id 0 answers the newest one in flight, which is one of the
   choices of i; a txn_id that is not in flight (-ENOENT) changes nothing. *)
DoReply(t, i) ==
  /\ pc[t] = "user" /\ file[t] # None
  /\ i \in in_flight[file[t]]
  /\ in_flight' = [in_flight EXCEPT ![file[t]] = @ \ {i}]
  /\ txn' = [txn EXCEPT ![i] = Finished(@, "replied")]
  /\ run' = WakeSenders({i})
  /\ UNCHANGED <<file, pc, cur, in_use, todo, next_txn_id, svcVars, ueventVars>>

-------------------------------------------------------------------------------
(* Receiving. *)

UeventPending(p) == last_uevent_seq[p] < global_uevent_seq

(* The loop condition of each call that waits on proc->wait. *)
Ready(p, call) ==
  \/ todo[p] # <<>>
  \/ call = "wait_event" /\ UeventPending(p)

(* Two plausible slips: a one-way transaction that nobody frees, and a list that
   is read from the wrong end. *)
TakeTxnLeaks(p) ==
  LET i == Head(todo[p]) IN
  /\ todo' = [todo EXCEPT ![p] = Tail(@)]
  /\ in_flight' = IF txn[i].oneway THEN in_flight
                  ELSE [in_flight EXCEPT ![p] = @ \cup {i}]
  /\ UNCHANGED txn

TakeTxnNewest(p) ==
  LET i == todo[p][Len(todo[p])] IN
  /\ todo' = [todo EXCEPT ![p] = SubSeq(@, 1, Len(@) - 1)]
  /\ IF txn[i].oneway
       THEN /\ txn' = [txn EXCEPT ![i] = FreeTxn]
            /\ UNCHANGED in_flight
       ELSE /\ in_flight' = [in_flight EXCEPT ![p] = @ \cup {i}]
            /\ UNCHANGED txn

(* Take the head of todo: a one-way transaction is freed, any other one stays
   in flight until its reply. *)
TakeTxn(p) ==
  LET i == Head(todo[p]) IN
  /\ todo' = [todo EXCEPT ![p] = Tail(@)]
  /\ IF txn[i].oneway
       THEN /\ txn' = [txn EXCEPT ![i] = FreeTxn]
            /\ UNCHANGED in_flight
       ELSE /\ in_flight' = [in_flight EXCEPT ![p] = @ \cup {i}]
            /\ UNCHANGED txn

(* Two plausible slips: a reader that has fallen behind waits for the event still
   to come, and one that gives up an event which is still in the ring. *)
NextUeventAhead(p) ==
  IF global_uevent_seq - (last_uevent_seq[p] + 1) >= RingSize
    THEN global_uevent_seq + 1
    ELSE last_uevent_seq[p] + 1

NextUeventEarly(p) ==
  IF global_uevent_seq - (last_uevent_seq[p] + 1) >= RingSize - 1
    THEN global_uevent_seq
    ELSE last_uevent_seq[p] + 1

(* The next event for p: the one after the last it saw, or the newest one when
   that has been overwritten in the ring. *)
NextUevent(p) ==
  IF global_uevent_seq - (last_uevent_seq[p] + 1) >= RingSize
    THEN global_uevent_seq
    ELSE last_uevent_seq[p] + 1

TakeUevent(p) == last_uevent_seq' = [last_uevent_seq EXCEPT ![p] = NextUevent(p)]

(* What a call that waited returns with: select reads nothing, wait_event
   prefers an event to a transaction. *)
Complete(p, call) ==
  CASE call = "select" -> UNCHANGED <<todo, in_flight, txn, last_uevent_seq>>
    [] call = "recv" -> TakeTxn(p) /\ UNCHANGED last_uevent_seq
    [] call = "wait_event" ->
         IF UeventPending(p)
           THEN TakeUevent(p) /\ UNCHANGED <<todo, in_flight, txn>>
           ELSE TakeTxn(p) /\ UNCHANGED last_uevent_seq

readUnchanged == <<file, cur, in_use, next_txn_id, svcVars, global_uevent_seq,
                   uevent_ring, usb_online>>

(* binder_do_recv, BINDER_IOC_WAIT_EVENT or select with something to return, the
   non-blocking forms included; they return -EAGAIN when there is nothing. *)
ReadNow(t, call) ==
  /\ pc[t] = "user" /\ file[t] # None
  /\ Ready(file[t], call)
  /\ Complete(file[t], call)
  /\ UNCHANGED <<pc, run, readUnchanged>>

(* The same calls with nothing to return: interruptible_sleep_on(&proc->wait). *)
ReadSleep(t, call) ==
  /\ pc[t] = "user" /\ file[t] # None
  /\ ~Ready(file[t], call)
  /\ pc' = [pc EXCEPT ![t] = call]
  /\ run' = [run EXCEPT ![t] = "asleep"]
  /\ UNCHANGED <<todo, in_flight, txn, last_uevent_seq, readUnchanged>>

(* After a wake-up the loop condition is read again: return what is there, or
   -ERESTARTSYS for a signal, or go back to sleep. *)
ReadWake(t) ==
  /\ pc[t] \in ReadCall /\ run[t] # "asleep"
  /\ IF Ready(file[t], pc[t])
       THEN Complete(file[t], pc[t])
       ELSE UNCHANGED <<todo, in_flight, txn, last_uevent_seq>>
  /\ IF Ready(file[t], pc[t]) \/ run[t] = "signalled"
       THEN /\ pc' = [pc EXCEPT ![t] = "user"]
            /\ run' = [run EXCEPT ![t] = "running"]
       ELSE /\ run' = [run EXCEPT ![t] = "asleep"]
            /\ UNCHANGED pc
  /\ UNCHANGED readUnchanged

(* A signal ends an interruptible sleep, as a timeout ends the sleep of select; it
   does not end the sleep of a sender. *)
Signal(t) ==
  /\ pc[t] \in ReadCall /\ run[t] # "signalled"
  /\ run' = [run EXCEPT ![t] = "signalled"]
  /\ UNCHANGED <<file, pc, cur, procVars, txnVars, svcVars, ueventVars>>

(* BINDER_IOC_UEVENT_POLL; -EAGAIN when there is no event. *)
UeventPoll(t) ==
  /\ pc[t] = "user" /\ file[t] # None
  /\ UeventPending(file[t])
  /\ TakeUevent(file[t])
  /\ UNCHANGED <<taskVars, procVars, txnVars, svcVars, global_uevent_seq, uevent_ring,
                 usb_online>>

(* usb_sd_set_online(1): the medium stays offline when the host image cannot be
   opened, of which the caller learns nothing. *)
SetOnline == usb_online' \in BOOLEAN

(* BINDER_IOC_UEVENT_EMIT for "add", "remove" and any other action: the medium
   goes online or offline, the event enters the ring and every process in use
   has its readers woken.  force_umount_dev and sync_dev may sleep before any of
   this happens, never in between. *)
UeventEmit(t, action) ==
  /\ pc[t] = "user" /\ file[t] # None
  /\ global_uevent_seq < MaxUevents
  /\ CASE action = "add" -> SetOnline
       [] action = "remove" -> usb_online' = FALSE
       [] OTHER -> UNCHANGED usb_online
  /\ global_uevent_seq' = global_uevent_seq + 1
  /\ uevent_ring' = [uevent_ring EXCEPT ![(global_uevent_seq + 1) % RingSize] =
                       [seqnum |-> global_uevent_seq + 1,
                        online |-> action = "add" \/ (action = "change" /\ usb_online)]]
  /\ run' = [u \in Task |->
               IF \E p \in Slot : in_use[p] /\ SleepsOnProc(u, p)
                 THEN "running" ELSE run[u]]
  /\ UNCHANGED <<file, pc, cur, procVars, txnVars, svcVars, last_uevent_seq>>

(* BINDER_IOC_UEVENT_EMIT for "prepare": the medium goes online without an event. *)
UeventPrepare(t) ==
  /\ pc[t] = "user" /\ file[t] # None
  /\ MaxUevents > 0
  /\ SetOnline
  /\ UNCHANGED <<taskVars, procVars, txnVars, svcVars, global_uevent_seq, uevent_ring,
                 last_uevent_seq>>

-------------------------------------------------------------------------------

Init ==
  /\ file = [t \in Task |-> None]
  /\ pc = [t \in Task |-> "user"]
  /\ run = [t \in Task |-> "running"]
  /\ cur = [t \in Task |-> None]
  /\ in_use = [p \in Slot |-> FALSE]
  /\ todo = [p \in Slot |-> <<>>]
  /\ in_flight = [p \in Slot |-> {}]
  /\ last_uevent_seq = [p \in Slot |-> 0]
  /\ txn = [i \in TxnId |-> FreeTxn]
  /\ next_txn_id = 1
  /\ context_mgr = None
  /\ svcs = [k \in SvcSlot |-> FreeSvc]
  /\ next_svc_handle = 1
  /\ global_uevent_seq = 0
  /\ uevent_ring = [k \in 0 .. RingSize - 1 |-> [seqnum |-> 0, online |-> FALSE]]
  /\ usb_online = FALSE

Files(t) == BinderOpen(t) \/ (\E u \in Task : Share(t, u)) \/ CloseShared(t) \/ BinderRelease(t)

Registry(t) == SetContextMgr(t) \/ (\E n \in Name : RegisterSvc(t, n))

Transact(t) ==
  \E oneway \in BOOLEAN :
    \/ TransactManager(t, oneway)
    \/ \E n \in Name : AddService(t, n, oneway)
    \/ \E h \in 1 .. MaxHandles : TransactService(t, h, oneway)

Read(t) ==
  \/ \E call \in ReadCall : ReadNow(t, call) \/ ReadSleep(t, call)
  \/ ReadWake(t)
  \/ Signal(t)

Reply(t) == \E i \in TxnId : DoReply(t, i)

Uevent(t) ==
  \/ UeventPoll(t)
  \/ \E action \in {"add", "remove", "change"} : UeventEmit(t, action)
  \/ UeventPrepare(t)

Next ==
  \E t \in Task :
    \/ Files(t) \/ Registry(t) \/ Transact(t) \/ TransactWake(t)
    \/ Read(t) \/ Reply(t) \/ Uevent(t)

Spec == Init /\ [][Next]_vars

-------------------------------------------------------------------------------
(* Types. *)

(* The type of every variable. *)
TypeOK ==
  /\ file \in [Task -> Slot \cup {None}]
  /\ pc \in [Task -> {"user", "transact"} \cup ReadCall]
  /\ run \in [Task -> {"running", "asleep", "signalled"}]
  /\ cur \in [Task -> TxnId \cup {None}]
  /\ in_use \in [Slot -> BOOLEAN]
  /\ todo \in [Slot -> Seq(TxnId)]
  /\ in_flight \in [Slot -> SUBSET TxnId]
  /\ last_uevent_seq \in [Slot -> Nat]
  /\ txn \in [TxnId -> Txn]
  /\ next_txn_id \in Nat \ {0}
  /\ context_mgr \in Slot \cup {None}
  /\ svcs \in [SvcSlot -> Svc]
  /\ next_svc_handle \in Nat \ {0}
  /\ global_uevent_seq \in Nat
  /\ uevent_ring \in [0 .. RingSize - 1 -> [seqnum : Nat, online : BOOLEAN]]
  /\ usb_online \in BOOLEAN

-------------------------------------------------------------------------------
(* Safety. *)

(* A binder_proc is in use exactly while some task has it open, and every task
   inside a call has one open: no slot is lost, and none is released or opened
   anew (memset, wait queue included) under a task that sleeps on it. *)
FilesInv ==
  /\ \A p \in Slot : in_use[p] <=> \E t \in Task : file[t] = p
  /\ \A t \in Task : pc[t] # "user" => file[t] # None

(* Every transaction on a list is allocated, not done, on the list of its own
   target, and that target is alive: neither a freed transaction nor a dead
   process is ever reached through a list.  Only synchronous ones are in flight. *)
ListsInv ==
  \A p \in Slot : \A i \in HeldBy(p) :
    in_use[p] /\ txn[i].target = p /\ ~txn[i].done /\ (i \in in_flight[p] => ~txn[i].oneway)

(* A sender in do_transact waits for a synchronous transaction that is done or
   is still held by its target: the loop around sleep_on ends only with done,
   and the clean-up that follows it (binder.c:415-431) has nothing to do. *)
SenderInv ==
  \A t \in Task :
    IF pc[t] = "transact"
      THEN /\ cur[t] # None /\ Allocated(cur[t]) /\ ~txn[cur[t]].oneway
           /\ txn[cur[t]].done \/ cur[t] \in HeldBy(txn[cur[t]].target)
      ELSE cur[t] = None

(* Two senders never wait for the same transaction. *)
OneSender ==
  \A t, u \in Task : cur[t] = cur[u] /\ cur[t] # None => t = u

(* Nothing is leaked: an allocated transaction is awaited by its sender, who
   frees it, or is one-way and queued, to be freed by its receiver. *)
NoLeak ==
  \A i \in TxnId : Allocated(i) =>
    IF txn[i].oneway THEN i \in HeldBy(txn[i].target)
    ELSE \E t \in Task : cur[t] = i

(* Transaction ids are handed out once, in increasing order. *)
FreshIds ==
  \A i \in TxnId : i >= next_txn_id => ~Allocated(i)

(* A process receives its transactions once and in the order in which they were
   sent: todo is strictly ordered by txn_id, and all that it has received and not
   yet answered was sent before. *)
FifoDelivery ==
  \A p \in Slot :
    /\ \A k, l \in 1 .. Len(todo[p]) : k < l => todo[p][k] < todo[p][l]
    /\ \A i \in in_flight[p], k \in 1 .. Len(todo[p]) : i < todo[p][k]

(* No wake-up is lost: no sender sleeps although its transaction is done, and no
   reader sleeps although its loop condition is false. *)
NoLostWakeup ==
  \A t \in Task : run[t] = "asleep" =>
    \/ pc[t] = "transact" /\ ~txn[cur[t]].done
    \/ pc[t] \in ReadCall /\ ~Ready(file[t], pc[t])

(* The registry never leads to a dead process, and a handle denotes one service.
   So does a name, unless a longer name was cut down to it when it was stored. *)
RegistryInv ==
  /\ context_mgr # None => in_use[context_mgr]
  /\ \A k \in SvcSlot : svcs[k].in_use =>
       /\ svcs[k].owner # None /\ in_use[svcs[k].owner]
       /\ svcs[k].handle \in 1 .. next_svc_handle - 1
  /\ \A k, l \in SvcSlot : svcs[k].in_use /\ svcs[l].in_use /\ k # l =>
       /\ svcs[k].handle # svcs[l].handle
       /\ svcs[k].name = svcs[l].name =>
            \E n \in Name : n # svcs[k].name /\ Stored[n] = svcs[k].name

(* Each of the last RingSize events is in its place of the ring, and no reader is
   ahead of the newest, so a reader is handed exactly the event it asked for. *)
RingInv ==
  /\ \A s \in 1 .. global_uevent_seq :
       global_uevent_seq - s < RingSize => uevent_ring[s % RingSize].seqnum = s
  /\ \A p \in Slot : last_uevent_seq[p] <= global_uevent_seq

-------------------------------------------------------------------------------
(* What no step may do. *)

Denotes(h, n) == \E k \in SvcSlot : svcs[k].in_use /\ svcs[k].handle = h /\ svcs[k].name = n

(* A handle never comes to denote another service: once issued it denotes its
   name until the owner dies, and is dead from then on, so that a client with a
   stale handle is refused and never reaches a stranger. *)
HandleNeverRebound ==
  [][\A n \in Name, h \in 1 .. MaxHandles :
       Denotes(h, n)' => Denotes(h, n) \/ h = next_svc_handle]_vars

(* A transaction becomes done once, with a reply only if its target had received
   it, and with -EPIPE only if its target died. *)
DoneByTarget ==
  [][\A i \in TxnId : txn'[i].done /\ ~txn[i].done =>
       LET p == txn[i].target IN
       \/ txn'[i].status = "replied" /\ i \in in_flight[p] /\ in_use[p]
       \/ txn'[i].status = "EPIPE" /\ i \in HeldBy(p) /\ ~in_use'[p]]_vars

(* A reader misses events only when the ring has already overwritten the next
   one for it: it then moves to the newest, otherwise one event forward. *)
LossOnlyOnOverrun ==
  [][\A p \in Slot : last_uevent_seq'[p] # last_uevent_seq[p] /\ in_use[p] =>
       \/ last_uevent_seq'[p] = last_uevent_seq[p] + 1
       \/ /\ last_uevent_seq'[p] = global_uevent_seq
          /\ uevent_ring[(last_uevent_seq[p] + 1) % RingSize].seqnum
               # last_uevent_seq[p] + 1]_vars

-------------------------------------------------------------------------------
(* The driver implements synchronous remote calls (BinderRpc). *)

CallOf(t) ==
  IF pc[t] # "transact" THEN [state |-> "idle", to |-> None]
  ELSE [state |-> CASE ~txn[cur[t]].done -> "pending"
                    [] txn[cur[t]].done /\ txn[cur[t]].status = "EPIPE" -> "broken"
                    [] OTHER -> "answered",
        to |-> txn[cur[t]].target]

Rpc == INSTANCE BinderRpc WITH alive <- in_use, call <- [t \in Task |-> CallOf(t)]

(* Every behaviour of the driver is one of the abstract call service: a
   synchronous transaction returns once, with the reply of its target or, when
   the target's last descriptor is closed first, with -EPIPE. *)
ImplementsRpc == Rpc!RpcSpec
===============================================================================
