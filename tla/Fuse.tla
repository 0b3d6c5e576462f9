--------------------------------- MODULE Fuse ---------------------------------
(***************************************************************************)
(* One FUSE connection of SIX, from the open of /dev/fuse to the end of    *)
(* its fuse_conn: the request queue and the FUSE_INIT handshake            *)
(* (fs/fuse/dev.c), and the mount, the unmount and the lookup counts of    *)
(* the inodes (fs/fuse/inode.c).  Every open makes a connection of its     *)
(* own, so that one stands for all.                                        *)
(*                                                                         *)
(* As in Binder, a step runs from one sleep to the next.  The tasks in     *)
(* Caller use the file system; those that hold the descriptor serve it.    *)
(* A task may be both, as a daemon that touches its own mount is.  A       *)
(* caller holds an inode of the file system all along its call, so that    *)
(* fs_may_umount (fs/inode.c) refuses to unmount under it, with one        *)
(* exception: sys_ustat (fs/super.c) finds the super block by its device   *)
(* and calls fuse_statfs with no inode and no reference to the connection. *)
(***************************************************************************)
EXTENDS Integers, Sequences, FiniteSets

CONSTANTS
  Task,        \* the tasks of the system
  Caller,      \* those that use the mounted file system
  Node,        \* the nodeids the daemon hands out, the root's not among them
  InoOf,       \* fuse_ino_from_nodeid, which is not one to one
  ReadCall,    \* "read" and "select" on /dev/fuse, those in use
  MaxUnique    \* bound: requests and forgets ever sent

ASSUME FuseAssumption ==
  /\ Caller \subseteq Task
  /\ ReadCall \subseteq {"read", "select"}
  /\ MaxUnique \in Nat
  /\ Node \cap {"ok", "error"} = {}

Ino == {InoOf[n] : n \in Node}
Unique == 1 .. MaxUnique
None == 0    \* no request, no node

VARIABLES
  holders,     \* the tasks that have /dev/fuse open
  sb,          \* the super block: "none", "mounted", "umounting" or "gone"
  refcount, mounted, connected, initialized, init_error, last_unique,   \* fuse_conn
  pending,     \* fc->pending_head: the uniques of queued requests
  processing,  \* fc->processing_head: those the daemon has read
  forgets,     \* fc->forget_head
  opcode, state, reply,    \* fields of the requests, by unique
  pc, run, cur,            \* the call, the state and the request of each task
  nodeid, nlookup, i_count,    \* fields of the inodes, cleared when not in use
  granted      \* what the daemon counts: lookups answered less lookups forgotten

connVars == <<refcount, mounted, connected, initialized, init_error, last_unique>>
listVars == <<pending, processing>>
reqVars == <<opcode, state, reply>>
taskVars == <<pc, run, cur>>
inodeVars == <<nodeid, nlookup, i_count>>
vars == <<holders, sb, connVars, listVars, forgets, reqVars, taskVars, inodeVars, granted>>

OnPending(u) == \E k \in 1 .. Len(pending) : pending[k] = u

(* A request is reached from the connection. *)
Linked(u) == OnPending(u) \/ u \in processing

-------------------------------------------------------------------------------
(* Sleeping and waking. *)

(* wake_up of the wait queues that the tasks in S sleep on. *)
Woken(S) == [t \in Task |-> IF run[t] = "asleep" /\ t \in S THEN "running" ELSE run[t]]

Readers == {t \in Task : pc[t] \in ReadCall}            \* on fc->waitq
AwaitInit == {t \in Task : pc[t] \in {"init", "statfs"}}   \* on fc->init_waitq
AwaitReply(U) == {t \in Task : pc[t] = "reply" /\ cur[t] \in U}   \* on req->waitq

(* The call of t returns to user mode. *)
Return(t) ==
  /\ pc' = [pc EXCEPT ![t] = "user"]
  /\ run' = [run EXCEPT ![t] = "running"]
  /\ cur' = [cur EXCEPT ![t] = None]

-------------------------------------------------------------------------------
(* The connection. *)

(* A fault: the forgets are not freed. *)
ConnPutLeaks == refcount' = refcount - 1 /\ UNCHANGED forgets

(* fuse_conn_put: the last reference frees the forgets and the connection. *)
ConnPut ==
  /\ refcount' = refcount - 1
  /\ forgets' = IF refcount = 1 THEN <<>> ELSE forgets

(* The requests that fuse_conn_abort finishes. *)
Outstanding == {u \in Unique : Linked(u)}

(* A fault: the list of the requests that the daemon has read is not emptied. *)
UnlinkPending == pending' = <<>> /\ UNCHANGED processing

(* fuse_conn_abort takes all requests off the connection. *)
UnlinkAll == pending' = <<>> /\ processing' = {}

(* fuse_conn_abort: every queued or sent request ends with -ENOTCONN, FUSE_INIT
   through fuse_process_init_reply, which frees it. *)
Abort ==
  /\ connected' = FALSE
  /\ UnlinkAll
  /\ state' = [u \in Unique |->
                 IF u \notin Outstanding THEN state[u]
                 ELSE IF opcode[u] = "INIT" THEN "free" ELSE "finished"]
  /\ reply' = [u \in Unique |-> IF u \in Outstanding THEN "error" ELSE reply[u]]
  /\ init_error' = (init_error \/ \E u \in Outstanding : opcode[u] = "INIT")
  /\ UNCHANGED <<initialized, last_unique, opcode>>

(* Faults: wake_up(&fc->init_waitq) is missing, or wake_up(&req->waitq) is. *)
WakeButInit == Woken(Readers \cup AwaitReply(Outstanding))
WakeButCallers == Woken(Readers \cup AwaitInit)

(* fuse_conn_abort wakes everyone. *)
WakeAll == Woken(Readers \cup AwaitInit \cup AwaitReply(Outstanding))

(* A fault: every request goes to the head of the queue. *)
QueuedFirst(u, at_head) == <<u>> \o pending

(* The list of fuse_enqueue_req. *)
Queued(u, at_head) == IF at_head THEN <<u>> \o pending ELSE Append(pending, u)

(* A new request of t, which waits for its answer. *)
Enqueue(t, op) ==
  LET u == last_unique + 1
  IN  /\ last_unique < MaxUnique
      /\ last_unique' = u
      /\ opcode' = [opcode EXCEPT ![u] = op]
      /\ state' = [state EXCEPT ![u] = "pending"]
      /\ pending' = Queued(u, FALSE)
      /\ pc' = [pc EXCEPT ![t] = "reply"]
      /\ cur' = [cur EXCEPT ![t] = u]
      /\ run' = [Woken(Readers) EXCEPT ![t] = "asleep"]
      /\ UNCHANGED <<reply, processing>>

-------------------------------------------------------------------------------
(* Requests. *)

(* The requests of callers that hold an inode: those that bring another, and the
   rest, FUSE_STATFS for sys_statfs included. *)
InodeOp == {"LOOKUP", "OTHER"}

(* FUSE_STATFS for sys_ustat as well. *)
CallOp == InodeOp \cup {"STATFS"}

(* The requests that a call waiting for the handshake in state p may send. *)
OpsOf(p) == IF p = "statfs" THEN {"STATFS"} ELSE InodeOp

(* t is in an operation on an inode. *)
HoldsInode(t) == pc[t] = "init" \/ (pc[t] = "reply" /\ opcode[cur[t]] \in InodeOp)

(* t is in sys_ustat. *)
InUstat(t) == pc[t] \in {"statfs", "stray"} \/ (pc[t] = "reply" /\ opcode[cur[t]] = "STATFS")

(* A fault: the handshake is not waited for. *)
NeverAwaitInit == FALSE

(* The condition of the loop around sleep_on(&fc->init_waitq). *)
MustAwaitInit == ~initialized /\ ~init_error /\ connected

(* fuse_request_send by a VFS operation on an inode, or by sys_ustat as long as
   get_super finds the device, up to its first sleep.  It fails at once when the
   connection is down or its handshake has failed. *)
RequestSend(t) ==
  /\ t \in Caller /\ pc[t] = "user" /\ connected
  /\ \E p \in {"init", "statfs"} :
       /\ sb = "mounted" \/ (p = "statfs" /\ sb = "umounting")
       /\ \/ /\ MustAwaitInit
             /\ pc' = [pc EXCEPT ![t] = p]
             /\ run' = [run EXCEPT ![t] = "asleep"]
             /\ UNCHANGED <<last_unique, listVars, reqVars, cur>>
          \/ /\ ~MustAwaitInit /\ ~init_error
             /\ \E op \in OpsOf(p) : Enqueue(t, op)
  /\ UNCHANGED <<holders, sb, refcount, mounted, connected, initialized, init_error,
                 forgets, inodeVars, granted>>

(* fuse_request_send, woken on init_waitq of a connection that has been freed: it
   returns if the memory still says that the connection is down, and else it sleeps
   on a wait queue, or leaves its request on a list, that nobody serves. *)
FreedWake(t) ==
  /\ pc[t] \in {"init", "statfs"} /\ run[t] # "asleep" /\ refcount = 0
  /\ \E p \in {"user", "stray"} : pc' = [pc EXCEPT ![t] = p]
  /\ UNCHANGED <<holders, sb, connVars, listVars, forgets, reqVars, run, cur, inodeVars,
                 granted>>

(* fuse_request_send, woken on init_waitq. *)
InitWake(t) ==
  /\ pc[t] \in {"init", "statfs"} /\ run[t] # "asleep" /\ refcount > 0
  /\ \/ /\ MustAwaitInit
        /\ run' = [run EXCEPT ![t] = "asleep"]
        /\ UNCHANGED <<last_unique, listVars, reqVars, pc, cur>>
     \/ /\ ~connected \/ init_error
        /\ Return(t)
        /\ UNCHANGED <<last_unique, listVars, reqVars>>
     \/ /\ connected /\ initialized /\ ~init_error
        /\ \E op \in OpsOf(pc[t]) : Enqueue(t, op)
  /\ UNCHANGED <<holders, sb, refcount, mounted, connected, initialized, init_error,
                 forgets, inodeVars, granted>>

(* fuse_iget: the inode of the looked-up node, found or made. *)
Iget(n) ==
  LET i == InoOf[n]
  IN  /\ nodeid' = [nodeid EXCEPT ![i] = n]
      /\ nlookup' = [nlookup EXCEPT ![i] = @ + 1]
      /\ i_count' = [i_count EXCEPT ![i] = @ + 1]

(* fuse_request_send, woken on req->waitq.  The request is on the caller's stack:
   it is gone when the call returns.  A lookup that succeeded goes on to
   fuse_iget, and FUSE_DESTROY to the rest of fuse_put_super. *)
RequestWake(t) ==
  LET u == cur[t]
  IN  /\ pc[t] = "reply" /\ run[t] # "asleep"
      /\ \/ /\ state[u] # "finished" /\ connected
            /\ run' = [run EXCEPT ![t] = "asleep"]
            /\ UNCHANGED <<pc, cur, reqVars, inodeVars>>
         \/ /\ state[u] = "finished" \/ ~connected
            /\ pc' = [pc EXCEPT ![t] = IF opcode[u] = "DESTROY" THEN "sync" ELSE "user"]
            /\ cur' = [cur EXCEPT ![t] = None]
            /\ state' = [state EXCEPT ![u] = "free"]
            /\ IF state[u] = "finished" /\ reply[u] \in Node
                 THEN Iget(reply[u])
                 ELSE UNCHANGED inodeVars
            /\ UNCHANGED <<run, opcode, reply>>
      /\ UNCHANGED <<holders, sb, connVars, listVars, forgets, granted>>

-------------------------------------------------------------------------------
(* Mount, unmount and the descriptor. *)

(* fuse_read_super of a connection that is up and not mounted, with
   fuse_send_init: FUSE_INIT goes to the head of pending without anyone waiting
   for it, or kmalloc fails and init_error is set.  iget of the root does not
   fail: get_empty_inode (fs/inode.c) sleeps until it has an inode. *)
Mount(t) ==
  LET u == last_unique + 1
  IN  /\ t \in holders /\ pc[t] = "user"
      /\ sb = "none" /\ connected /\ ~mounted
      /\ last_unique < MaxUnique
      /\ sb' = "mounted" /\ mounted' = TRUE
      /\ refcount' = refcount + 1
      /\ \/ /\ last_unique' = u
            /\ opcode' = [opcode EXCEPT ![u] = "INIT"]
            /\ state' = [state EXCEPT ![u] = "pending"]
            /\ pending' = Queued(u, TRUE)
            /\ run' = Woken(Readers)
            /\ UNCHANGED init_error
         \/ /\ init_error' = TRUE
            /\ UNCHANGED <<last_unique, opcode, state, pending, run>>
      /\ UNCHANGED <<holders, connected, initialized, processing, forgets, reply, pc, cur,
                     inodeVars, granted>>

(* The end of fuse_put_super: abort, and drop the reference of the mount. *)
PutSuper(t) ==
  /\ Abort
  /\ mounted' = FALSE /\ sb' = "gone"
  /\ ConnPut
  /\ pc' = [pc EXCEPT ![t] = "user"]
  /\ run' = WakeAll
  /\ UNCHANGED <<holders, cur, inodeVars, granted>>

(* A fault: the mount root, which the calls under way hold, is passed over whatever
   its count. *)
MayUmountInCall == \A i \in Ino : i_count[i] = 0

(* fs_may_umount: no inode is in use, by a call under way or otherwise. *)
MayUmount ==
  /\ \A t \in Task : ~HoldsInode(t)
  /\ \A i \in Ino : i_count[i] = 0

(* do_umount when no inode is in use.  FUSE_DESTROY is sent, and waited for, when
   the handshake is done; init_error is zero then. *)
Umount(t) ==
  /\ pc[t] = "user" /\ sb = "mounted"
  /\ MayUmount
  /\ IF connected /\ initialized
       THEN /\ sb' = "umounting"
            /\ Enqueue(t, "DESTROY")
            /\ UNCHANGED <<holders, refcount, mounted, connected, initialized, init_error,
                           forgets, inodeVars, granted>>
       ELSE PutSuper(t)

(* fuse_put_super after FUSE_DESTROY; fsync_dev has slept, or not, in between. *)
UmountSync(t) ==
  /\ pc[t] = "sync"
  /\ PutSuper(t)

(* A forked child shares the descriptor. *)
Share(t, u) ==
  /\ t \in holders /\ pc[t] = "user"
  /\ u \in Task \ holders /\ pc[u] = "user"
  /\ holders' = holders \cup {u}
  /\ UNCHANGED <<sb, connVars, listVars, forgets, reqVars, taskVars, inodeVars, granted>>

(* A close that is not the last (close_fp), or fuse_dev_release, on exit as well. *)
Close(t) ==
  /\ t \in holders /\ pc[t] = "user"
  /\ holders' = holders \ {t}
  /\ IF holders = {t}
       THEN /\ Abort /\ ConnPut
            /\ run' = WakeAll
            /\ UNCHANGED mounted
       ELSE UNCHANGED <<connVars, listVars, forgets, reqVars, run>>
  /\ UNCHANGED <<sb, pc, cur, inodeVars, granted>>

-------------------------------------------------------------------------------
(* The daemon's side. *)

(* read and select return without sleeping. *)
Ready == ~connected \/ pending # <<>> \/ forgets # <<>>

(* fuse_dev_read of the first request. *)
TakeRequest ==
  LET u == Head(pending)
  IN  /\ pending' = Tail(pending)
      /\ state' = [state EXCEPT ![u] = "sent"]
      /\ processing' = processing \cup {u}
      /\ UNCHANGED <<last_unique, forgets, granted>>

(* fuse_dev_read of the first forget, when no request is pending. *)
TakeForget ==
  LET f == Head(forgets)
  IN  /\ last_unique < MaxUnique
      /\ last_unique' = last_unique + 1
      /\ forgets' = Tail(forgets)
      /\ granted' = [granted EXCEPT ![f.nodeid] = @ - f.nlookup]
      /\ UNCHANGED <<state, listVars>>

(* What a call that does not sleep any more does: select takes nothing, and read
   fails with -ENODEV when the connection is down. *)
Complete(call) ==
  IF call = "select" \/ ~connected
    THEN UNCHANGED <<last_unique, listVars, forgets, state, granted>>
    ELSE IF pending # <<>> THEN TakeRequest ELSE TakeForget

readUnchanged == <<holders, sb, refcount, mounted, connected, initialized, init_error,
                   opcode, reply, cur, inodeVars>>

(* read or select with something to return. *)
ReadNow(t, call) ==
  /\ t \in holders /\ pc[t] = "user"
  /\ Ready /\ Complete(call)
  /\ UNCHANGED <<pc, run, readUnchanged>>

(* The same with nothing: interruptible_sleep_on(&fc->waitq). *)
ReadSleep(t, call) ==
  /\ t \in holders /\ pc[t] = "user"
  /\ ~Ready
  /\ pc' = [pc EXCEPT ![t] = call]
  /\ run' = [run EXCEPT ![t] = "asleep"]
  /\ UNCHANGED <<last_unique, listVars, forgets, state, granted, readUnchanged>>

(* The loop condition after a wake-up: return what is there, or -ERESTARTSYS for
   a signal, or sleep again. *)
ReadWake(t) ==
  /\ pc[t] \in ReadCall /\ run[t] # "asleep"
  /\ IF Ready
       THEN Complete(pc[t])
       ELSE UNCHANGED <<last_unique, listVars, forgets, state, granted>>
  /\ IF Ready \/ run[t] = "signalled"
       THEN /\ pc' = [pc EXCEPT ![t] = "user"]
            /\ run' = [run EXCEPT ![t] = "running"]
       ELSE /\ run' = [run EXCEPT ![t] = "asleep"]
            /\ UNCHANGED pc
  /\ UNCHANGED readUnchanged

(* A signal ends the sleep of a reader, not that of a caller. *)
Signal(t) ==
  /\ pc[t] \in ReadCall /\ run[t] = "asleep"
  /\ run' = [run EXCEPT ![t] = "signalled"]
  /\ UNCHANGED <<holders, sb, connVars, listVars, forgets, reqVars, pc, cur, inodeVars,
                 granted>>

(* fuse_process_init_reply for an answer r of the daemon. *)
InitReply(u, r) ==
  /\ initialized' = (initialized \/ r = "ok")
  /\ init_error' = (init_error \/ r = "error")
  /\ state' = [state EXCEPT ![u] = "free"]
  /\ run' = Woken(AwaitInit)
  /\ UNCHANGED granted

(* The answer r to a caller's request.  An answer with an entry counts as a lookup. *)
CallReply(u, r) ==
  /\ state' = [state EXCEPT ![u] = "finished"]
  /\ granted' = IF r \in Node THEN [granted EXCEPT ![r] = @ + 1] ELSE granted
  /\ run' = Woken(AwaitReply({u}))
  /\ UNCHANGED <<initialized, init_error>>

(* fuse_dev_writev with the answer to a request that was read; for any other
   unique it returns -ENOENT, and for 0 it does nothing. *)
Write(t, u, r) ==
  /\ t \in holders /\ pc[t] = "user" /\ connected
  /\ u \in processing
  /\ r \in Node => opcode[u] = "LOOKUP"
  /\ processing' = processing \ {u}
  /\ reply' = [reply EXCEPT ![u] = r]
  /\ IF opcode[u] = "INIT" THEN InitReply(u, r) ELSE CallReply(u, r)
  /\ UNCHANGED <<holders, sb, refcount, mounted, connected, last_unique, pending, forgets,
                 opcode, pc, cur, inodeVars>>

(* fuse_queue_forget; nothing is queued when the connection is down or kmalloc fails. *)
QueueForget(i) ==
  \/ /\ connected /\ nlookup[i] > 0
     /\ forgets' = Append(forgets, [nodeid |-> nodeid[i], nlookup |-> nlookup[i]])
     /\ run' = Woken(Readers)
  \/ UNCHANGED <<forgets, run>>

(* A fault: the lookups that were given back are still counted. *)
PutInodeCounted(i) == QueueForget(i) /\ UNCHANGED <<nodeid, nlookup>>

(* fuse_put_inode gives the lookups back and clears the inode. *)
PutInode(i) ==
  /\ QueueForget(i)
  /\ nodeid' = [nodeid EXCEPT ![i] = None]
  /\ nlookup' = [nlookup EXCEPT ![i] = 0]

(* iput of an inode in use: the last user calls fuse_put_inode. *)
Iput(i) ==
  /\ i_count[i] > 0
  /\ i_count' = [i_count EXCEPT ![i] = @ - 1]
  /\ IF i_count[i] = 1 THEN PutInode(i) ELSE UNCHANGED <<nodeid, nlookup, forgets, run>>
  /\ UNCHANGED <<holders, sb, connVars, listVars, reqVars, pc, cur, granted>>

-------------------------------------------------------------------------------

(* fuse_dev_open by some task. *)
Init ==
  /\ \E t \in Task : holders = {t}
  /\ sb = "none"
  /\ refcount = 1 /\ mounted = FALSE /\ connected = TRUE
  /\ initialized = FALSE /\ init_error = FALSE /\ last_unique = 0
  /\ pending = <<>> /\ processing = {} /\ forgets = <<>>
  /\ opcode = [u \in Unique |-> "OTHER"]
  /\ state = [u \in Unique |-> "free"]
  /\ reply = [u \in Unique |-> "error"]
  /\ pc = [t \in Task |-> "user"]
  /\ run = [t \in Task |-> "running"]
  /\ cur = [t \in Task |-> None]
  /\ nodeid = [i \in Ino |-> None]
  /\ nlookup = [i \in Ino |-> 0]
  /\ i_count = [i \in Ino |-> 0]
  /\ granted = [n \in Node |-> 0]

File(t) == (\E u \in Task : Share(t, u)) \/ Close(t)

SuperBlock(t) == Mount(t) \/ Umount(t) \/ UmountSync(t)

Request(t) == RequestSend(t) \/ FreedWake(t) \/ InitWake(t) \/ RequestWake(t)

Serve(t) ==
  \/ \E call \in ReadCall : ReadNow(t, call) \/ ReadSleep(t, call)
  \/ ReadWake(t) \/ Signal(t)
  \/ \E u \in Unique : \E r \in Node \cup {"ok", "error"} : Write(t, u, r)

Next ==
  \/ \E t \in Task : File(t) \/ SuperBlock(t) \/ Request(t) \/ Serve(t)
  \/ \E i \in Ino : Iput(i)

Spec == Init /\ [][Next]_vars

(* A task that was woken runs in the end: the scheduler passes over no runnable
   task for ever. *)
Fairness ==
  \A t \in Task : WF_vars(UmountSync(t) \/ FreedWake(t) \/ InitWake(t) \/ RequestWake(t)
                           \/ ReadWake(t))

FairSpec == Spec /\ Fairness

-------------------------------------------------------------------------------
(* Types. *)

(* The type of every variable. *)
TypeOK ==
  /\ holders \subseteq Task
  /\ sb \in {"none", "mounted", "umounting", "gone"}
  /\ refcount \in Nat
  /\ mounted \in BOOLEAN /\ connected \in BOOLEAN
  /\ initialized \in BOOLEAN /\ init_error \in BOOLEAN
  /\ last_unique \in 0 .. MaxUnique
  /\ pending \in Seq(Unique) /\ processing \subseteq Unique
  /\ forgets \in Seq([nodeid : Node, nlookup : Nat \ {0}])
  /\ opcode \in [Unique -> CallOp \cup {"INIT", "DESTROY"}]
  /\ state \in [Unique -> {"free", "pending", "sent", "finished"}]
  /\ reply \in [Unique -> Node \cup {"ok", "error"}]
  /\ pc \in [Task -> {"user", "init", "statfs", "reply", "sync", "stray"} \cup ReadCall]
  /\ run \in [Task -> {"running", "asleep", "signalled"}]
  /\ cur \in [Task -> Unique \cup {None}]
  /\ nodeid \in [Ino -> Node \cup {None}]
  /\ nlookup \in [Ino -> Nat] /\ i_count \in [Ino -> Nat]
  /\ granted \in [Node -> Int]

-------------------------------------------------------------------------------
(* Safety. *)

(* The connection is referenced once by the open device and once by the mount,
   and no queued forget, no queued request and no task inside a call outlives it, but
   for a task in sys_ustat, which nothing keeps the connection for: fuse_conn_put
   frees nothing else that is still used. *)
ConnInv ==
  /\ refcount = (IF holders # {} THEN 1 ELSE 0)
                + (IF sb \in {"mounted", "umounting"} THEN 1 ELSE 0)
  /\ \/ \E t \in Task : pc[t] # "user" /\ ~InUstat(t)
     \/ forgets # <<>> \/ \E u \in Unique : Linked(u)
     => refcount > 0

(* No wake-up is lost: a task sleeps only while what it waits for has not come. *)
NoLostWakeup ==
  \A t \in Task : run[t] = "asleep" =>
    \/ pc[t] \in ReadCall /\ ~Ready
    \/ pc[t] \in {"init", "statfs"} /\ MustAwaitInit
    \/ pc[t] = "reply" /\ connected /\ Linked(cur[t])

(* A request reached from the connection is FUSE_INIT, which is on the heap, or is
   on the stack of exactly one task that has not left fuse_request_send. *)
NoDangling ==
  \A u \in Unique : Linked(u) /\ opcode[u] # "INIT" =>
    /\ \E t \in Task : pc[t] = "reply" /\ cur[t] = u
    /\ \A t, v \in Task : cur[t] = u /\ cur[v] = u => t = v

(* The daemon gets no request before it has answered FUSE_INIT (dev.c:149-153). *)
InitFirst ==
  \A u \in Unique : Linked(u) /\ opcode[u] # "INIT" => initialized /\ ~init_error

(* The daemon gets the requests in the order in which they were made. *)
FifoDelivery ==
  /\ \A j, k \in 1 .. Len(pending) : j < k => pending[j] < pending[k]
  /\ \A u \in processing : \A k \in 1 .. Len(pending) : u < pending[k]

(* From the time an unmount starts, and but for what sys_ustat asks, FUSE_DESTROY is
   the only request there is and its sender is the only task in the file system. *)
UmountAlone ==
  sb = "umounting" =>
    /\ \A u \in Unique : Linked(u) => opcode[u] \in {"DESTROY", "STATFS"}
    /\ \A t, v \in Task :
         /\ pc[t] \in {"init", "reply", "sync"} /\ ~InUstat(t)
         /\ pc[v] \in {"init", "reply", "sync"} /\ ~InUstat(v)
         => t = v
    /\ \A i \in Ino : i_count[i] = 0

-------------------------------------------------------------------------------
(* What the connection promises. *)

NoCall == [stage |-> "idle", op |-> "OTHER", id |-> None, reply |-> "error"]

(* How far request u has got. *)
Stage(u) == IF OnPending(u) THEN "queued" ELSE IF u \in processing THEN "taken" ELSE "answered"

(* A call that waits for request u, as the caller and the daemon see it. *)
Seen(u) ==
  [stage |-> Stage(u), op |-> opcode[u], id |-> u,
   reply |-> IF Stage(u) = "answered" THEN reply[u] ELSE "error"]

Calls == [t \in Task |-> IF pc[t] = "reply" THEN Seen(cur[t]) ELSE NoCall]

Service == INSTANCE FuseService
  WITH up <- connected, fs <- sb, last <- last_unique, call <- Calls, uses <- i_count

(* Every call gets to the daemon once and in order, and returns with the answer of
   the daemon or, when the connection went down before, with an error; FUSE_DESTROY
   is asked when no inode is in use, and the unmount cuts nothing short but the
   statfs calls of sys_ustat (fuse_request_send, fuse_dev_read, fuse_dev_writev,
   fuse_conn_abort). *)
ImplementsService == Service!Spec

-------------------------------------------------------------------------------
(* Liveness. *)

(* No caller hangs on a connection that is down, whether the daemon has died or
   the file system was unmounted (dev.c:45-47), and no reader does; but for a task that
   sys_ustat has left with a connection that was freed. *)
NoHang == ~connected ~> \A t \in Task : pc[t] \in {"user", "stray"}

(* "so no VFS caller can ever hang waiting for a dead userspace daemon" (dev.c:45-47). *)
NoCallerHangs == ~connected ~> \A t \in Task : pc[t] = "user"
===============================================================================
