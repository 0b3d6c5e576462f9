# A TLA+ verification of SIX

SIX is a Linux 2.0.11 kernel that runs as a process of a host, with parts of a modern
Android system grafted on: a binder driver, FUSE, hotplug events, wakelocks, virtual
storage, device mapper, A/B updates, and a C library with POSIX threads over `clone`.
This directory holds TLA+ models of the concurrent core of what was grafted on, and of
the pipes of the kernel below it, the instances on which TLC checks them, and proofs that
TLAPS checks for every instance.

## The system and what is modelled

| Part | Source | Modules |
| --- | --- | --- |
| Binder driver: processes, registry, transactions, uevents | `drivers/char/binder.c` | `Binder`, `BinderRpc` |
| FUSE connection: queue, handshake, abort, mount, lookups | `fs/fuse/dev.c`, `inode.c`, `dir.c`, `file.c` | `Fuse`, `FuseService`, `FuseLookups` |
| Threads: create, exit, join, detach | `library/libc/pthread.c`, `kernel/fork.c`, `exit.c` | `Pthread` |
| Thread-specific data and destructors | `library/libc/pthread.c` | `PthreadKeys` |
| Mutexes and condition variables | `library/libc/pthread.c` | `PthreadMonitor` |
| Read-write locks, barriers, once controls | `library/libc/pthread.c` | `PthreadGates` |
| Pipes | `fs/pipe.c` | `Pipe`, `PipeQueue` |
| A/B updates: slots, verity, rollback, sideload | `applications/ota/ota.c`, `applications/ufs/ufs.c`, `drivers/block/dm.c`, `ufshcd.c`, `scripts/host_ota.py` | `Ota` |

How the parts meet: user programs are processes and threads (`Pthread*`) that call each
other through `/dev/binder`.  servicemanager is the context manager, vold waits for
hotplug uevents there, and the storage daemons serve mounts through `/dev/fuse`, so that a
file operation of one program becomes a request to another one.  Below them are the wait
queues of `kernel/sched.c`, which the models of the drivers contain as the state `run` of
a task.  `PROJECT.json` lists every part of the system, those without a model included.

### The kernel under the models

The kernel is not preemptive.  A timer interrupt reschedules only when it has interrupted
user mode (`sun_handler`, `arch/six/kernel/irq.c`), and neither `kmalloc` nor a copy to
user memory sleeps in this port.  So a system call is **one step from one sleep to the
next**, and what has to be right is everything that another task does during a sleep.  A
sleeping task (`run[t] = "asleep"`) runs again only when a step wakes it: a lost wake-up
is a reachable state, not an omission of the scheduler.

User threads, on the other hand, are preempted anywhere.  In the `Pthread` modules a step
is what is atomic for other threads: a section under the global lock of the library, one
atomic exchange, or one unlocked access to a shared word.  In `PthreadMonitor` two pairs of
accesses are one step each.  `owner` and `count` are written together, since only the holder
of the mutex looks at `count`; and `locked` and `owner` are read together, since a thread finds
itself in `owner` only while it holds the mutex.

### Binder

State: the slots of `binder_procs` (`in_use`, `todo`, `in_flight`, `last_uevent_seq`), the
transactions by id (`txn`), the registry (`svcs`, `context_mgr`), the uevent ring, and for
each task its descriptor (`file`), call (`pc`), sleep (`run`) and transaction (`cur`).
There is one action per ioctl, and one for what each sleeping ioctl does when it is woken:

| Action | Code |
| --- | --- |
| `BinderOpen`, `Share`, `CloseShared`, `BinderRelease` | `binder_open`, `fork`, `close_fp`, `binder_release` |
| `SetContextMgr`, `RegisterSvc`, `AddService` | the registry ioctls and `SVC_MGR_ADD_SERVICE` |
| `TransactService`, `TransactManager`, `TransactWake` | `binder_do_transact` before and after `sleep_on` |
| `DoReply` | `binder_do_reply` |
| `ReadNow`, `ReadSleep`, `ReadWake`, `Signal` | `binder_do_recv`, `WAIT_EVENT`, `select` |
| `UeventPoll`, `UeventEmit`, `UeventPrepare` | the uevent ioctls, with the medium of `usb_sd.c` |

`BinderRpc` is the abstract specification: what the driver promises a synchronous caller.
A call is pending at a process; the process answers it, or dies and breaks it; then it
returns.  `Binder` implements it with `alive <- in_use` and `call` read off `pc`, `cur` and
`txn` (`CallOf`).

Payloads and SELinux verdicts are left out (a denied call changes nothing).  Names are
cut to 63 characters when they are stored but not when they are looked up; the constant
`Stored` keeps that.

### FUSE

One connection, since every open of `/dev/fuse` makes its own.  State: the fields of
`fuse_conn`, the lists `pending`, `processing` and `forgets`, the requests by `unique`, the
inodes with their lookup counts, and the tasks.  Requests of callers live on the caller's
stack: they are "free" once the call has returned, and reaching one after that is what
`NoDangling` rules out.  `FUSE_INIT` is on the heap and nobody waits for it.
Callers hold an inode of the file system for as long as their call takes, which is what
`fs_may_umount` looks at, with one exception: `sys_ustat` calls `statfs` with a pointer to the
super block only.  Its callers (`InUstat`) may come while an unmount sleeps, and their wait for
the handshake may outlive the connection (`FreedWake`): what such a task then reads is freed
memory, so that it returns or is stranded (`"stray"`).
`Mount`, `Umount`, `UmountSync` are `fuse_read_super` and `fuse_put_super` around its sleep;
`RequestSend`, `InitWake`, `RequestWake` are the three pieces of `fuse_request_send`;
`ReadNow`, `ReadSleep`, `ReadWake`, `Write` are the daemon's side; `Iput` with `PutInode` and
`QueueForget` gives lookups back.  `FuseLookups` adds what the daemon counts.

`FuseService` is what those who use the file system, and the daemon, rely on.  A call is
queued, taken by the daemon (each once, the oldest first), answered at most once, and
returns with that answer, or with an error when the connection went down before there was
one.  Only a lookup that was answered with a node is a use of an inode.  `FUSE_DESTROY` is
asked when nobody but `sys_ustat` is in the file system, and an unmount cuts no other call
short.  `Fuse` implements it with `up <- connected`, `fs <- sb`, `uses <- i_count` and `call`
read off the requests that sleeping tasks own (`Calls`): a request on `pending` is queued,
one on `processing` taken, one that is done answered.  The wait for the handshake, the
sleeps of the daemon and the lists themselves are not visible.

Operations are abstracted to `LOOKUP`, which brings an inode, `STATFS` and `OTHER`.  `InoOf` is
`fuse_ino_from_nodeid`, which maps a 64-bit node to an inode number and is not one to one.

### Threads

`Pthread` has the table of thread control blocks, the global lock, where each thread is in
the library, and the kernel's side of it: the state and the parent of each task.  Threads
have one parent in common (`do_fork` gives a thread the parent of its creator, and
`sys_wait4` looks for the children of that parent), so any thread can wait for any other,
until the first thread exits and the rest go to init.  `pthread_create` is two steps,
because the new thread runs before its creator has stored its tid; `pthread_join` is six,
because it drops the lock, keeps its pointer to the entry and waits in a loop.  The
constant `Use` says what happens besides creation, exit and join: detached threads, an
exit of the first thread, signals that interrupt `waitpid`, threads that are killed.

`PthreadKeys` extends it with keys, values and the passes of `run_tls_destructors`, in which
destructors may themselves create and delete keys and store values.
`PthreadMonitor` models the exchange on the mutex word apart from the accesses to `owner`
and `count`, and the waiters, tickets and broadcast generation of a condition variable.
`PthreadGates` models the other three, whose waiters look at a word without a lock.
The clients are those POSIX admits: a thread unlocks what it holds, and is joined once.

### Pipes

A pipe is one page used as a ring, with one wait queue for readers, writers and `select`.
`Pipe` keeps the page byte by byte: a byte is the call that wrote it and its place in that
call, so that a byte lost, doubled, or put between the bytes of another write is seen.
`CallRead`, `CallWrite` and `CallSelect` are the calls up to their first sleep, `Resume` is
what follows a wake-up, with the two-chunk copies (`ReadTotal`, `WriteTotal`) and the wake-up
of everybody on the queue; `CloseRead`, `CloseWrite` and `Signal` end waits.  `PIPE_LOCK` is
never seen held, because the copies do not sleep.  A select for exceptions sleeps on
`i_wait`, which nothing in `pipe.c` wakes; such a task is in `idle_wait` and only a signal
ends its sleep, and `NoLostWakeup` and `HangupReturns` do not speak of it.

`PipeQueue` is what a user of a pipe relies on: a bounded queue, into which a write that
fits enters at once and a larger one in pieces and in order.  `Pipe` implements it with the
ring read from `start` (`Contents`).  `AtomicWrites` says what that means to a reader: in the
ring a write that fits is in one piece, but for what has been read of it.

### A/B updates

`Ota` composes four programs that share a disk: the `ota` command, the verity targets of the
device mapper, the persistent header of the UFS driver, and the sideloader of the host.
State on the disk: the slices of both slots (`slice`), their vbmeta (`vbm`), the header
(`disk`).  State that a power loss takes: the kernel's copy of the header (`hdr`), the
mapped devices (`dev`), the activation (`act`) and the command (`job`).  The writes of
`apply` and `repair-b` are one action per block of the hash tree (`WriteSpine`), then one for
the vbmeta; the seeding at boot, the switch, the rollback and the boot LUN are one action per
write that matters to a boot, and `Crash` may come after any of them.  Two actions merge
writes: `Activated` the flags of the two vbmetas, of which the model keeps only BOOTABLE, with
the boot LUN, and `HostSlices` the slices that the host writes, between which no boot comes
unless host and boot overlap.

A hash is represented by what it is computed from.  Of a slice the model follows the block
of the superblock and the block of `build.prop`, the two that the commands write.  Where
`build.prop` lies decides which hash blocks they share and whether activation, which
verifies 16 blocks, looks at it; `layout` is each of the three cases.

| Action | Code |
| --- | --- |
| `Boot`, `SeedA`, `SeedLun`, `SeedB` | the UFS probe, `dm_seed_ufs_vbmeta_if_needed`, `dm_setup_verity_bin` |
| `CheckFlags`, `SetupSlice`, `Activated`, `Condemn`, `Fallback` | `dm_activate_ota_slot` with its rollback |
| `Apply`, `Repair`, `Corrupt`, `Switch` | the commands of `ota.c` |
| `WriteSpine`, `WriteVbmeta`, `RecordRollback` | their writes, in order |
| `WriteBootLunAttr` | the boot LUN attribute, from `corrupt-b` or from `ufs boot-slot a\|b` |
| `HostStart` ... `HostHeader`, `Poll` | `cmd_sideload` of `host_ota.py`, `ufs_poll_external_ota` |

What the model takes for granted, all of it about the surroundings of this code:

- A power loss keeps a prefix of the writes to `/dev/hdd`.  The buffer cache writes dirty
  buffers in the order in which they became dirty, and syncs at the close.
- An `apply` brings content that is in neither vbmeta, since its version is above both
  rollback indices.  Without this, one slot's `/system` with the other's `/vendor` is reachable.
- One command, `ota` or `ufs boot-slot`, runs at a time; the code has no lock for this.
- `ufs boot-slot a` is not used while slot B is live (constant `ByHand`, FALSE in the runs).
  With it, the next `apply` writes the live slot (see Findings), and where slot A is
  half written a power loss leaves a machine that boots slot A, which has no fallback.
- Packages verify: what the host writes is what its vbmeta names.  A package may be a delta,
  made for what slot A holds, and `--corrupt-verity` makes one that does not verify; its rollback
  index is above 1, so that the next boot does not take its vbmeta for one of another image.
- `corrupt-b`, a test command, is used while slot A is live.  The option `--slot` is not used
  for the live slot.
- Except in `ota_overlap`, the host sideloads between commands or while the machine is
  off, finishes before the next boot, and finds the live slot as boot LUN.  (After `corrupt-b`
  the boot LUN is not the live slot, and the default target of `host_ota.py` would be the
  live one.)
- A package names the inactive slot as its target, if it names one.

## What TLC checks

| Run | What it asks | Instance |
| --- | --- | --- |
| `binder_calls` | lists, ids and the registry stay consistent while descriptors are shared, closed and reopened; FIFO and no lost wake-up; implements `BinderRpc`; a handle is never rebound | 3 tasks, 2 slots, 1 table entry for 3 names, 2 transactions, 2 handles |
| `binder_uevents` | a ring that is overrun: a reader misses events only when it was overrun, goes on with the newest one then, and is woken for what it has not read | 2 tasks, ring of 2, 4 events |
| `fuse_requests` | requests on callers' stacks, handshake, abort, unmount, reference count; implements `FuseService`; once the connection is down every call returns | 3 tasks, of which the daemon and one caller make calls, 4 requests |
| `fuse_lookups` | the kernel gives back no more lookups than it got | 3 nodes, 2 with one inode number, 5 requests |
| `pthread_join` | stacks outlive their tasks, joins return, also when threads are killed or have destructors to run | 3 threads, 2 entries, 2 stacks, 1 key, 2 passes |
| `pthread_detach` | violated: see Findings | 3 threads |
| `pthread_keys` | entries are not taken from living threads, joins get the right result, values of keys belong to their thread, destructors run | 3 threads, 1 key created twice, 2 passes |
| `pthread_monitor` | recursive mutex with unlocked reads of the owner, condition variable: exclusion, exact owner, no lost signal | 4 threads, depth 2, 3 broadcasts |
| `pthread_gates` | read-write lock, barrier, once: nobody passes too early, everybody passes | 3 threads, barrier of 2, 2 phases |
| `pipe` | bounded queue, no lost wake-up, a hang-up ends the waits | 2 tasks, ring of 2, calls of 1, 2, 3 bytes |
| `ota` | the machine comes up on one verified slot after any power loss, the live slot stays intact, no sideload is forgotten | 2 builds, 1 sideload, 2 power losses, 3 layouts |
| `ota_overlap` | violated: see Findings | 1 build, 1 sideload, 2 power losses |

**Why these bounds.**  Each instance is the smallest in which the cases happen that the
code has branches for, with one more of something than there is room for.  Binder: a third
task shares or reopens a slot while two others are in a call; one table entry makes
registration fail and be reused; names too long to be stored meet the short name they are
cut to.  A ring of two is overrun twice.  FUSE: the handshake, a caller that waits for it,
one that waits for an answer, and the destroying request of the unmount.  Threads: one
entry and one stack are freed and reused while another thread still looks at them; four
threads in the monitor are an owner, a signaller and two waiters.  A pipe ring of two has
writes that fit, that just fit and that do not, at both start indices.  OTA: a second power
loss can hit the recovery from the first; two builds tell a slot that was updated from one
that was updated twice.  `MaxTxns`, `MaxHandles`, `MaxUevents`, `MaxUnique`, `MaxGen`,
`MaxPhase`, `MaxReads`, `MaxDepth`, `MaxBuild`, `MaxSideloads` and `MaxCrashes` bound
counters that the code lets grow; the proofs below hold for every value of the constants.

**Symmetry** permutes tasks, names, threads or stacks that no definition tells apart.  No
run that checks a liveness property uses it.

**Fairness.**  `NoHang`: a task that was woken runs (weak fairness of the steps after a
wake-up); nothing is assumed of the daemon, which may never read or answer.  `JoinReturns`
and `GatesOpen`: a thread inside a call of the library goes on, which the scheduler does for
a runnable task, and `sched_yield` returns; the destructors of the program return.
`HangupReturns`: a task woken in a pipe runs.  No call of a user is fair: nobody has to make one.

**Deadlock** is checked in the OTA runs.  In the other runs the system may stop: bounded
counters run out, and every task may be asleep waiting for a user who never calls, or, in
Binder, for each other.

## What TLAPS proves

For every value of the constants that the named assumptions allow: `ConstantsAssumption`
and `StoredAssumption` (sizes are naturals, the ring is not empty, cutting a name twice cuts
it once), `FuseAssumption`, `PthreadAssumption`, `KeysAssumption`, `MonitorAssumption` and
`GatesAssumption` (finitely many threads, a barrier of at least one), `PipeAssumption` (the ring
is not empty and calls are for at least one byte), `OtaAssumption` (at least one build).

- **Binder** (`BinderProofs`).  The inductive invariant is
  `TypeOK /\ FilesInv /\ TxnInv /\ NoLostWakeup /\ RegistryInv`.  Its parts need each other.  That
  the transaction of a sleeping sender is done or held by a living target (`SenderInv`)
  survives a reply only because no two senders share a transaction (`OneSender`), a release
  only because what a list holds is not done (`ListsInv`), an allocation only because ids are
  fresh (`FreshIds`).  A consequence: the clean-up after `sleep_on` in `binder_do_transact`
  is never needed.
- **The uevent ring** (`RingSafe`, `LossExplained`).  `RingInv` is inductive once the types are
  known.  That a reader misses an event only after an overrun needs `Overwritten` besides: every
  event that is `RingSize` or more behind the newest one has lost its place in the ring.
- **Binder implements BinderRpc** (`Refinement`).  Init maps to Init.  Of the steps,
  sending, answering, the death of a target and the return map to one abstract step each,
  every other step to a stutter; the invariant says that a return finds its transaction
  done.  `HandlesSafe` and `DoneSafe` are action properties from the same invariant.
- **FUSE** (`FuseProofs`).  The invariant adds to the checked properties which task each
  queued request belongs to (`LinksInv`, `WaitersInv`), who uses the super block
  (`UsersInv`), which operation a waiting task has sent (`Fits`), and that an unmount has the
  file system alone but for `sys_ustat` (`AloneInv`, over the tasks that unmount, `Unmounts`).
  The last one rests on the inode that every other caller holds.
- **FUSE implements FuseService** (`ServiceRefinement`).  A step changes what is seen of at
  most one call (`OneCall`), except the close of the device, which ends all that are not
  answered (`CloseTakesDown`).  What carries the proof is that the request of a caller is on
  one list or on none (`ListsApart`), that its list tells its stage (`CallOf`), and that
  `pending` is in the order of the numbers (`FifoDelivery`, proved as `DeliveryCorrect`), so that
  the head of the list is the oldest call.  That an unmount cuts short no call but those of
  `sys_ustat` is `AloneInv` (`UnusedThen`, `AbortFails`).
- **FUSE lookups** (`FuseLookupsProofs`, `LookupsCorrect`).  A lookup is on its way in several places: in an answer
  that the caller has not read, in the count of an inode, in a forget that is queued.
  `LookupInv` says that for every node with an inode number of its own these add up to no
  more than the daemon granted.
- **Threads** (`PthreadProofs`).  The heart is `JoinInv`: the entry to
  which `pthread_join` keeps a pointer without the lock stays the entry of its thread, because
  nobody else may join or detach that thread.  `TcbSafe` and `JoinSafe` hold for every `Use`,
  killed threads included, which `pthread_keys` leaves out to stay small.
- **Stacks** (`PthreadProofs`).  `StackSafe` is for `Use` within `{"kill"}`: the assumption is
  needed, see Findings.  `KeysKeepThreads` shows that `PthreadKeys` takes only steps of
  `Pthread`, which carries the theorems over to it.
- **Thread-specific data** (`TlsSafe`, `DtorsSafe`, in `PthreadProofs`).  `KeysInv` adds to
  the invariant of `Pthread` that an entry in use holds only what its thread has stored since
  the key was created (`TlsInv`, `MainTlsInv`), and that the keys which a pass has gone by
  have no value for a destructor unless one ran in this pass (`ScanInv`).
- **Mutexes and condition variables** (`PthreadMonitorProofs`).  `MutexInv` ties the word, the
  owner and the count, which are written one after the other, to where the holder is between
  those writes: the word is set from one exchange to the other, the owner only in between, so
  that an unlocked read of the owner cannot show a thread itself unless it holds the mutex.
  `WaitInv` says which threads are counted as waiters, and that none has seen a broadcast of
  the future; `NoLostSignal` is inductive with it.
- **Read-write locks, barriers, once** (`PthreadGatesProofs`).  The words are related to sets of
  threads: the state of the lock to the read locks held, the count of the barrier to those who
  wait in the present phase, the once control to the one thread in the routine.
- **Pipes** (`PipeProofs`).  The invariant is `TypeOK /\ CallInv /\ NoLostWakeup`, where
  `CallInv` says what a write that sleeps has left to do and what room it waits for.  For
  `Refinement` two facts of arithmetic carry the proof: an index wraps by at most one
  subtraction (`ModWrap`), and the loops that copy up to the end of the page and then from
  its start are through after two chunks.  `WritesAtomic` follows from the refinement: a step
  of the queue appends all of a write that fits, or takes bytes from the front, and both keep
  every byte beside its neighbours (`WholePut`, `WholeGet`).
- **A/B updates** (`OtaProofs`).  For any number of builds, sideloads and power losses and all
  layouts, as long as no sideload overlaps a command and slot A is not made the boot LUN by
  hand while slot B is live (`~Overlap` and `~ByHand`, hypotheses of each theorem; both are
  needed, see Findings).  The core of the invariant is `BootInv`: a power loss leaves a
  disk that boots, because slot A verifies, or the boot LUN is B and B verifies.  It survives
  the writers because commands and host write only the slot that is not live (`JobInv`,
  `HostInv`), and rollback because it starts only while slot A verifies (`ActInv`).
  `SpineOk` describes the torn states: up to the level that `WriteSpine` has reached, the hash
  tree agrees with the new contents.  `SlotInv` adds what is left of a torn slot A: its system
  slice has another root than its vbmeta names, or its vendor slice is sound.  `LiveInv` and
  `DevInv` say which slot the mapped devices read, `HeaderInv` how the kernel's copy of the
  header and the disk's differ while a request is pending.  A sideload onto an image that was
  never booted is covered: the first boot gives slot B its first vbmeta back, and slot A, which
  is then good, is the boot LUN (the seeding stages in `ActInv`).

**Only model-checked**: the liveness properties `NoHang`, `JoinReturns`, `GatesOpen` and
`HangupReturns`, which are out of this prover's reach.  Every safety property of a passing run
is also proved; `TypeCorrect`, `DeliveryCorrect`, `KeysKeepThreads` and `WritesAtomic` state facts
that no run lists.  Without their hypotheses on `Use`, `Overlap` and `ByHand`, `StackSafe` and the
theorems about updates are false: violation runs refute `StackLive` and `SideloadKept`,
and TLC refutes `ComesUp` and `LiveIntact` as well, with `Overlap` and with `ByHand` set to TRUE.

The inductive invariants were model-checked on instances like those of the runs before they
were proved.

## Findings

- **`sys_ustat` outlives a FUSE connection** (`fs/super.c:544`).  A task in it holds no
  inode, so the unmount goes on, and the last `fuse_conn_put` frees the connection on whose
  `init_waitq` the task sleeps.  It wakes up to read `connected` from freed memory and may sleep
  again on a queue that is gone, though `dev.c:45-47` says "so no VFS caller can ever hang
  waiting for a dead userspace daemon".  (One that waits for its answer does not look at the
  connection again, unless the answer is `ENOSYS`, when `fuse_statfs` notes that in it.)
  TLC refutes `NoCallerHangs`, which states the comment, when it takes the place of `NoHang` in
  `MCFuseRequests.cfg`; `NoHang` leaves these tasks out.
- **An update can write the live slot** (`dm.c:833`).  The status ioctl calls slot B
  active only if the boot LUN is B as well.  After `ufs boot-slot a` with slot B live it calls A
  active, and `ota apply`, which "stages and applies live A/B OTA updates into the inactive slot"
  (`ota.c:7`), writes B.  TLC refutes `LiveIntact` with `ByHand = TRUE` in `MCOta.cfg`.
- **The reaper of detached threads frees a stack that is in use** (`pthread_detach`,
  `pthread.c:109`).  It goes by the state that the thread itself sets to EXITED, while that
  thread is still on its way through `unlock_global` and `_exit`, on that stack.  The
  `malloc` in the same `pthread_create` may hand the block to the next thread.  The model
  also reaches it without detached threads, through an interrupted last `waitpid` of a join
  or an early exit of the first thread; hence the assumption of `StackSafe`.
- **A sideload can be overwritten** (`ota_overlap`, `ufshcd.c:233`).  The kernel saves its
  whole copy of the header.  A request that the host has written since the last poll is
  lost with the next save for another reason, though `host_ota.py` is said to work "live
  while ./six is running".
- A thread that is killed (not through `pthread_exit`) after the first thread has exited is
  reaped by init; who joins it then loops for ever, as `waitpid` fails and the state never
  becomes EXITED.  `JoinReturns` is therefore checked without an exit of the first thread.

## Not modelled, and limits

- **Two threads with one descriptor table**, of which one closes a binder device or a pipe
  while the other sleeps in a call on it.  A call takes no reference to its file, so the
  sleeper goes on with a slot that may have a new owner.  The models suppose that no
  program does this.
- **Binder**: synchronous calls in a circle block for ever (only a call to oneself is
  refused), and the run admits it.  A sender's sleep is uninterruptible, so a server that
  never answers holds its clients until it dies.  The transaction counter is not wrapped.
- **FUSE**: a daemon that uses its own mount waits for itself; the run contains it.  Forgets
  may be overtaken by requests without end.  Node ids that fold to one inode number spoil
  each other's lookup counts; `LookupBalance` is about the others, in their presence.
  Attributes, names and file contents are left out, and `no_statfs`: once the daemon has refused
  `FUSE_STATFS`, the kernel answers it by itself.
- **Threads**: pids are not reused; a kill of a thread that holds the global lock is left
  out (nobody would get the lock again); clients keep to POSIX.
- **FIFOs**: the open of a FIFO, which waits for the other end.
- **A/B updates**: `install` of a zip package, which makes the writes of `apply` for each
  image of the package; the ACTIVE and SUCCESSFUL flags, priorities and the contents of the
  RPMB; seeding again because the image was rebuilt; a poll during the seeding of the first
  boot.  Two limits of the code that the properties leave open: activation verifies 16
  blocks, so that a slot torn at a `build.prop` beyond them is accepted and that file cannot
  be read; and `repair-b` after an interrupted `apply` makes a slot bootable whose system and
  vendor are of different builds.
- **Wakelocks and suspend, the block request queue with its stall watchdog, khungtaskd, the
  NVMe controller, the debug bridge and OverlayFS** are left out.  The first three depend on
  how long a task sleeps, or on what every other task does at one moment; NVMe commands
  complete within the call that submits them; the last is mostly names and copies of files.
- **The services above binder** (servicemanager, vold, the storage daemons), whose loops
  decide whether calls can form a circle.
- **Disk file systems, crypt targets, SELinux policy, the network, the port to the host**: data
  structures or algorithms out of TLC's reach, or sequential code.

`PROJECT.json` lists the parts with the reason for each, the lines of the source that each
definition models, and the hazards with the properties that cover them.
