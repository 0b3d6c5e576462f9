--------------------------------- MODULE Pipe ---------------------------------
(***************************************************************************)
(* A pipe (fs/pipe.c): one page used as a ring, two ends shared by the      *)
(* tasks that inherited them, and one wait queue for readers, writers and   *)
(* selecting tasks alike.  The kernel is not preempted and its copies to    *)
(* and from user space do not sleep, so a call runs from its entry, or from *)
(* the wake-up that ends its sleep, to its return or to its next sleep in   *)
(* one step; PIPE_LOCK is then never seen held and is left out.             *)
(***************************************************************************)
EXTENDS Integers, FiniteSets

CONSTANTS
  Task,        \* the tasks that share the pipe
  PIPE_BUF,    \* the size of the ring, in bytes
  Count        \* the sizes a read or a write may ask for

ASSUME PipeAssumption ==
  /\ PIPE_BUF \in Nat \ {0}
  /\ Count \subseteq Nat \ {0}

VARIABLES
  buf,         \* the page: a byte not yet read, or Blank, at each index
  start, len,  \* PIPE_START and PIPE_LEN
  rd, wr,      \* the tasks that still hold the read end, the write end
  op,          \* the call each task is in
  asleep,      \* the tasks asleep on PIPE_WAIT
  idle_wait,   \* the tasks asleep on i_wait
  sig          \* the tasks with a signal pending

vars == <<buf, start, len, rd, wr, op, asleep, idle_wait, sig>>

-------------------------------------------------------------------------------
Index == 0 .. PIPE_BUF - 1

(* A byte is known by the call that wrote it and by its place in that call. *)
Blank == [size |-> 0]
Byte == [by : Task, size : Count, at : Nat]

(* A read, a write with what it has written and the room it waits for (the  *)
(* local "free"), or a select for one event.  A call with O_NONBLOCK never  *)
(* sleeps, so no call in progress has it.                                   *)
Idle == [call |-> "idle"]
Reading == [call : {"read"}, count : Count]
Writing == [call : {"write"}, size : Count, written : Nat, free : Nat]
Selecting == [call : {"select"}, event : {"in", "out", "ex"}]

TypeOK ==
  /\ buf \in [Index -> Byte \cup {Blank}]
  /\ start \in Index
  /\ len \in 0 .. PIPE_BUF
  /\ rd \subseteq Task
  /\ wr \subseteq Task
  /\ op \in [Task -> {Idle} \cup Reading \cup Writing \cup Selecting]
  /\ asleep \subseteq Task
  /\ idle_wait \subseteq Task
  /\ sig \subseteq Task

Least(a, b) == IF a <= b THEN a ELSE b
PIPE_FREE == PIPE_BUF - len
PIPE_END == (start + len) % PIPE_BUF

(* do_pipe, then the forks that hand both ends to every task. *)
Init ==
  /\ buf = [i \in Index |-> Blank]
  /\ start = 0
  /\ len = 0
  /\ rd = Task
  /\ wr = Task
  /\ op = [t \in Task |-> Idle]
  /\ asleep = {}
  /\ idle_wait = {}
  /\ sig = {}

-------------------------------------------------------------------------------
(* A call of t ends; what is pending is delivered on the way to user mode.  *)
Return(t) ==
  /\ op' = [op EXCEPT ![t] = Idle]
  /\ sig' = sig \ {t}

(* interruptible_sleep_on(&PIPE_WAIT). *)
Sleep(t, o) ==
  /\ op' = [op EXCEPT ![t] = o]
  /\ asleep' = asleep \cup {t}
  /\ UNCHANGED sig

-------------------------------------------------------------------------------
(* The copying loops: a chunk never runs past the end of the page, so a     *)
(* copy that wraps takes two.                                               *)
RChunk(at, size, count) == Least(PIPE_BUF - at, Least(count, size))
WChunk(end, free, count) == Least(PIPE_BUF - end, Least(count, free))

(* The bytes taken by both chunks of a read of count.                       *)
ReadTotal(count) ==
  LET c1 == RChunk(start, len, count)
      c2 == RChunk((start + c1) % PIPE_BUF, len - c1, count - c1)
  IN c1 + c2

(* The page after both chunks of a write: chunk c lands at [e, e + c) and   *)
(* continues the call's data where the previous one stopped.                *)
Filled(b, t, o, e, c, from) ==
  [i \in Index |-> IF e <= i /\ i < e + c
                   THEN [by |-> t, size |-> o.size, at |-> from + (i - e)]
                   ELSE b[i]]

WriteFirst(o) == WChunk(PIPE_END, PIPE_FREE, o.size - o.written)
WriteSecond(o) ==
  LET c1 == WriteFirst(o)
  IN WChunk((PIPE_END + c1) % PIPE_BUF, PIPE_FREE - c1, o.size - o.written - c1)

WriteTotal(o) == WriteFirst(o) + WriteSecond(o)

WriteBuf(t, o) ==
  LET c1 == WriteFirst(o)
  IN Filled(Filled(buf, t, o, PIPE_END, c1, o.written),
            t, o, (PIPE_END + c1) % PIPE_BUF, WriteSecond(o), o.written + c1)

-------------------------------------------------------------------------------
(* A fault: a read that makes room wakes nobody. *)
ReadBytesQuiet(t, o) ==
  LET n == ReadTotal(o.count)
  IN /\ len > 0
     /\ buf' = [i \in Index |-> IF \E k \in 0 .. n - 1 : i = (start + k) % PIPE_BUF
                               THEN Blank ELSE buf[i]]
     /\ start' = (start + n) % PIPE_BUF
     /\ len' = len - n
     /\ asleep' = asleep \ {t}
     /\ Return(t)
     /\ UNCHANGED <<rd, wr, idle_wait>>

(* pipe_read, from its entry or from a wake-up. What a cell still holds     *)
(* once it was read nobody looks at: it is Blank from then on.              *)
ReadBytes(t, o) ==
  LET n == ReadTotal(o.count)
  IN /\ len > 0
     /\ buf' = [i \in Index |-> IF \E k \in 0 .. n - 1 : i = (start + k) % PIPE_BUF
                               THEN Blank ELSE buf[i]]
     /\ start' = (start + n) % PIPE_BUF
     /\ len' = len - n
     /\ asleep' = {}
     /\ Return(t)
     /\ UNCHANGED <<rd, wr, idle_wait>>

ReadNothing(t, o, nonblock) ==
  /\ len = 0
  /\ IF wr = {} \/ nonblock \/ t \in sig
     THEN /\ Return(t)                         \* end of file, -EAGAIN, -ERESTARTSYS
          /\ asleep' = asleep \ {t}
     ELSE Sleep(t, o)
  /\ UNCHANGED <<buf, start, len, rd, wr, idle_wait>>

Read(t, o, nonblock) == ReadBytes(t, o) \/ ReadNothing(t, o, nonblock)

(* pipe_write. The wait: no reader, a signal or O_NONBLOCK ends the call    *)
(* with what was written so far.                                            *)
WriteStops(t, nonblock) == rd = {} \/ t \in sig \/ nonblock

WriteBlocked(t, o, nonblock) ==
  /\ PIPE_FREE < o.free
  /\ IF WriteStops(t, nonblock)
     THEN Return(t) /\ asleep' = asleep \ {t}
     ELSE Sleep(t, o)
  /\ UNCHANGED <<buf, start, len, rd, wr, idle_wait>>

(* The copy, the wake-up and, when the call has bytes left, the wait again: *)
(* the page is full then.                                                   *)
WriteBytes(t, o, nonblock) ==
  LET n == WriteTotal(o)
      o1 == [call |-> "write", size |-> o.size, written |-> o.written + n, free |-> 1]
  IN /\ PIPE_FREE >= o.free
     /\ buf' = WriteBuf(t, o)
     /\ len' = len + n
     /\ IF o.written + n = o.size \/ WriteStops(t, nonblock)
        THEN Return(t) /\ asleep' = {}
        ELSE /\ op' = [op EXCEPT ![t] = o1]
             /\ asleep' = {t}
             /\ UNCHANGED sig
     /\ UNCHANGED <<start, rd, wr, idle_wait>>

Write(t, o, nonblock) == WriteBlocked(t, o, nonblock) \/ WriteBytes(t, o, nonblock)

(* pipe_select under the select loop, without a timeout.                    *)
Ready(event) ==
  CASE event = "in"  -> len > 0 \/ wr = {}
    [] event = "out" -> len = 0 \/ rd = {}
    [] event = "ex"  -> rd = {} \/ wr = {}

Select(t, o) ==
  /\ IF Ready(o.event) \/ t \in sig
     THEN Return(t) /\ asleep' = asleep \ {t} /\ idle_wait' = idle_wait \ {t}
     ELSE IF o.event = "ex"
          THEN /\ op' = [op EXCEPT ![t] = o]
               /\ idle_wait' = idle_wait \cup {t}
               /\ UNCHANGED <<asleep, sig>>
          ELSE Sleep(t, o) /\ UNCHANGED idle_wait
  /\ UNCHANGED <<buf, start, len, rd, wr>>

-------------------------------------------------------------------------------
(* A task enters a call. pipe_write refuses (-EPIPE) when nobody reads, and *)
(* asks for room for the whole call when the call fits the page.            *)
CallRead(t) ==
  /\ op[t] = Idle
  /\ t \in rd
  /\ \E n \in Count, nb \in BOOLEAN :
       Read(t, [call |-> "read", count |-> n], nb)

(* A fault: a write never asks for more than one byte of room. *)
CallWritePiecemeal(t) ==
  /\ op[t] = Idle
  /\ t \in wr
  /\ rd # {}
  /\ \E n \in Count, nb \in BOOLEAN :
       Write(t, [call |-> "write", size |-> n, written |-> 0, free |-> 1], nb)

CallWrite(t) ==
  /\ op[t] = Idle
  /\ t \in wr
  /\ rd # {}
  /\ \E n \in Count, nb \in BOOLEAN :
       Write(t, [call |-> "write", size |-> n, written |-> 0,
                 free |-> IF n <= PIPE_BUF THEN n ELSE 1], nb)

CallSelect(t) ==
  /\ op[t] = Idle
  /\ \E e \in {"in", "out", "ex"} :
       /\ t \in (IF e = "out" THEN wr ELSE rd)
       /\ Select(t, [call |-> "select", event |-> e])

(* A woken task goes round its loop. *)
Resume(t) ==
  /\ t \notin asleep \cup idle_wait
  /\ \/ op[t].call = "read" /\ Read(t, op[t], FALSE)
     \/ op[t].call = "write" /\ Write(t, op[t], FALSE)
     \/ op[t].call = "select" /\ Select(t, op[t])

(* The last close of an end runs its release, which wakes the queue.        *)
CloseRead(t) ==
  /\ op[t] = Idle
  /\ t \in rd
  /\ rd' = rd \ {t}
  /\ asleep' = IF rd = {t} THEN {} ELSE asleep
  /\ UNCHANGED <<buf, start, len, wr, op, idle_wait, sig>>

(* A fault: the last writer leaves without a word. *)
CloseWriteQuiet(t) ==
  /\ op[t] = Idle
  /\ t \in wr
  /\ wr' = wr \ {t}
  /\ UNCHANGED <<buf, start, len, rd, op, asleep, idle_wait, sig>>

CloseWrite(t) ==
  /\ op[t] = Idle
  /\ t \in wr
  /\ wr' = wr \ {t}
  /\ asleep' = IF wr = {t} THEN {} ELSE asleep
  /\ UNCHANGED <<buf, start, len, rd, op, idle_wait, sig>>

(* A signal for a task inside a call wakes it from either queue.            *)
Signal(t) ==
  /\ op[t] # Idle
  /\ sig' = sig \cup {t}
  /\ asleep' = asleep \ {t}
  /\ idle_wait' = idle_wait \ {t}
  /\ UNCHANGED <<buf, start, len, rd, wr, op>>

Next == \E t \in Task :
  CallRead(t) \/ CallWrite(t) \/ CallSelect(t) \/ Resume(t)
    \/ CloseRead(t) \/ CloseWrite(t) \/ Signal(t)

Spec == Init /\ [][Next]_vars

(* The scheduler runs every runnable task. *)
FairSpec == Spec /\ \A t \in Task : WF_vars(Resume(t))
-------------------------------------------------------------------------------
(* A byte at place k of the pipe, counted from its front. *)
At(k) == buf[(start + k) % PIPE_BUF]

(* The queue the ring stands for, and what its unfinished writes put in.    *)
Contents == [i \in 1 .. len |-> At(i - 1)]
Sent == [t \in Task |-> IF op[t].call = "write" THEN op[t].written ELSE 0]

Queue == INSTANCE PipeQueue WITH Capacity <- PIPE_BUF, q <- Contents, sent <- Sent, open <- wr

(* The ring, its two-chunk copies and its sleeping writers implement the    *)
(* bounded queue: bytes leave in the order they entered, and pipe_write's   *)
(* "if count <= PIPE_BUF, we have to make it atomic" holds whatever other   *)
(* writers, readers and signals do in between.                              *)
ImplementsQueue == Queue!Spec

(* A reader never meets a part of a write of at most PIPE_BUF bytes with    *)
(* something else before or behind it: what pipe_write put in at once stays *)
(* in one piece in the ring, across its wrap.                               *)
AtomicWrites == Queue!Whole

(* What t sleeps for has not happened. *)
Waits(t) ==
  \/ op[t].call = "read" /\ len = 0 /\ wr # {}
  \/ op[t].call = "write" /\ PIPE_FREE < op[t].free /\ rd # {}
  \/ op[t].call = "select" /\ op[t].event # "ex" /\ ~Ready(op[t].event)

(* No sleeper of the one wait queue has been left behind: a reader asleep   *)
(* finds the pipe empty and a writer alive, a writer asleep lacks the room  *)
(* it asked for and has a reader, a selecting task waits for what is not    *)
(* so.  Every change made by another task woke it otherwise.                *)
NoLostWakeup == \A t \in asleep : Waits(t)

(* A call that waits for the other end returns once the other end is gone:  *)
(* a read gets its end of file when the last writer closes, a write stops   *)
(* when the last reader does, although neither is told which of the two     *)
(* woke it.                                                                 *)
HangupReturns ==
  \A t \in Task :
    /\ (op[t].call = "read" /\ wr = {}) ~> (op[t] = Idle)
    /\ (op[t].call = "write" /\ rd = {}) ~> (op[t] = Idle)
===============================================================================
