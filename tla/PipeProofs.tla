------------------------------ MODULE PipeProofs ------------------------------
(***************************************************************************)
(* What TLAPS proves of Pipe, for every set of tasks, ring size and set of  *)
(* call sizes: no sleeper is left behind, and the ring implements the       *)
(* bounded queue.  Both rest on the inductive invariant IInv and on two     *)
(* facts of arithmetic: an index below twice the ring size wraps by one     *)
(* subtraction, and two chunks copy all that the call and the ring allow.   *)
(***************************************************************************)
EXTENDS Pipe, Sequences, TLAPS

(* What a write in progress knows: it may still use the write end, it has   *)
(* bytes left, and it waits for room for all of them or for one.            *)
WriteOK(o) ==
  /\ o.written < o.size
  /\ IF o.size <= PIPE_BUF THEN o.written = 0 /\ o.free = o.size ELSE o.free = 1

CallInv ==
  \A t \in Task : op[t].call = "write" => t \in wr /\ WriteOK(op[t])

IInv == TypeOK /\ CallInv /\ NoLostWakeup

Wrap(a) == IF a < PIPE_BUF THEN a ELSE a - PIPE_BUF

-------------------------------------------------------------------------------
(* "& (PIPE_BUF-1)" of pipe_fs_i.h is one conditional subtraction for every *)
(* sum of an index and a length.                                            *)
LEMMA ModWrap ==
  ASSUME NEW a \in Nat, a < 2 * PIPE_BUF
  PROVE  a % PIPE_BUF = Wrap(a)
BY PipeAssumption DEF Wrap

(* Two chunks suffice: the copying loops of pipe_read and pipe_write end    *)
(* after the second with all that the call asks for and the ring has.       *)
LEMMA TwoChunks ==
  ASSUME NEW e \in Index, NEW f \in Nat, NEW r \in Nat, f <= PIPE_BUF,
         NEW c1 \in Nat, c1 = WChunk(e, f, r)
  PROVE  c1 + WChunk((e + c1) % PIPE_BUF, f - c1, r - c1) = Least(r, f)
<1>1. e + c1 <= PIPE_BUF /\ c1 <= f /\ c1 <= r
  BY PipeAssumption DEF WChunk, Least, Index
<1>2. CASE e + c1 < PIPE_BUF
  <2>1. c1 = Least(r, f)
    BY <1>2, PipeAssumption DEF WChunk, Least, Index
  <2>2. f - c1 = 0 \/ r - c1 = 0
    BY <2>1 DEF Least
  <2>3. (e + c1) % PIPE_BUF = e + c1
    BY <1>2, ModWrap, PipeAssumption DEF Wrap, Index
  <2> QED
    BY <1>1, <1>2, <2>1, <2>2, <2>3, PipeAssumption DEF WChunk, Least, Index
<1>3. CASE e + c1 = PIPE_BUF
  <2>1. (e + c1) % PIPE_BUF = 0
    BY <1>3, ModWrap, PipeAssumption DEF Wrap, Index
  <2> QED
    BY <1>1, <1>3, <2>1, PipeAssumption DEF WChunk, Least, Index
<1> QED
  BY <1>1, <1>2, <1>3, PipeAssumption DEF Index

(* The amounts of a read and of a write. *)
LEMMA ReadAmount ==
  ASSUME TypeOK, NEW n \in Nat
  PROVE  ReadTotal(n) = Least(n, len)
<1> DEFINE c1 == RChunk(start, len, n)
<1>1. /\ start \in Index
      /\ len \in Nat /\ len <= PIPE_BUF
  BY PipeAssumption DEF TypeOK
<1>2. c1 \in Nat /\ c1 = WChunk(start, len, n)
  BY <1>1, PipeAssumption DEF RChunk, WChunk, Least, Index
<1>3. RChunk((start + c1) % PIPE_BUF, len - c1, n - c1)
        = WChunk((start + c1) % PIPE_BUF, len - c1, n - c1)
  BY DEF RChunk, WChunk
<1>4. ReadTotal(n) = c1 + RChunk((start + c1) % PIPE_BUF, len - c1, n - c1)
  BY DEF ReadTotal
<1> HIDE DEF c1
<1>5. c1 + WChunk((start + c1) % PIPE_BUF, len - c1, n - c1) = Least(n, len)
  BY <1>1, <1>2, TwoChunks
<1> QED
  BY <1>3, <1>4, <1>5, Zenon

LEMMA CountPositive == \A n \in Count : n \in Nat /\ n > 0
<1> SUFFICES ASSUME NEW n \in Count PROVE n \in Nat /\ n > 0
  OBVIOUS
<1>1. n \in Nat \ {0}
  BY PipeAssumption
<1> QED
  BY <1>1

(* The records of the calls in progress. *)
LEMMA Calls ==
  /\ Idle.call = "idle"
  /\ \A o \in Reading : o.call = "read" /\ o.count \in Count
  /\ \A o \in Writing : /\ o.call = "write" /\ o.size \in Count
                        /\ o.written \in Nat /\ o.free \in Nat
  /\ \A o \in Selecting : o.call = "select" /\ o.event \in {"in", "out", "ex"}
BY DEF Idle, Reading, Writing, Selecting

LEMMA WriteAmount ==
  ASSUME TypeOK, NEW o \in Writing, o.written < o.size
  PROVE  /\ PIPE_END \in Index
         /\ PIPE_FREE \in Nat /\ PIPE_FREE = PIPE_BUF - len
         /\ WriteFirst(o) \in Nat
         /\ WriteFirst(o) = Least(PIPE_BUF - PIPE_END, Least(o.size - o.written, PIPE_FREE))
         /\ WriteSecond(o) \in Nat
         /\ WriteTotal(o) = WriteFirst(o) + WriteSecond(o)
         /\ WriteTotal(o) = Least(o.size - o.written, PIPE_FREE)
<1> DEFINE c1 == WriteFirst(o)
<1>1. /\ start \in Index
      /\ len \in Nat /\ len <= PIPE_BUF
      /\ o.size \in Nat /\ o.written \in Nat
  <2>1. start \in Index /\ len \in Nat /\ len <= PIPE_BUF
    BY PipeAssumption DEF TypeOK
  <2>2. o.size \in Nat /\ o.written \in Nat
    BY ZenonT(40), Calls, PipeAssumption
  <2> QED
    BY <2>1, <2>2
<1>2. PIPE_END \in Index
  BY <1>1, ModWrap, PipeAssumption DEF PIPE_END, Wrap, Index
<1>3. PIPE_FREE \in Nat /\ PIPE_FREE <= PIPE_BUF /\ PIPE_FREE = PIPE_BUF - len
  BY <1>1, PipeAssumption DEF PIPE_FREE
<1>4. PICK r \in Nat : r = o.size - o.written
  BY <1>1
<1>5. c1 = WChunk(PIPE_END, PIPE_FREE, r)
  BY <1>4 DEF WriteFirst
<1>6. c1 \in Nat /\ c1 = Least(PIPE_BUF - PIPE_END, Least(r, PIPE_FREE))
  BY <1>2, <1>3, <1>5, PipeAssumption DEF WChunk, Least, Index
<1>7. WriteSecond(o) = WChunk((PIPE_END + c1) % PIPE_BUF, PIPE_FREE - c1, r - c1)
  BY <1>4 DEF WriteSecond
<1>8. WriteTotal(o) = c1 + WriteSecond(o)
  BY DEF WriteTotal
<1> HIDE DEF c1
<1>9. c1 + WriteSecond(o) = Least(r, PIPE_FREE)
  BY <1>2, <1>3, <1>5, <1>6, <1>7, TwoChunks
<1>10. WriteSecond(o) \in Nat
  <2>1. c1 <= Least(r, PIPE_FREE)
    BY <1>2, <1>3, <1>6, PipeAssumption DEF Least, Index
  <2>2. (PIPE_END + c1) % PIPE_BUF \in Int
    BY <1>2, <1>6, PipeAssumption DEF Index
  <2>3. WriteSecond(o) \in Int
    BY <1>3, <1>6, <1>7, <2>2, PipeAssumption DEF WChunk, Least
  <2> QED
    BY <1>3, <1>6, <1>9, <2>1, <2>3 DEF Least
<1> QED
  BY <1>2, <1>3, <1>4, <1>6, <1>8, <1>9, <1>10 DEF c1

-------------------------------------------------------------------------------
LEMMA CallKinds ==
  ASSUME TypeOK, NEW t \in Task
  PROVE  /\ op[t].call = "read" => op[t] \in Reading
         /\ op[t].call = "write" => op[t] \in Writing
         /\ op[t].call = "select" => op[t] \in Selecting
         /\ op[t] \notin Reading \cup Writing \cup Selecting => op[t] = Idle
BY DEF TypeOK, Idle, Reading, Writing, Selecting

LEMMA GoOn ==
  ASSUME NEW o \in Writing, NEW n \in Nat
  PROVE  LET o1 == [call |-> "write", size |-> o.size, written |-> o.written + n, free |-> 1]
         IN /\ o1 \in Writing /\ o1.call = "write" /\ o1.size = o.size
            /\ o1.written = o.written + n /\ o1.free = 1
BY DEF Writing

-------------------------------------------------------------------------------
(* A sleeper that nothing touched still waits. *)
LEMMA WaitsKept ==
  ASSUME NEW s \in Task, Waits(s), op'[s] = op[s], UNCHANGED <<len, rd, wr>>
  PROVE  Waits(s)'
BY ZenonT(40) DEF Waits, Ready, PIPE_FREE

(* Each part of a call keeps the invariant; o is the call's record. *)
LEMMA ReturnKeeps ==
  ASSUME IInv, NEW t \in Task, Return(t), UNCHANGED <<buf, start, len, rd, wr>>,
         idle_wait' \subseteq Task, asleep' = asleep \ {t}
  PROVE  IInv'
<1>1. TypeOK'
  BY DEF IInv, TypeOK, Return
<1>2. CallInv'
  BY Calls DEF IInv, TypeOK, CallInv, Return, WriteOK
<1>3. NoLostWakeup'
  BY WaitsKept DEF IInv, TypeOK, NoLostWakeup, Return
<1> QED
  BY <1>1, <1>2, <1>3 DEF IInv

LEMMA SleepKeeps ==
  ASSUME IInv, NEW t \in Task, NEW o \in Reading \cup Writing \cup Selecting,
         Sleep(t, o), UNCHANGED <<buf, start, len, rd, wr, idle_wait>>,
         Waits(t)', o.call = "write" => t \in wr /\ WriteOK(o)
  PROVE  IInv'
<1>1. TypeOK'
  BY DEF Sleep, IInv, TypeOK
<1>2. CallInv'
  BY DEF Sleep, IInv, TypeOK, CallInv, WriteOK
<1>3. NoLostWakeup'
  <2> SUFFICES ASSUME NEW s \in asleep' PROVE Waits(s)'
    BY DEF NoLostWakeup
  <2>1. CASE s = t
    BY <2>1
  <2>2. CASE s # t
    BY <2>2, WaitsKept DEF Sleep, IInv, TypeOK, NoLostWakeup
  <2> QED
    BY <2>1, <2>2
<1> QED
  BY <1>1, <1>2, <1>3 DEF IInv

LEMMA ReadStep ==
  ASSUME IInv, NEW t \in Task, NEW o \in Reading, NEW nb \in BOOLEAN, Read(t, o, nb)
  PROVE  IInv'
<1>1. CASE ReadBytes(t, o)
  <2>1. PICK n \in Nat : n = ReadTotal(o.count) /\ n <= len
    <3>1. o.count \in Nat /\ len \in Nat
      <4>1. o.count \in Nat
        BY ZenonT(40), Calls, PipeAssumption
      <4> QED
        BY <4>1, PipeAssumption DEF IInv, TypeOK
    <3>2. ReadTotal(o.count) = Least(o.count, len)
      BY <3>1, ReadAmount DEF IInv
    <3> QED
      BY <3>1, <3>2 DEF Least
  <2>2. /\ buf' = [i \in Index |-> IF \E k \in 0 .. n - 1 : i = (start + k) % PIPE_BUF
                                   THEN Blank ELSE buf[i]]
        /\ start' = (start + n) % PIPE_BUF
        /\ len' = len - n
    BY <1>1, <2>1 DEF ReadBytes
  <2>3. TypeOK'
    <3>1. start' \in Index
      <4>1. \A a \in Nat : a % PIPE_BUF \in Index
        BY PipeAssumption DEF Index
      <4>2. start + n \in Nat
        BY <2>1 DEF IInv, TypeOK, Index
      <4> QED BY Zenon, <2>2, <4>1, <4>2
    <3>2. len' \in 0 .. PIPE_BUF
      BY <2>1, <2>2, PipeAssumption DEF IInv, TypeOK
    <3>3. buf' \in [Index -> Byte \cup {Blank}]
      BY <2>2 DEF IInv, TypeOK
    <3>4. op' \in [Task -> {Idle} \cup Reading \cup Writing \cup Selecting]
      BY <1>1 DEF ReadBytes, Return, IInv, TypeOK
    <3> QED
      BY <1>1, <3>1, <3>2, <3>3, <3>4, Zenon DEF ReadBytes, Return, IInv, TypeOK
  <2>4. CallInv'
    BY <1>1, Calls DEF ReadBytes, IInv, TypeOK, CallInv, Return, WriteOK
  <2>5. NoLostWakeup'
    BY <1>1 DEF ReadBytes, NoLostWakeup
  <2> QED
    BY <2>3, <2>4, <2>5 DEF IInv
<1>2. CASE ReadNothing(t, o, nb)
  <2>1. CASE wr = {} \/ nb \/ t \in sig
    BY <1>2, <2>1, ReturnKeeps DEF ReadNothing, IInv, TypeOK
  <2>2. CASE ~(wr = {} \/ nb \/ t \in sig)
    <3>1. /\ Sleep(t, o) /\ UNCHANGED <<buf, start, len, rd, wr, idle_wait>>
          /\ len = 0 /\ wr # {}
      BY <1>2, <2>2 DEF ReadNothing
    <3>2. op'[t] = o
      BY <3>1 DEF Sleep, IInv, TypeOK
    <3>3. o.call = "read"
      BY Calls
    <3>4. Waits(t)'
      BY <3>1, <3>2, <3>3 DEF Waits
    <3> QED
      BY <3>1, <3>3, <3>4, SleepKeeps
  <2> QED
    BY <2>1, <2>2
<1> QED
  BY <1>1, <1>2 DEF Read

LEMMA SelectStep ==
  ASSUME IInv, NEW t \in Task, NEW o \in Selecting, t \notin asleep, Select(t, o)
  PROVE  IInv'
<1>1. CASE Ready(o.event) \/ t \in sig
  BY <1>1, ReturnKeeps DEF Select, IInv, TypeOK
<1>2. CASE ~(Ready(o.event) \/ t \in sig) /\ o.event = "ex"
  <2>0. o.call = "select"
    BY Calls
  <2>1. /\ op' = [op EXCEPT ![t] = o] /\ idle_wait' = idle_wait \cup {t}
        /\ UNCHANGED <<asleep, sig, buf, start, len, rd, wr>>
    BY <1>2 DEF Select
  <2>2. TypeOK'
    BY <2>1 DEF IInv, TypeOK
  <2>3. CallInv'
    BY <2>0, <2>1 DEF IInv, TypeOK, CallInv, WriteOK
  <2>4. NoLostWakeup'
    BY <2>1, WaitsKept DEF IInv, TypeOK, NoLostWakeup
  <2> QED
    BY <2>2, <2>3, <2>4 DEF IInv
<1>3. CASE ~(Ready(o.event) \/ t \in sig) /\ o.event # "ex"
  <2>1. /\ Sleep(t, o) /\ UNCHANGED <<buf, start, len, rd, wr, idle_wait>>
    BY <1>3 DEF Select
  <2>2. op'[t] = o
    BY <2>1 DEF Sleep, IInv, TypeOK
  <2>3. o.call = "select"
    BY Calls
  <2>4. Waits(t)'
    BY ZenonT(40), <1>3, <2>1, <2>2, <2>3 DEF Waits, Ready
  <2> QED
    BY <2>1, <2>3, <2>4, SleepKeeps
<1> QED
  BY <1>1, <1>2, <1>3

(* A write's record when its call starts. *)
LEMMA WriteStarts ==
  ASSUME NEW n \in Count
  PROVE  LET o == [call |-> "write", size |-> n, written |-> 0,
                   free |-> IF n <= PIPE_BUF THEN n ELSE 1]
         IN o \in Writing /\ WriteOK(o) /\ o.written = 0
BY PipeAssumption DEF Writing, WriteOK

(* What a copy of pipe_write does to the amounts: it moves at least one     *)
(* byte, a call that fits the page all of its bytes, and a call with bytes  *)
(* left has filled the page.                                                *)
LEMMA WriteMoves ==
  ASSUME TypeOK, NEW o \in Writing, WriteOK(o), PIPE_FREE >= o.free
  PROVE  \E n \in Nat :
           /\ n = WriteTotal(o) /\ n > 0 /\ len + n <= PIPE_BUF
           /\ o.written + n <= o.size
           /\ o.size <= PIPE_BUF => n = o.size /\ o.written + n = o.size
           /\ o.written + n # o.size => len + n = PIPE_BUF /\ o.size > PIPE_BUF
<1>1. /\ PIPE_FREE \in Nat /\ PIPE_FREE = PIPE_BUF - len
      /\ WriteTotal(o) = Least(o.size - o.written, PIPE_FREE)
  BY WriteAmount DEF WriteOK
<1>2. PICK z \in Nat, w \in Nat, f \in Nat : z = o.size /\ w = o.written /\ f = o.free /\ z > 0
  <2>1. o.size \in Count /\ o.written \in Nat /\ o.free \in Nat
    BY Calls
  <2>2. o.size \in Nat /\ o.size > 0
    BY <2>1, CountPositive
  <2> QED
    BY <2>1, <2>2
<1>3. len \in Nat /\ len <= PIPE_BUF
  BY PipeAssumption DEF TypeOK
<1>4. w < z /\ IF z <= PIPE_BUF THEN w = 0 /\ f = z ELSE f = 1
  BY <1>2 DEF WriteOK
<1>5. PICK n \in Nat : n = WriteTotal(o) /\ n = Least(z - w, PIPE_BUF - len)
  BY <1>1, <1>2, <1>3, <1>4 DEF Least
<1>6. /\ n > 0 /\ len + n <= PIPE_BUF
      /\ w + n <= z
      /\ z <= PIPE_BUF => n = z /\ w + n = z
      /\ w + n # z => len + n = PIPE_BUF /\ z > PIPE_BUF
  BY <1>1, <1>2, <1>3, <1>4, <1>5, PipeAssumption DEF Least
<1> QED
  BY <1>2, <1>5, <1>6

LEMMA WriteTyped ==
  ASSUME TypeOK, NEW t \in Task, NEW o \in Writing, o.written < o.size
  PROVE  WriteBuf(t, o) \in [Index -> Byte \cup {Blank}]
<1>1. \A b \in [Index -> Byte \cup {Blank}], e \in Index, c \in Nat, from \in Nat :
        Filled(b, t, o, e, c, from) \in [Index -> Byte \cup {Blank}]
  <2> SUFFICES ASSUME NEW b \in [Index -> Byte \cup {Blank}], NEW e \in Index,
                      NEW c \in Nat, NEW from \in Nat, NEW i \in Index
               PROVE  Filled(b, t, o, e, c, from)[i] \in Byte \cup {Blank}
    BY DEF Filled
  <2>1. CASE e <= i /\ i < e + c
    <3>1. from + (i - e) \in Nat
      BY <2>1, PipeAssumption DEF Index
    <3>2. o.size \in Count
      BY Calls
    <3> QED
      BY <2>1, <3>1, <3>2 DEF Filled, Byte
  <2>2. CASE ~(e <= i /\ i < e + c)
    BY <2>2 DEF Filled
  <2> QED
    BY <2>1, <2>2
<1>2. /\ PIPE_END \in Index
      /\ WriteFirst(o) \in Nat /\ WriteSecond(o) \in Nat
      /\ o.written \in Nat /\ o.written + WriteFirst(o) \in Nat
  BY WriteAmount, Calls
<1>3. (PIPE_END + WriteFirst(o)) % PIPE_BUF \in Index
  BY <1>2, PipeAssumption DEF Index
<1> QED
  BY ZenonT(40), <1>1, <1>2, <1>3 DEF WriteBuf, TypeOK

LEMMA WriteStep ==
  ASSUME IInv, NEW t \in Task, NEW o \in Writing, NEW nb \in BOOLEAN, Write(t, o, nb),
         WriteOK(o), t \in wr
  PROVE  IInv'
<1>1. CASE WriteBlocked(t, o, nb)
  <2>1. CASE WriteStops(t, nb)
    BY <1>1, <2>1, ReturnKeeps DEF WriteBlocked, IInv, TypeOK
  <2>2. CASE ~WriteStops(t, nb)
    <3>1. /\ Sleep(t, o) /\ UNCHANGED <<buf, start, len, rd, wr, idle_wait>>
          /\ PIPE_FREE < o.free /\ rd # {}
      BY <1>1, <2>2 DEF WriteBlocked, WriteStops
    <3>2. op'[t] = o
      BY <3>1 DEF Sleep, IInv, TypeOK
    <3>3. o.call = "write"
      BY Calls
    <3>4. Waits(t)'
      BY <3>1, <3>2, <3>3 DEF Waits, PIPE_FREE
    <3> QED
      BY <3>1, <3>3, <3>4, SleepKeeps
  <2> QED
    BY <2>1, <2>2
<1>2. CASE WriteBytes(t, o, nb)
  <2>1. PICK n \in Nat :
          /\ n = WriteTotal(o) /\ n > 0 /\ len + n <= PIPE_BUF
          /\ o.written + n <= o.size
          /\ o.size <= PIPE_BUF => n = o.size /\ o.written + n = o.size
          /\ o.written + n # o.size => len + n = PIPE_BUF /\ o.size > PIPE_BUF
    BY <1>2, WriteMoves DEF WriteBytes, IInv
  <2>2. PICK o1 : o1 = [call |-> "write", size |-> o.size, written |-> o.written + n, free |-> 1]
    BY ZenonT(40)
  <2>3. /\ o1 \in Writing /\ o1.call = "write" /\ o1.size = o.size
        /\ o1.written = o.written + n /\ o1.free = 1
    BY <2>2, GoOn
  <2>4. /\ len' = len + n /\ UNCHANGED <<start, rd, wr, idle_wait>>
        /\ buf' = WriteBuf(t, o)
        /\ IF o.written + n = o.size \/ WriteStops(t, nb)
           THEN Return(t) /\ asleep' = {}
           ELSE /\ op' = [op EXCEPT ![t] = o1]
                /\ asleep' = {t}
                /\ UNCHANGED sig
    BY <1>2, <2>1, <2>2 DEF WriteBytes
  <2>5. len' \in 0 .. PIPE_BUF
    BY <2>1, <2>4, PipeAssumption DEF IInv, TypeOK
  <2>6. buf' \in [Index -> Byte \cup {Blank}]
    BY <2>4, WriteTyped DEF IInv, WriteOK
  <2>7. CASE o.written + n = o.size \/ WriteStops(t, nb)
    <3>1. Return(t) /\ asleep' = {}
      BY <2>4, <2>7
    <3>2. TypeOK'
      BY <2>4, <2>5, <2>6, <3>1 DEF Return, IInv, TypeOK
    <3>3. CallInv'
      BY <2>4, <3>1, Calls DEF IInv, TypeOK, CallInv, Return, WriteOK
    <3> QED
      BY <3>1, <3>2, <3>3 DEF IInv, NoLostWakeup
  <2>8. CASE ~(o.written + n = o.size \/ WriteStops(t, nb))
    <3>1. op' = [op EXCEPT ![t] = o1] /\ asleep' = {t} /\ UNCHANGED sig
      BY <2>4, <2>8
    <3>2. op'[t] = o1 /\ rd' # {} /\ len' = PIPE_BUF
      BY <2>1, <2>4, <2>8, <3>1 DEF IInv, TypeOK, WriteStops
    <3>3. TypeOK'
      BY <2>3, <2>4, <2>5, <2>6, <3>1 DEF IInv, TypeOK
    <3>4. WriteOK(o1)
      <4>1. o.size \in Nat /\ o.written \in Nat
        BY ZenonT(40), Calls, PipeAssumption
      <4>2. o.written + n < o.size
        <5>1. \A w, size \in Nat : w + n <= size /\ w + n # size => w + n < size
          BY <2>1
        <5> QED BY Zenon, <2>1, <2>8, <4>1, <5>1
      <4>3. ~(o.size <= PIPE_BUF)
        BY Zenon, <2>1, <2>8
      <4> QED
        BY Zenon, <2>3, <4>2, <4>3 DEF WriteOK
    <3>5. CallInv'
      BY <2>4, <3>1, <3>4 DEF IInv, TypeOK, CallInv, WriteOK
    <3>6. Waits(t)'
      BY <2>3, <3>2, PipeAssumption DEF Waits, PIPE_FREE
    <3> QED
      BY <3>1, <3>3, <3>5, <3>6 DEF IInv, NoLostWakeup
  <2> QED
    BY <2>7, <2>8
<1> QED
  BY <1>1, <1>2 DEF Write

-------------------------------------------------------------------------------
LEMMA InitIInv ==
  ASSUME Init
  PROVE  IInv
<1>1. TypeOK
  BY PipeAssumption DEF Init, TypeOK, Index
<1>2. CallInv
  BY Calls DEF Init, CallInv
<1> QED
  BY <1>1, <1>2 DEF Init, IInv, NoLostWakeup

(* A task between calls is awake. *)
LEMMA IdleAwake ==
  ASSUME IInv, NEW t \in Task, op[t] = Idle
  PROVE  t \notin asleep
BY Calls DEF IInv, NoLostWakeup, Waits

(* What a call step of t is: one of the three calls with its record, t      *)
(* awake, a write still holding the write end.                              *)
LEMMA CallStep ==
  ASSUME IInv, NEW t \in Task, CallRead(t) \/ CallWrite(t) \/ CallSelect(t) \/ Resume(t)
  PROVE  \/ \E o \in Reading, nb \in BOOLEAN :
              Read(t, o, nb) /\ (op[t] = Idle \/ op[t] = o)
         \/ \E o \in Writing, nb \in BOOLEAN :
              /\ Write(t, o, nb) /\ WriteOK(o) /\ t \in wr
              /\ (op[t] = Idle /\ o.written = 0) \/ op[t] = o
         \/ \E o \in Selecting :
              Select(t, o) /\ t \notin asleep /\ (op[t] = Idle \/ op[t] = o)
<1>1. CASE CallRead(t)
  <2>1. PICK n \in Count, nb \in BOOLEAN : Read(t, [call |-> "read", count |-> n], nb)
    BY <1>1 DEF CallRead
  <2>2. [call |-> "read", count |-> n] \in Reading
    BY DEF Reading
  <2> QED
    BY <1>1, <2>1, <2>2 DEF CallRead
<1>2. CASE CallWrite(t)
  <2>1. PICK n \in Count, nb \in BOOLEAN :
          Write(t, [call |-> "write", size |-> n, written |-> 0,
                    free |-> IF n <= PIPE_BUF THEN n ELSE 1], nb)
    BY <1>2 DEF CallWrite
  <2>2. PICK o : o = [call |-> "write", size |-> n, written |-> 0,
                      free |-> IF n <= PIPE_BUF THEN n ELSE 1]
    BY ZenonT(40)
  <2>3. o \in Writing /\ WriteOK(o) /\ o.written = 0
    BY <2>2, WriteStarts
  <2>4. Write(t, o, nb) /\ op[t] = Idle /\ t \in wr
    BY <1>2, <2>1, <2>2 DEF CallWrite
  <2> QED
    BY <2>3, <2>4
<1>3. CASE CallSelect(t)
  <2>1. PICK e \in {"in", "out", "ex"} : Select(t, [call |-> "select", event |-> e])
    BY <1>3 DEF CallSelect
  <2>2. [call |-> "select", event |-> e] \in Selecting
    BY DEF Selecting
  <2>3. op[t] = Idle /\ t \notin asleep
    BY <1>3, IdleAwake DEF CallSelect
  <2> QED
    BY <2>1, <2>2, <2>3
<1>4. CASE Resume(t)
  <2>1. CASE op[t].call = "read" /\ Read(t, op[t], FALSE)
    BY ZenonT(40), <2>1, CallKinds DEF IInv
  <2>2. CASE op[t].call = "write" /\ Write(t, op[t], FALSE)
    <3>1. op[t] \in Writing /\ WriteOK(op[t]) /\ t \in wr
      BY <2>2, CallKinds DEF IInv, CallInv
    <3> QED
      BY ZenonT(40), <2>2, <3>1
  <2>3. CASE op[t].call = "select" /\ Select(t, op[t])
    BY <1>4, <2>3, CallKinds DEF IInv, Resume
  <2> QED
    BY ZenonT(40), <1>4, <2>1, <2>2, <2>3 DEF Resume
<1> QED
  BY <1>1, <1>2, <1>3, <1>4

LEMMA CloseReadStep ==
  ASSUME IInv, NEW t \in Task, CloseRead(t)
  PROVE  IInv'
<1>1. TypeOK'
  BY DEF CloseRead, IInv, TypeOK
<1>2. CallInv'
  BY DEF CloseRead, IInv, TypeOK, CallInv, WriteOK
<1>3. NoLostWakeup'
  <2> SUFFICES ASSUME NEW s \in asleep' PROVE Waits(s)'
    BY DEF NoLostWakeup
  <2>1. s \in asleep /\ Waits(s) /\ rd # {t}
    BY DEF CloseRead, IInv, NoLostWakeup
  <2>2. rd' # {}
    BY <2>1 DEF CloseRead
  <2>3. UNCHANGED <<op, len, wr>>
    BY DEF CloseRead
  <2>4. CASE op[s].call = "select"
    <3>1. op[s].event \in {"in", "out", "ex"}
      BY <2>1, <2>4, CallKinds, Calls DEF IInv, TypeOK
    <3> QED
      BY ZenonT(40), <2>1, <2>2, <2>3, <2>4, <3>1 DEF Waits, Ready
  <2>5. CASE op[s].call # "select"
    BY <2>1, <2>2, <2>3, <2>5 DEF Waits, PIPE_FREE
  <2> QED
    BY <2>4, <2>5
<1> QED
  BY <1>1, <1>2, <1>3 DEF IInv

LEMMA CloseWriteStep ==
  ASSUME IInv, NEW t \in Task, CloseWrite(t)
  PROVE  IInv'
<1>1. TypeOK'
  BY DEF CloseWrite, IInv, TypeOK
<1>2. CallInv'
  <2> SUFFICES ASSUME NEW s \in Task, op[s].call = "write" PROVE s \in wr' /\ WriteOK(op[s])
    BY DEF CloseWrite, CallInv, WriteOK
  <2> QED
    BY Calls DEF CloseWrite, IInv, TypeOK, CallInv
<1>3. NoLostWakeup'
  <2> SUFFICES ASSUME NEW s \in asleep' PROVE Waits(s)'
    BY DEF NoLostWakeup
  <2>1. s \in asleep /\ Waits(s) /\ wr # {t}
    BY DEF CloseWrite, IInv, NoLostWakeup
  <2>2. wr' # {}
    BY <2>1 DEF CloseWrite
  <2>3. UNCHANGED <<op, len, rd>>
    BY DEF CloseWrite
  <2>4. CASE op[s].call = "select"
    <3>1. op[s].event \in {"in", "out", "ex"}
      BY <2>1, <2>4, CallKinds, Calls DEF IInv, TypeOK
    <3> QED
      BY ZenonT(40), <2>1, <2>2, <2>3, <2>4, <3>1 DEF Waits, Ready
  <2>5. CASE op[s].call # "select"
    BY <2>1, <2>2, <2>3, <2>5 DEF Waits, PIPE_FREE
  <2> QED
    BY <2>4, <2>5
<1> QED
  BY <1>1, <1>2, <1>3 DEF IInv

LEMMA SignalStep ==
  ASSUME IInv, NEW t \in Task, Signal(t)
  PROVE  IInv'
<1>1. TypeOK'
  BY DEF Signal, IInv, TypeOK
<1>2. CallInv'
  BY DEF Signal, IInv, CallInv, WriteOK
<1>3. NoLostWakeup'
  BY WaitsKept DEF Signal, IInv, TypeOK, NoLostWakeup
<1> QED
  BY <1>1, <1>2, <1>3 DEF IInv

LEMMA NextIInv ==
  ASSUME IInv, [Next]_vars
  PROVE  IInv'
<1>1. CASE UNCHANGED vars
  BY ZenonT(40), <1>1 DEF vars, IInv, TypeOK, CallInv, WriteOK, NoLostWakeup, Waits, Ready, PIPE_FREE
<1>2. ASSUME NEW t \in Task, CallRead(t) \/ CallWrite(t) \/ CallSelect(t) \/ Resume(t)
      PROVE  IInv'
  BY <1>2, CallStep, ReadStep, WriteStep, SelectStep
<1>3. ASSUME NEW t \in Task, CloseRead(t) \/ CloseWrite(t) \/ Signal(t)
      PROVE  IInv'
  BY <1>3, CloseReadStep, CloseWriteStep, SignalStep
<1> QED
  BY <1>1, <1>2, <1>3 DEF Next

LEMMA Inductive == Spec => []IInv
BY InitIInv, NextIInv, PTL DEF Spec

(* No sleeper of the pipe's wait queue is left behind by the copies, the    *)
(* releases and the signals of other tasks (PIPE_WAIT of fs/pipe.c), for    *)
(* every set of tasks and every ring size.                                  *)
THEOREM WakeupsKept == Spec => []NoLostWakeup
<1>1. IInv => NoLostWakeup
  BY DEF IInv
<1> QED
  BY <1>1, Inductive, PTL

-------------------------------------------------------------------------------
(* The refinement. A place of the queue is a cell of the ring, and two      *)
(* places never share a cell.                                               *)
LEMMA Cells ==
  ASSUME NEW s \in Index, NEW j \in Nat, NEW k \in Nat, j < PIPE_BUF, k < PIPE_BUF
  PROVE  /\ (s + j) % PIPE_BUF \in Index
         /\ (s + j) % PIPE_BUF = (s + k) % PIPE_BUF => j = k
BY ModWrap, PipeAssumption DEF Wrap, Index

LEMMA CellShift ==
  ASSUME NEW s \in Index, NEW n \in Nat, NEW k \in Nat, n + k < PIPE_BUF
  PROVE  (((s + n) % PIPE_BUF) + k) % PIPE_BUF = (s + (n + k)) % PIPE_BUF
<1>1. (s + n) % PIPE_BUF = Wrap(s + n) /\ (s + (n + k)) % PIPE_BUF = Wrap(s + (n + k))
  BY ModWrap, PipeAssumption DEF Index
<1>2. Wrap(s + n) \in Nat /\ Wrap(s + n) < PIPE_BUF
  BY PipeAssumption DEF Wrap, Index
<1>3. (Wrap(s + n) + k) % PIPE_BUF = Wrap(Wrap(s + n) + k)
  BY <1>2, ModWrap, PipeAssumption
<1> QED
  BY <1>1, <1>3, PipeAssumption DEF Wrap, Index

(* pipe_read takes the front of the queue: the cells that stay keep their   *)
(* bytes and move n places up.                                              *)
LEMMA ReadGets ==
  ASSUME IInv, NEW t \in Task, NEW o \in Reading, ReadBytes(t, o), op[t] = Idle \/ op[t] = o
  PROVE  \E n \in 1 .. PIPE_BUF : Queue!Get(n)
<1>1. PICK n \in Nat : n = ReadTotal(o.count) /\ n <= len /\ n > 0
  <2>1. o.count \in Nat /\ o.count > 0
    BY Calls, CountPositive
  <2>2. len \in Nat /\ len > 0
    BY PipeAssumption DEF IInv, TypeOK, ReadBytes
  <2>3. ReadTotal(o.count) = Least(o.count, len)
    BY <2>1, ReadAmount DEF IInv
  <2> QED
    BY <2>1, <2>2, <2>3 DEF Least
<1>2. /\ buf' = [i \in Index |-> IF \E k \in 0 .. n - 1 : i = (start + k) % PIPE_BUF
                                 THEN Blank ELSE buf[i]]
      /\ start' = (start + n) % PIPE_BUF
      /\ len' = len - n
      /\ Return(t) /\ wr' = wr
  BY <1>1 DEF ReadBytes
<1>3. /\ len \in Nat /\ len <= PIPE_BUF /\ start \in Index
      /\ op \in [Task -> {Idle} \cup Reading \cup Writing \cup Selecting]
  BY PipeAssumption DEF IInv, TypeOK
<1>4. ASSUME NEW k \in Nat, k < len - n
      PROVE  At(k)' = At(n + k)
  <2>0. n + k \in Nat /\ n + k < PIPE_BUF
    BY <1>1, <1>3, <1>4, PipeAssumption
  <2>1. (start' + k) % PIPE_BUF = (start + (n + k)) % PIPE_BUF
    BY <1>2, <1>3, <2>0, CellShift
  <2>2. (start + (n + k)) % PIPE_BUF \in Index
    BY <1>3, <2>0, Cells
  <2>3. ~ \E j \in 0 .. n - 1 : (start + (n + k)) % PIPE_BUF = (start + j) % PIPE_BUF
    <3> SUFFICES ASSUME NEW j \in 0 .. n - 1,
                        (start + (n + k)) % PIPE_BUF = (start + j) % PIPE_BUF
                 PROVE  FALSE
      OBVIOUS
    <3> QED
      BY <1>1, <1>3, <1>4, Cells, PipeAssumption
  <2> QED
    BY <1>2, <2>1, <2>2, <2>3 DEF At
<1>5. Len(Contents) = len /\ \A i \in 1 .. len : Contents[i] = At(i - 1)
  BY <1>3 DEF Contents
<1>6. Contents' = [i \in 1 .. Len(Contents) - n |-> Contents[i + n]]
  <2>1. Contents' = [i \in 1 .. len - n |-> At(i - 1)']
    BY <1>2 DEF Contents
  <2>2. ASSUME NEW i \in 1 .. len - n
        PROVE  At(i - 1)' = Contents[i + n]
    <3>1. i - 1 \in Nat /\ i - 1 < len - n /\ i + n \in 1 .. len /\ i + n - 1 = n + (i - 1)
      BY <1>1, <1>3
    <3> QED
      BY <1>4, <1>5, <3>1
  <2> QED
    BY <1>5, <2>1, <2>2
<1>7. Sent' = Sent
  <2>1. op'[t].call # "write" /\ op[t].call # "write"
    BY <1>2, <1>3, Calls DEF Return
  <2>2. \A s \in Task : s # t => op'[s] = op[s]
    BY <1>2, <1>3 DEF Return
  <2> QED
    BY <2>1, <2>2 DEF Sent
<1>8. Queue!Get(n)
  BY <1>1, <1>2, <1>5, <1>6, <1>7 DEF Queue!Get
<1> QED
  BY <1>1, <1>3, <1>8, PipeAssumption

(* Where the two chunks of a write land: behind the last byte, in the       *)
(* order of the call's data, and on no byte that is still to be read.       *)
LEMMA WriteCell ==
  ASSUME TypeOK, NEW t \in Task, NEW o \in Writing, o.written < o.size,
         NEW k \in Nat, k < len + WriteTotal(o)
  PROVE  WriteBuf(t, o)[(start + k) % PIPE_BUF] =
           IF k < len THEN At(k)
           ELSE [by |-> t, size |-> o.size, at |-> o.written + (k - len)]
<1> DEFINE e == PIPE_END
           c1 == WriteFirst(o)
           c2 == WriteSecond(o)
           e2 == (e + c1) % PIPE_BUF
           i == (start + k) % PIPE_BUF
<1>1. /\ e \in Index /\ c1 \in Nat /\ c2 \in Nat
      /\ PIPE_FREE = PIPE_BUF - len /\ PIPE_FREE \in Nat
      /\ c1 = Least(PIPE_BUF - e, Least(o.size - o.written, PIPE_BUF - len))
      /\ WriteTotal(o) = c1 + c2
      /\ c1 + c2 = Least(o.size - o.written, PIPE_BUF - len)
  BY WriteAmount
<1>2. start \in Index /\ len \in Nat /\ len <= PIPE_BUF
  BY PipeAssumption DEF TypeOK
<1>3. PICK r \in Nat : r = o.size - o.written
  <2>1. o.size \in Nat /\ o.written \in Nat
    BY Calls, CountPositive
  <2> QED
    BY <2>1
<1>4. e = Wrap(start + len)
  BY <1>2, ModWrap, PipeAssumption DEF PIPE_END, Index
<1>5. e2 = Wrap(e + c1) /\ e2 \in Index
  <2>1. e + c1 \in Nat /\ e + c1 <= PIPE_BUF
    BY <1>1, <1>2, <1>3, PipeAssumption DEF Least, Index
  <2>2. (e + c1) % PIPE_BUF = Wrap(e + c1)
    BY <2>1, ModWrap, PipeAssumption
  <2> QED
    BY <2>1, <2>2, PipeAssumption DEF Wrap, Index
<1>6. k < PIPE_BUF
  BY <1>1, <1>2, <1>3, PipeAssumption DEF Least
<1>7. i = Wrap(start + k) /\ i \in Index
  BY <1>2, <1>6, ModWrap, PipeAssumption DEF Wrap, Index
<1>8. WriteBuf(t, o)[i] =
        IF e2 <= i /\ i < e2 + c2
        THEN [by |-> t, size |-> o.size, at |-> (o.written + c1) + (i - e2)]
        ELSE IF e <= i /\ i < e + c1
             THEN [by |-> t, size |-> o.size, at |-> o.written + (i - e)]
             ELSE buf[i]
  BY <1>7 DEF WriteBuf, Filled
<1>9. At(k) = buf[i]
  BY DEF At
<1>10. o.written \in Nat
  BY Calls
<1>11. /\ e \in Nat /\ e2 \in Nat /\ i \in Nat
       /\ c1 = Least(PIPE_BUF - e, Least(r, PIPE_BUF - len))
       /\ c1 + c2 = Least(r, PIPE_BUF - len)
       /\ k < len + c1 + c2
  <2> HIDE DEF e, c1, c2, e2, i
  <2>1. \A x \in Index : x \in Nat
    BY DEF Index
  <2>2. k < len + (c1 + c2)
    BY Zenon, <1>1
  <2>3. c1 \in Nat /\ c2 \in Nat
    BY Zenon, <1>1
  <2>4. k < len + c1 + c2
    BY <1>2, <2>2, <2>3
  <2> QED BY Zenon, <1>1, <1>3, <1>5, <1>7, <2>1, <2>4
<1> HIDE DEF e, c1, c2, e2, i
<1>12. /\ k < len => ~(e <= i /\ i < e + c1) /\ ~(e2 <= i /\ i < e2 + c2)
       /\ len <= k /\ k < len + c1 =>
            e <= i /\ i < e + c1 /\ i - e = k - len /\ ~(e2 <= i /\ i < e2 + c2)
       /\ len + c1 <= k => e2 <= i /\ i < e2 + c2 /\ c1 + (i - e2) = k - len
  <2>1. c2 = 0 \/ (e + c1 = PIPE_BUF /\ e2 = 0)
    <3>1. \A x, m, f, s \in Int :
            f = Least(PIPE_BUF - x, m) /\ f + s = m => s = 0 \/ x + f = PIPE_BUF
      BY PipeAssumption DEF Least
    <3>2. e \in Int /\ c1 \in Int /\ c2 \in Int /\ Least(r, PIPE_BUF - len) \in Int
      BY <1>1, <1>2, <1>11, PipeAssumption DEF Least
    <3>3. c2 = 0 \/ e + c1 = PIPE_BUF
      BY Zenon, <1>11, <3>1, <3>2
    <3>4. e + c1 = PIPE_BUF => e2 = 0
      BY <1>5, PipeAssumption DEF Wrap
    <3> QED BY Zenon, <3>3, <3>4
  <2>0. \A x, y \in Int : Least(x, y) <= x /\ Least(x, y) <= y
    BY DEF Least
  <2>2. c1 + c2 <= PIPE_BUF - len
    <3>1. r \in Int /\ PIPE_BUF - len \in Int
      BY <1>2, PipeAssumption
    <3> QED BY Zenon, <1>11, <2>0, <3>1
  <2>3. e + c1 <= PIPE_BUF
    <3>1. PIPE_BUF - e \in Int /\ Least(r, PIPE_BUF - len) \in Int
      BY <1>2, <1>11, PipeAssumption DEF Least
    <3>2. c1 <= PIPE_BUF - e
      BY Zenon, <1>11, <2>0, <3>1
    <3>3. c1 \in Nat /\ e \in Nat
      BY Zenon, <1>1, <1>11
    <3> QED BY <3>2, <3>3, PipeAssumption
  <2> QED
    <3>1. /\ start \in Nat /\ start < PIPE_BUF /\ PIPE_BUF \in Nat
          /\ len \in Nat /\ len <= PIPE_BUF /\ c1 \in Nat /\ c2 \in Nat
          /\ e \in Nat /\ e2 \in Nat /\ i \in Nat /\ k < len + c1 + c2
      <4>1. start \in Nat /\ start < PIPE_BUF /\ PIPE_BUF \in Nat
        BY <1>2, PipeAssumption DEF Index
      <4> QED BY Zenon, <1>1, <1>2, <1>11, <4>1
    <3>2. e = Wrap(start + len) /\ i = Wrap(start + k)
      BY Zenon, <1>4, <1>7
    <3>3. ASSUME k < len PROVE ~(e <= i /\ i < e + c1) /\ ~(e2 <= i /\ i < e2 + c2)
      BY <2>1, <2>2, <2>3, <3>1, <3>2, <3>3 DEF Wrap
    <3>4. ASSUME len <= k, k < len + c1
          PROVE  e <= i /\ i < e + c1 /\ i - e = k - len /\ ~(e2 <= i /\ i < e2 + c2)
      BY <2>1, <2>2, <2>3, <3>1, <3>2, <3>4 DEF Wrap
    <3>5. ASSUME len + c1 <= k
          PROVE  e2 <= i /\ i < e2 + c2 /\ c1 + (i - e2) = k - len
      BY <2>1, <2>2, <2>3, <3>1, <3>2, <3>5 DEF Wrap
    <3> QED BY Zenon, <3>3, <3>4, <3>5
<1>13. CASE k < len
  BY <1>8, <1>9, <1>12, <1>13 DEF i
<1>14. CASE len <= k /\ k < len + c1
  BY <1>2, <1>8, <1>12, <1>14 DEF i
<1>15. CASE len + c1 <= k
  <2>1. (o.written + c1) + (i - e2) = o.written + (k - len)
    BY <1>1, <1>2, <1>10, <1>11, <1>12, <1>15
  <2>2. ~(k < len)
    BY <1>1, <1>2, <1>15
  <2> QED
    BY <1>8, <1>12, <1>15, <2>1, <2>2 DEF i
<1>16. k < len \/ (len <= k /\ k < len + c1) \/ len + c1 <= k
  <2>1. c1 \in Nat
    BY Zenon, <1>1
  <2> QED BY <1>2, <2>1
<1> QED BY Zenon, <1>13, <1>14, <1>15, <1>16

(* pipe_write appends to the queue: in one piece when the call fits the     *)
(* ring, otherwise as the next piece of its data.                           *)
LEMMA WritePuts ==
  ASSUME IInv, NEW t \in Task, NEW o \in Writing, NEW nb \in BOOLEAN,
         WriteBytes(t, o, nb), WriteOK(o), t \in wr,
         (op[t] = Idle /\ o.written = 0) \/ op[t] = o
  PROVE  \E n \in 1 .. PIPE_BUF : Queue!Put(t, o.size, n)
<1>1. PICK n \in Nat :
        /\ n = WriteTotal(o) /\ n > 0 /\ len + n <= PIPE_BUF
        /\ o.written + n <= o.size
        /\ o.size <= PIPE_BUF => n = o.size /\ o.written + n = o.size
        /\ o.written + n # o.size => len + n = PIPE_BUF /\ o.size > PIPE_BUF
  BY WriteMoves DEF WriteBytes, IInv
<1>2. PICK o1 : o1 = [call |-> "write", size |-> o.size, written |-> o.written + n, free |-> 1]
  BY ZenonT(40)
<1>3. o1.call = "write" /\ o1.written = o.written + n
  BY <1>2
<1>4. /\ len' = len + n /\ UNCHANGED <<start, wr>>
      /\ buf' = WriteBuf(t, o)
      /\ IF o.written + n = o.size \/ WriteStops(t, nb)
         THEN Return(t)
         ELSE op' = [op EXCEPT ![t] = o1]
  BY <1>1, <1>2 DEF WriteBytes
<1>5. /\ len \in Nat /\ len <= PIPE_BUF
      /\ op \in [Task -> {Idle} \cup Reading \cup Writing \cup Selecting]
  BY PipeAssumption DEF IInv, TypeOK
<1>6. /\ o.call = "write" /\ o.size \in Nat /\ o.size > 0 /\ o.written \in Nat
      /\ Idle.call = "idle"
  BY Calls, CountPositive
<1>7. Sent \in [Task -> Nat] /\ Sent[t] = o.written
  <2>1. Sent[t] = o.written
    BY <1>6 DEF Sent
  <2>2. \A s \in Task : Sent[s] \in Nat
    BY CallKinds, Calls DEF IInv, Sent
  <2> QED
    BY <2>1, <2>2 DEF Sent
<1>8. Len(Contents) = len /\ \A i \in 1 .. len : Contents[i] = At(i - 1)
  BY <1>5 DEF Contents
<1>9. ASSUME NEW k \in Nat, k < len + n
      PROVE  At(k)' = IF k < len THEN At(k)
                      ELSE [by |-> t, size |-> o.size, at |-> o.written + (k - len)]
  <2>1. TypeOK /\ o.written < o.size
    BY Zenon DEF IInv, WriteOK
  <2>2. k < len + WriteTotal(o)
    BY Zenon, <1>1, <1>9
  <2>3. WriteBuf(t, o)[(start + k) % PIPE_BUF] =
          IF k < len THEN At(k)
          ELSE [by |-> t, size |-> o.size, at |-> o.written + (k - len)]
    BY Zenon, <2>1, <2>2, WriteCell
  <2> QED BY Zenon, <1>4, <2>3 DEF At
<1>10. Contents' = [i \in 1 .. Len(Contents) + n |->
                      IF i <= Len(Contents) THEN Contents[i]
                      ELSE [by |-> t, size |-> o.size,
                            at |-> Sent[t] + (i - Len(Contents)) - 1]]
  <2>1. Contents' = [i \in 1 .. len + n |-> At(i - 1)']
    BY <1>4 DEF Contents
  <2>2. ASSUME NEW i \in 1 .. len + n
        PROVE  At(i - 1)' = IF i <= len THEN Contents[i]
                            ELSE [by |-> t, size |-> o.size, at |-> Sent[t] + (i - len) - 1]
    <3>1. i - 1 \in Nat /\ i - 1 < len + n
      BY <1>1, <1>5
    <3>2. At(i - 1)' = IF i - 1 < len THEN At(i - 1)
                       ELSE [by |-> t, size |-> o.size, at |-> o.written + (i - 1 - len)]
      BY <1>9, <3>1
    <3>3. CASE i <= len
      <4>1. i - 1 < len /\ i \in 1 .. len
        BY <1>5, <3>3
      <4> QED
        BY <1>8, <3>2, <3>3, <4>1
    <3>4. CASE ~(i <= len)
      <4>1. ~(i - 1 < len) /\ o.written + (i - 1 - len) = Sent[t] + (i - len) - 1
        BY <1>5, <1>6, <1>7, <3>4
      <4> QED
        BY <3>2, <3>4, <4>1
    <3> QED
      BY <3>3, <3>4
  <2> QED
    BY <1>8, <2>1, <2>2
<1>11. \/ Sent' = [Sent EXCEPT ![t] = 0]
       \/ Sent[t] + n < o.size /\ Sent' = [Sent EXCEPT ![t] = Sent[t] + n]
  <2>1. CASE o.written + n = o.size \/ WriteStops(t, nb)
    <3>1. op'[t] = Idle /\ \A s \in Task : s # t => op'[s] = op[s]
      BY <1>4, <1>5, <2>1 DEF Return
    <3>2. Sent' = [Sent EXCEPT ![t] = 0]
      BY ZenonT(40), <1>6, <3>1 DEF Sent
    <3> QED
      BY <3>2
  <2>2. CASE ~(o.written + n = o.size \/ WriteStops(t, nb))
    <3>1. op'[t] = o1 /\ \A s \in Task : s # t => op'[s] = op[s]
      BY <1>4, <1>5, <2>2
    <3>2. Sent' = [Sent EXCEPT ![t] = o.written + n]
      BY ZenonT(40), <1>3, <3>1 DEF Sent
    <3>3. Sent[t] + n < o.size
      <4>1. \A w, size \in Nat : w + n <= size /\ w + n # size => w + n < size
        BY <1>1
      <4> QED BY Zenon, <1>1, <1>6, <1>7, <2>2, <4>1
    <3> QED
      BY <1>7, <3>2, <3>3
  <2> QED
    BY <2>1, <2>2
<1>12. Queue!Put(t, o.size, n)
  BY <1>1, <1>4, <1>6, <1>7, <1>8, <1>10, <1>11 DEF Queue!Put
<1> QED
  BY <1>1, <1>5, <1>12, PipeAssumption

(* Steps that leave the ring and the write end alone: the queue does not    *)
(* move, and a write cut short after a part of its bytes is a Stop.         *)
LEMMA ContentsKept ==
  ASSUME UNCHANGED <<buf, start, len>>
  PROVE  UNCHANGED Contents
BY DEF Contents, At

LEMMA SentKept ==
  ASSUME TypeOK, NEW t \in Task, NEW p, op' = [op EXCEPT ![t] = p],
         Sent[t] = (IF p.call = "write" THEN p.written ELSE 0)
  PROVE  UNCHANGED Sent
<1>1. op'[t] = p /\ \A s \in Task : s # t => op'[s] = op[s]
  BY SMTT(20) DEF TypeOK
<1> QED
  BY <1>1 DEF Sent

LEMMA CallRefines ==
  ASSUME IInv, NEW t \in Task, CallRead(t) \/ CallWrite(t) \/ CallSelect(t) \/ Resume(t)
  PROVE  Queue!Next \/ UNCHANGED <<Contents, Sent, wr>>
<1>0. Idle.call = "idle"
  BY Calls
<1>1. ASSUME NEW o \in Reading, NEW nb \in BOOLEAN, Read(t, o, nb), op[t] = Idle \/ op[t] = o
      PROVE  Queue!Next \/ UNCHANGED <<Contents, Sent, wr>>
  <2>1. CASE ReadBytes(t, o)
    BY <1>1, <2>1, ReadGets DEF Queue!Next
  <2>2. CASE ReadNothing(t, o, nb)
    <3>1. o.call = "read" /\ Sent[t] = 0
      BY <1>0, <1>1, Calls DEF Sent
    <3>2. op' = [op EXCEPT ![t] = Idle] \/ op' = [op EXCEPT ![t] = o]
      BY <2>2 DEF ReadNothing, Return, Sleep
    <3>3. UNCHANGED Sent
      BY SMTT(20), <1>0, <3>1, <3>2, SentKept DEF IInv
    <3> QED
      BY <2>2, <3>3, ContentsKept DEF ReadNothing
  <2> QED
    BY <1>1, <2>1, <2>2 DEF Read
<1>2. ASSUME NEW o \in Writing, NEW nb \in BOOLEAN, Write(t, o, nb), WriteOK(o), t \in wr,
             (op[t] = Idle /\ o.written = 0) \/ op[t] = o
      PROVE  Queue!Next \/ UNCHANGED <<Contents, Sent, wr>>
  <2>1. CASE WriteBytes(t, o, nb)
    <3>1. PICK n \in 1 .. PIPE_BUF : Queue!Put(t, o.size, n)
      BY <1>2, <2>1, WritePuts
    <3>2. o.size \in Count
      BY Calls
    <3> QED
      BY <3>1, <3>2 DEF Queue!Next
  <2>2. CASE WriteBlocked(t, o, nb)
    <3>1. o.call = "write" /\ o.written \in Nat /\ Sent[t] = o.written
      BY <1>0, <1>2, Calls DEF Sent
    <3>2. UNCHANGED <<Contents, wr>>
      BY <2>2, ContentsKept DEF WriteBlocked
    <3>3. CASE op' = [op EXCEPT ![t] = o]
      BY ZenonT(40), <3>1, <3>2, <3>3, SentKept DEF IInv
    <3>4. CASE op' = [op EXCEPT ![t] = Idle]
      <4>1. op'[t] = Idle /\ \A s \in Task : s # t => op'[s] = op[s]
        BY <3>4 DEF IInv, TypeOK
      <4>2. Sent' = [Sent EXCEPT ![t] = 0]
        BY ZenonT(40), <1>0, <4>1 DEF Sent
      <4>3. CASE o.written = 0
        BY ZenonT(40), <1>0, <3>1, <3>2, <3>4, <4>3, SentKept DEF IInv
      <4>4. CASE o.written # 0
        <5>1. Sent[t] > 0
          BY <3>1, <4>4
        <5>2. Queue!Stop(t)
          BY <3>2, <4>2, <5>1 DEF Queue!Stop
        <5> QED
          BY <5>2 DEF Queue!Next
      <4> QED
        BY <4>3, <4>4
    <3> QED
      BY <2>2, <3>3, <3>4 DEF WriteBlocked, Return, Sleep
  <2> QED
    BY <1>2, <2>1, <2>2 DEF Write
<1>3. ASSUME NEW o \in Selecting, Select(t, o), op[t] = Idle \/ op[t] = o
      PROVE  Queue!Next \/ UNCHANGED <<Contents, Sent, wr>>
  <2>1. o.call = "select" /\ Sent[t] = 0
    BY <1>0, <1>3, Calls DEF Sent
  <2>2. op' = [op EXCEPT ![t] = Idle] \/ op' = [op EXCEPT ![t] = o]
    BY <1>3 DEF Select, Return, Sleep
  <2>3. UNCHANGED Sent
    BY <1>0, <2>1, <2>2, SentKept DEF IInv
  <2> QED
    BY <1>3, <2>3, ContentsKept DEF Select
<1> QED
  BY <1>1, <1>2, <1>3, CallStep

LEMMA StepRefines ==
  ASSUME IInv, [Next]_vars
  PROVE  [Queue!Next]_<<Contents, Sent, wr>>
<1>1. CASE UNCHANGED vars
  <2>1. UNCHANGED <<Contents, wr>>
    BY <1>1, ContentsKept DEF vars
  <2>2. UNCHANGED Sent
    BY <1>1 DEF vars, Sent
  <2> QED
    BY <2>1, <2>2
<1>2. ASSUME NEW t \in Task, CallRead(t) \/ CallWrite(t) \/ CallSelect(t) \/ Resume(t)
      PROVE  [Queue!Next]_<<Contents, Sent, wr>>
  BY <1>2, CallRefines
<1>3. ASSUME NEW t \in Task, CloseRead(t) \/ Signal(t)
      PROVE  [Queue!Next]_<<Contents, Sent, wr>>
  <2>1. UNCHANGED <<Contents, wr>>
    BY <1>3, ContentsKept DEF CloseRead, Signal
  <2>2. UNCHANGED Sent
    BY <1>3 DEF CloseRead, Signal, Sent
  <2> QED
    BY <2>1, <2>2
<1>4. ASSUME NEW t \in Task, CloseWrite(t)
      PROVE  [Queue!Next]_<<Contents, Sent, wr>>
  <2>1. UNCHANGED <<Contents, Sent>> /\ wr' = wr \ {t}
    <3>1. UNCHANGED Contents
      BY <1>4, ContentsKept DEF CloseWrite
    <3>2. UNCHANGED Sent
      BY <1>4 DEF CloseWrite, Sent
    <3> QED
      BY <1>4, <3>1, <3>2 DEF CloseWrite
  <2>2. Sent[t] = 0
    BY <1>4, Calls DEF CloseWrite, Sent
  <2>3. Queue!Close(t)
    BY <2>1, <2>2 DEF Queue!Close
  <2> QED
    BY <2>3 DEF Queue!Next
<1> QED
  BY <1>1, <1>2, <1>3, <1>4 DEF Next

(* The pipe implements the bounded queue of PipeQueue for every set of      *)
(* tasks, ring size and set of call sizes: pipe_read and pipe_write keep    *)
(* the bytes in order across the wrap of the ring, and a write of at most   *)
(* PIPE_BUF bytes enters whole.                                             *)
THEOREM Refinement == Spec => ImplementsQueue
<1>1. Init => Queue!Init
  <2> SUFFICES ASSUME Init PROVE Queue!Init
    OBVIOUS
  <2>1. Contents = << >>
    BY DEF Init, Contents
  <2>2. Sent = [t \in Task |-> 0]
    BY Calls DEF Init, Sent
  <2> QED
    BY <2>1, <2>2 DEF Init, Queue!Init
<1>2. IInv /\ [Next]_vars => [Queue!Next]_Queue!vars
  BY StepRefines DEF Queue!vars
<1> QED
  BY <1>1, <1>2, Inductive, PTL DEF Spec, ImplementsQueue, Queue!Spec

-------------------------------------------------------------------------------
(* Writes that fit stay in one piece. *)

(* Byte i of the sequence f, which has m bytes, is between its neighbours. *)
WholeAt(f, m, i) ==
  f[i].size <= PIPE_BUF =>
    /\ f[i].at + 1 < f[i].size => i < m /\ f[i + 1] = Queue!Beside(f[i], 1)
    /\ f[i].at > 0 /\ i > 1 => f[i - 1] = Queue!Beside(f[i], -1)

AllWhole(f, m) == \A i \in 1 .. m : WholeAt(f, m, i)

(* Byte j of a piece of a write of size bytes, which begins at its byte s. *)
Piece(t, size, s, j) == [by |-> t, size |-> size, at |-> s + j - 1]

LEMMA PieceFields ==
  ASSUME NEW t, NEW size, NEW s, NEW j
  PROVE  Piece(t, size, s, j).size = size /\ Piece(t, size, s, j).at = s + j - 1
BY DEF Piece

LEMMA PieceBeside ==
  ASSUME NEW t, NEW size, NEW s \in Int, NEW j \in Int, NEW k \in Int
  PROVE  Queue!Beside(Piece(t, size, s, j), k) = Piece(t, size, s, j + k)
<1>1. (s + j - 1) + k = s + (j + k) - 1
  OBVIOUS
<1>2. Queue!Beside(Piece(t, size, s, j), k) = [by |-> t, size |-> size, at |-> (s + j - 1) + k]
  BY DEF Piece, Queue!Beside
<1> QED BY Zenon, <1>1, <1>2 DEF Piece

(* The sequence g is f with the next n bytes of a write of t behind it. *)
Appended(f, g, m, n, t, size, s) ==
  \A i \in 1 .. m + n : g[i] = IF i <= m THEN f[i] ELSE Piece(t, size, s, i - m)

(* A piece of a write is within it, and all of it when it fits. *)
PieceOf(n, size, s) == s + n <= size /\ (size <= PIPE_BUF => n = size)

LEMMA WholePut ==
  ASSUME NEW f, NEW g, NEW m \in Nat, NEW n \in Nat, NEW t, NEW size \in Nat, NEW s \in Nat,
         PieceOf(n, size, s), AllWhole(f, m), Appended(f, g, m, n, t, size, s)
  PROVE  AllWhole(g, m + n)
<1> SUFFICES ASSUME NEW i \in 1 .. m + n PROVE WholeAt(g, m + n, i)
  BY Zenon DEF AllWhole
<1>1. CASE i <= m
  <2>1. i \in 1 .. m /\ g[i] = f[i]
    <3>1. i \in 1 .. m
      BY <1>1
    <3> QED BY Zenon, <1>1, <3>1 DEF Appended
  <2>2. ASSUME i < m PROVE i < m + n /\ g[i + 1] = f[i + 1]
    <3>1. i < m + n /\ i + 1 \in 1 .. m + n /\ i + 1 <= m
      BY <2>2
    <3> QED BY Zenon, <3>1 DEF Appended
  <2>3. ASSUME i > 1 PROVE g[i - 1] = f[i - 1]
    <3>1. i - 1 \in 1 .. m + n /\ i - 1 <= m
      BY <1>1, <2>3
    <3> QED BY Zenon, <3>1 DEF Appended
  <2> QED BY Zenon, <2>1, <2>2, <2>3 DEF AllWhole, WholeAt
<1>2. CASE ~(i <= m)
  <2>1. PICK j \in Nat : j = i - m
    BY <1>2
  <2>2. g[i] = Piece(t, size, s, j)
    BY Zenon, <1>2, <2>1 DEF Appended
  <2>3. g[i].size = size /\ g[i].at = s + j - 1
    BY <2>2, PieceFields
  <2>4. Queue!Beside(g[i], 1) = Piece(t, size, s, j + 1)
    BY <2>2, PieceBeside
  <2>5. Queue!Beside(g[i], -1) = Piece(t, size, s, j + (-1))
    BY <2>2, PieceBeside
  <2>6. ASSUME s + n <= n, (s + j - 1) + 1 < n
        PROVE  i < m + n /\ g[i + 1] = Piece(t, size, s, j + 1)
    <3>1. i < m + n /\ i + 1 \in 1 .. m + n /\ ~(i + 1 <= m) /\ (i + 1) - m = j + 1
      BY <1>2, <2>1, <2>6
    <3> QED BY Zenon, <3>1 DEF Appended
  <2>7. ASSUME s + n <= n, s + j - 1 > 0
        PROVE  g[i - 1] = Piece(t, size, s, j + (-1))
    <3>1. i - 1 \in 1 .. m + n /\ ~(i - 1 <= m) /\ (i - 1) - m = j + (-1)
      BY <1>2, <2>1, <2>7
    <3> QED BY Zenon, <3>1 DEF Appended
  <2>8. size <= PIPE_BUF => n = size /\ s + n <= n
    BY Zenon DEF PieceOf
  <2> QED BY Zenon, <2>3, <2>4, <2>5, <2>6, <2>7, <2>8 DEF WholeAt
<1> QED BY Zenon, <1>1, <1>2

(* What is left when bytes leave from the front is still in one piece. *)
LEMMA WholeGet ==
  ASSUME NEW f, NEW g, NEW m \in Nat, NEW n \in Nat, n <= m,
         AllWhole(f, m),
         \A i \in 1 .. m - n : g[i] = f[i + n]
  PROVE  AllWhole(g, m - n)
<1> SUFFICES ASSUME NEW i \in 1 .. m - n PROVE WholeAt(g, m - n, i)
  BY Zenon DEF AllWhole
<1>1. i + n \in 1 .. m /\ g[i] = f[i + n]
  OBVIOUS
<1>2. WholeAt(f, m, i + n)
  BY Zenon, <1>1 DEF AllWhole
<1>3. ASSUME i + n < m PROVE i < m - n /\ g[i + 1] = f[(i + n) + 1]
  <2>1. i < m - n /\ i + 1 \in 1 .. m - n /\ (i + 1) + n = (i + n) + 1
    BY <1>3
  <2>2. PICK j \in 1 .. m - n : j = i + 1
    BY Zenon, <2>1
  <2>3. g[j] = f[j + n]
    BY Zenon
  <2> QED BY Zenon, <2>1, <2>2, <2>3
<1>4. ASSUME i > 1 PROVE i + n > 1 /\ g[i - 1] = f[(i + n) - 1]
  <2>1. i + n > 1 /\ i - 1 \in 1 .. m - n /\ (i - 1) + n = (i + n) - 1
    BY <1>4
  <2>2. PICK j \in 1 .. m - n : j = i - 1
    BY Zenon, <2>1
  <2>3. g[j] = f[j + n]
    BY Zenon
  <2> QED BY Zenon, <2>1, <2>2, <2>3
<1> QED BY Zenon, <1>1, <1>2, <1>3, <1>4 DEF WholeAt

(* AtomicWrites says this of every byte in the pipe. *)
LEMMA WholeContents ==
  /\ Len(Contents) = len =>
       (AtomicWrites <=> AllWhole(Contents, len))
  /\ Len(Contents') = len' =>
       (AtomicWrites' <=> AllWhole(Contents', len'))
BY Zenon DEF AtomicWrites, Queue!Whole, AllWhole, WholeAt, Queue!Beside

(* A step of the queue keeps the writes that fit in one piece. *)
LEMMA QueueStep ==
  ASSUME IInv, AtomicWrites, [Queue!Next]_Queue!vars,
         len' \in Nat, Len(Contents') = len'
  PROVE  AtomicWrites'
<1>1. len \in Nat /\ Len(Contents) = len
  BY PipeAssumption DEF IInv, TypeOK, Contents
<1>2. AllWhole(Contents, len)
  BY Zenon, <1>1, WholeContents
<1>3. SUFFICES AllWhole(Contents', len')
  BY Zenon, WholeContents
<1>4. CASE Contents' = Contents
  BY Zenon, <1>1, <1>2, <1>4
<1>5. ASSUME NEW t \in Task, NEW size \in Count, NEW n \in 1 .. PIPE_BUF, Queue!Put(t, size, n)
      PROVE  AllWhole(Contents', len')
  <2>1. PICK s \in Nat : s = Sent[t]
    BY CallKinds, Calls DEF IInv, Sent
  <2>2. n \in Nat /\ size \in Nat
    BY PipeAssumption
  <2>3. /\ s + n <= size /\ (size <= PIPE_BUF => n = size)
        /\ Contents' = [i \in 1 .. len + n |->
              IF i <= len THEN Contents[i] ELSE [by |-> t, size |-> size, at |-> s + (i - len) - 1]]
    BY Zenon, <1>1, <1>5, <2>1 DEF Queue!Put
  <2>4. len' = len + n
    BY <1>1, <2>2, <2>3
  <2>5. Appended(Contents, Contents', len, n, t, size, s)
    <3>1. \A i \in 1 .. len + n :
            [by |-> t, size |-> size, at |-> s + (i - len) - 1] = Piece(t, size, s, i - len)
      BY Zenon DEF Piece
    <3> QED BY Zenon, <2>3, <3>1 DEF Appended
  <2>6. PICK f, g, m : m \in Nat /\ f = Contents /\ g = Contents' /\ m = len
    BY Zenon, <1>1
  <2>7. AllWhole(g, m + n)
    BY Zenon, WholePut, <1>2, <2>1, <2>2, <2>3, <2>5, <2>6 DEF PieceOf
  <2> QED BY Zenon, <2>4, <2>6, <2>7
<1>6. ASSUME NEW n \in 1 .. PIPE_BUF, Queue!Get(n)
      PROVE  AllWhole(Contents', len')
  <2>1. n \in Nat
    BY PipeAssumption
  <2>2. n <= len /\ Contents' = [i \in 1 .. len - n |-> Contents[i + n]]
    BY Zenon, <1>1, <1>6 DEF Queue!Get
  <2>3. len' = len - n
    BY <1>1, <2>1, <2>2
  <2>4. \A i \in 1 .. len - n : Contents'[i] = Contents[i + n]
    BY Zenon, <2>2
  <2>5. PICK f, g, m : m \in Nat /\ f = Contents /\ g = Contents' /\ m = len
    BY Zenon, <1>1
  <2>6. AllWhole(g, m - n)
    BY Zenon, <1>2, <2>1, <2>2, <2>4, <2>5, WholeGet
  <2> QED BY Zenon, <2>3, <2>5, <2>6
<1> QED
  BY Zenon, <1>4, <1>5, <1>6 DEF Queue!Next, Queue!Stop, Queue!Close, Queue!vars

(* A write of at most PIPE_BUF bytes is read in one piece, for every set of  *)
(* tasks, ring size and set of call sizes, whatever other writers, readers   *)
(* and signals do between the sleeps of pipe_write and pipe_read.            *)
THEOREM WritesAtomic == Spec => []AtomicWrites
<1>1. Init => AtomicWrites
  <2> SUFFICES ASSUME Init PROVE AtomicWrites
    OBVIOUS
  <2>1. len = 0 /\ Len(Contents) = 0
    BY DEF Init, Contents
  <2>2. 1 .. 0 = {}
    OBVIOUS
  <2> QED BY Zenon, <2>1, <2>2, WholeContents DEF AllWhole
<1>2. IInv /\ IInv' /\ AtomicWrites /\ [Next]_vars => AtomicWrites'
  <2> SUFFICES ASSUME IInv, IInv', AtomicWrites, [Next]_vars PROVE AtomicWrites'
    OBVIOUS
  <2>1. len' \in Nat /\ Len(Contents') = len'
    BY PipeAssumption DEF IInv, TypeOK, Contents
  <2> QED BY <2>1, StepRefines, QueueStep DEF Queue!vars
<1> QED
  BY <1>1, <1>2, Inductive, PTL DEF Spec
===============================================================================
