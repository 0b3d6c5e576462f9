------------------------------ MODULE FuseProofs ------------------------------
(***************************************************************************)
(* Proofs about a FUSE connection for any number of tasks, requests, nodes *)
(* and inodes: its invariants, and that it implements FuseService.         *)
(***************************************************************************)
EXTENDS Fuse, TLAPS

-------------------------------------------------------------------------------
(* The inductive invariant. *)

(* An inode in use has the node it was last looked up as. *)
InodeInv == \A i \in Ino : i_count[i] > 0 => nodeid[i] \in Node

(* Who may be where, and what the reference count counts. *)
UsersInv ==
  /\ \A t \in Task : pc[t] \in ReadCall => t \in holders
  /\ \A t \in Task : pc[t] = "init" => sb = "mounted"
  /\ \A t \in Task : pc[t] \in {"statfs", "reply", "stray"} => sb # "none"
  /\ \A t \in Task : pc[t] = "sync" => sb = "umounting"
  /\ connected => holders # {} /\ sb # "gone"
  /\ mounted <=> sb \in {"mounted", "umounting"}
  /\ refcount = (IF holders # {} THEN 1 ELSE 0)
                + (IF sb \in {"mounted", "umounting"} THEN 1 ELSE 0)
  /\ forgets # <<>> => refcount > 0

(* A request on a list is one of a connection that is up and has been mounted, and
   has its sender waiting for it. *)
LinksInv ==
  \A u \in Unique : Linked(u) =>
    /\ connected /\ sb # "none"
    /\ u <= last_unique /\ state[u] # "finished"
    /\ opcode[u] # "INIT" => \E t \in Task : cur[t] = u

(* The requests there may be in state s of the mount: FUSE_STATFS in any. *)
Fits(op, s) ==
  /\ op # "INIT"
  /\ op \in InodeOp => s = "mounted"
  /\ op = "DESTROY" => s = "umounting"

(* t is in fuse_put_super. *)
Unmounts(t) == pc[t] = "sync" \/ (pc[t] = "reply" /\ opcode[cur[t]] = "DESTROY")

(* A sender waits for a request of its own that is on a list or is finished. *)
WaitersInv ==
  /\ \A t \in Task :
       IF pc[t] = "reply"
         THEN /\ cur[t] \in Unique /\ cur[t] <= last_unique
              /\ state[cur[t]] = "finished" \/ Linked(cur[t])
              /\ Fits(opcode[cur[t]], sb)
         ELSE cur[t] = None
  /\ \A t, v \in Task : cur[t] = cur[v] /\ cur[t] # None => t = v
  /\ \A u \in Unique : state[u] = "finished" /\ reply[u] \in Node => opcode[u] = "LOOKUP"

(* FUSE_INIT is on a list until the handshake ends, the others only after it. *)
HandshakeInv ==
  /\ \A u \in Unique : Linked(u) =>
       ~init_error /\ (initialized <=> opcode[u] # "INIT")
  /\ \A u, v \in Unique : Linked(u) /\ Linked(v) /\ opcode[u] = "INIT" => u = v
  /\ sb = "none" => ~initialized /\ ~init_error
  /\ ~(initialized /\ init_error)

(* There is one unmount, and beside it only sys_ustat. *)
AloneInv ==
  sb = "umounting" =>
    /\ \A u \in Unique : Linked(u) => opcode[u] \in {"DESTROY", "STATFS"}
    /\ \A t, v \in Task : Unmounts(t) /\ Unmounts(v) => t = v
    /\ \A i \in Ino : i_count[i] = 0

IInv ==
  /\ TypeOK /\ InodeInv /\ UsersInv /\ LinksInv /\ WaitersInv /\ HandshakeInv /\ AloneInv
  /\ FifoDelivery /\ NoLostWakeup

-------------------------------------------------------------------------------
(* Sequences and lists. *)

(* Append adds one element at the end and keeps the others in place. *)
LEMMA AppendFacts ==
  ASSUME NEW S, NEW s \in Seq(S), NEW x \in S
  PROVE  /\ Append(s, x) \in Seq(S)
         /\ Append(s, x) # <<>>
         /\ Len(s) \in Nat
         /\ Len(Append(s, x)) = Len(s) + 1
         /\ \A k \in 1 .. Len(s) : Append(s, x)[k] = s[k]
         /\ Append(s, x)[Len(s) + 1] = x
OBVIOUS

(* Head is the first element, Tail the rest shifted by one. *)
LEMMA TailFacts ==
  ASSUME NEW S, NEW s \in Seq(S), s # <<>>
  PROVE  /\ Tail(s) \in Seq(S)
         /\ Len(s) \in Nat \ {0}
         /\ Len(Tail(s)) = Len(s) - 1
         /\ \A k \in 1 .. Len(s) - 1 : Tail(s)[k] = s[k + 1]
         /\ Head(s) = s[1]
         /\ Head(s) \in S
OBVIOUS

(* A request put in front of an empty list is alone on it. *)
LEMMA ConsFacts ==
  ASSUME NEW S, NEW x \in S
  PROVE  /\ <<x>> \o <<>> \in Seq(S)
         /\ <<x>> \o <<>> # <<>>
         /\ Len(<<x>> \o <<>>) = 1
         /\ (<<x>> \o <<>>)[1] = x
OBVIOUS

(* The same requests are on a list when the lists are the same. *)
LEMMA SameLinks ==
  ASSUME UNCHANGED listVars
  PROVE  /\ \A u : Linked(u)' <=> Linked(u)
         /\ FifoDelivery => FifoDelivery'
         /\ Outstanding' = Outstanding
BY Zenon DEF Linked, OnPending, listVars, FifoDelivery, Outstanding

(* The same tasks unmount when calls and opcodes are the same. *)
LEMMA SameUnmounts ==
  ASSUME UNCHANGED <<pc, cur, opcode>>
  PROVE  \A t : Unmounts(t)' <=> Unmounts(t)
BY Zenon DEF Unmounts

(* The invariant holds when the device has been opened. *)
THEOREM InitIInv == Init => IInv
<1> SUFFICES ASSUME Init PROVE IInv
  OBVIOUS
<1> USE FuseAssumption DEF Init
<1>1. \A u : ~Linked(u)
  BY DEF Linked, OnPending
<1>2. TypeOK
  <2>1. pending \in Seq(Unique) /\ forgets \in Seq([nodeid : Node, nlookup : Nat \ {0}])
        /\ last_unique \in 0 .. MaxUnique /\ 0 \in Nat /\ 1 \in Nat /\ 0 \in Int
    OBVIOUS
  <2>2. QED
    BY Zenon, <2>1 DEF TypeOK, CallOp, InodeOp
<1>3. InodeInv /\ FifoDelivery
  BY DEF InodeInv, FifoDelivery
<1>4. UsersInv /\ NoLostWakeup /\ AloneInv
  BY DEF UsersInv, NoLostWakeup, AloneInv
<1>5. LinksInv /\ WaitersInv /\ HandshakeInv
  BY Zenon, <1>1 DEF LinksInv, WaitersInv, HandshakeInv
<1>6. QED
  BY Zenon, <1>2, <1>3, <1>4, <1>5 DEF IInv

-------------------------------------------------------------------------------
(* The lists. *)

(* fuse_enqueue_req at the tail, for a request newer than all others. *)
LEMMA AppendLinks ==
  ASSUME IInv, NEW u \in Unique, u = last_unique + 1,
         pending' = Append(pending, u), UNCHANGED processing
  PROVE  /\ pending' \in Seq(Unique) /\ pending' # <<>>
         /\ \A v : OnPending(v)' <=> OnPending(v) \/ v = u
         /\ \A v : Linked(v)' <=> Linked(v) \/ v = u
         /\ FifoDelivery'
         /\ ~Linked(u)
<1>0. /\ pending \in Seq(Unique) /\ processing \subseteq Unique
      /\ last_unique \in Nat
      /\ \A v \in Unique : v \in Nat
  BY FuseAssumption DEF IInv, TypeOK, Unique
<1>1. /\ pending' \in Seq(Unique) /\ pending' # <<>>
      /\ Len(pending) \in Nat
      /\ Len(pending') = Len(pending) + 1
      /\ \A k \in 1 .. Len(pending) : pending'[k] = pending[k] /\ pending[k] \in Unique
      /\ pending'[Len(pending) + 1] = u
  BY <1>0, AppendFacts
<1>2. \A v \in Unique : Linked(v) => v <= last_unique
  BY Zenon DEF IInv, LinksInv
<1>3. ~Linked(u)
  BY <1>0, <1>2
<1>4. \A v : OnPending(v)' <=> OnPending(v) \/ v = u
  BY <1>1 DEF OnPending
<1>5. \A v : Linked(v)' <=> Linked(v) \/ v = u
  BY Zenon, <1>4 DEF Linked
<1>6. \A k \in 1 .. Len(pending) : pending[k] < u
  <2> SUFFICES ASSUME NEW k \in 1 .. Len(pending) PROVE pending[k] < u
    OBVIOUS
  <2>1. Linked(pending[k]) /\ pending[k] \in Unique
    BY Zenon, <1>1 DEF Linked, OnPending
  <2>2. pending[k] \in Nat /\ pending[k] <= last_unique
    BY Zenon, <1>0, <1>2, <2>1
  <2>3. QED
    BY <1>0, <2>2
<1>7. \A v \in processing : v < u
  <2> SUFFICES ASSUME NEW v \in processing PROVE v < u
    OBVIOUS
  <2>1. Linked(v) /\ v \in Unique
    BY Zenon, <1>0 DEF Linked
  <2>2. QED
    BY <1>0, <1>2, <2>1
<1>8. FifoDelivery'
  <2>1. ASSUME NEW j \in 1 .. Len(pending'), NEW k \in 1 .. Len(pending'), j < k
        PROVE  pending'[j] < pending'[k]
    <3>1. j \in 1 .. Len(pending)
      BY <1>1, <2>1
    <3>2. CASE k \in 1 .. Len(pending)
      BY Zenon, <1>1, <2>1, <3>1, <3>2 DEF IInv, FifoDelivery
    <3>3. CASE k = Len(pending) + 1
      BY Zenon, <1>1, <1>6, <3>1, <3>3
    <3>4. QED
      BY <1>1, <3>2, <3>3
  <2>2. ASSUME NEW v \in processing', NEW k \in 1 .. Len(pending')
        PROVE  v < pending'[k]
    <3>1. v \in processing
      BY Zenon
    <3>2. CASE k \in 1 .. Len(pending)
      BY Zenon, <1>1, <3>1, <3>2 DEF IInv, FifoDelivery
    <3>3. CASE k = Len(pending) + 1
      BY Zenon, <1>1, <1>7, <3>1, <3>3
    <3>4. QED
      BY <1>1, <3>2, <3>3
  <2>3. QED
    BY Zenon, <2>1, <2>2 DEF FifoDelivery
<1>9. QED
  BY Zenon, <1>1, <1>3, <1>4, <1>5, <1>8

(* fuse_dev_read moves the oldest request to the other list. *)
LEMMA TakeLinks ==
  ASSUME IInv, pending # <<>>, NEW u, u = Head(pending),
         pending' = Tail(pending), processing' = processing \cup {u}
  PROVE  /\ u \in Unique
         /\ pending' \in Seq(Unique) /\ processing' \subseteq Unique
         /\ \A v : OnPending(v) <=> v = u \/ OnPending(v)'
         /\ \A v : Linked(v)' <=> Linked(v)
         /\ FifoDelivery'
         /\ Linked(u)
<1>0. /\ pending \in Seq(Unique) /\ processing \subseteq Unique
      /\ \A v \in Unique : v \in Nat
  BY FuseAssumption DEF IInv, TypeOK, Unique
<1>1. /\ pending' \in Seq(Unique)
      /\ Len(pending) \in Nat \ {0}
      /\ Len(pending') = Len(pending) - 1
      /\ \A k \in 1 .. Len(pending) - 1 : pending'[k] = pending[k + 1]
      /\ u = pending[1] /\ u \in Unique
      /\ 1 \in 1 .. Len(pending)
  BY <1>0, TailFacts
<1>2. \A v : OnPending(v) <=> v = u \/ OnPending(v)'
  <2>1. ASSUME NEW v, OnPending(v), v # u
        PROVE  OnPending(v)'
    <3>1. PICK k \in 1 .. Len(pending) : pending[k] = v
      BY Zenon, <2>1 DEF OnPending
    <3>2. k - 1 \in 1 .. Len(pending') /\ pending'[k - 1] = v
      BY <1>1, <2>1, <3>1
    <3>3. QED
      BY Zenon, <3>2 DEF OnPending
  <2>2. ASSUME NEW v, OnPending(v)'
        PROVE  OnPending(v)
    <3>1. PICK k \in 1 .. Len(pending') : pending'[k] = v
      BY Zenon, <2>2 DEF OnPending
    <3>2. k + 1 \in 1 .. Len(pending) /\ pending[k + 1] = v
      BY <1>1, <3>1
    <3>3. QED
      BY Zenon, <3>2 DEF OnPending
  <2>3. OnPending(u)
    BY Zenon, <1>1 DEF OnPending
  <2>4. QED
    BY Zenon, <2>1, <2>2, <2>3
<1>3. \A v : Linked(v)' <=> Linked(v)
  BY Zenon, <1>2 DEF Linked
<1>4. FifoDelivery'
  <2>1. \A k \in 1 .. Len(pending') : /\ k \in 1 .. Len(pending)
                                      /\ k + 1 \in 1 .. Len(pending)
                                      /\ 1 < k + 1
                                      /\ pending'[k] = pending[k + 1]
    BY <1>1
  <2>2. \A j, k \in 1 .. Len(pending') : j < k => j + 1 < k + 1
    BY <1>1
  <2>3. \A j, k \in 1 .. Len(pending') : j < k => pending'[j] < pending'[k]
    BY Zenon, <2>1, <2>2 DEF IInv, FifoDelivery
  <2>4. \A v \in processing' : \A k \in 1 .. Len(pending') : v < pending'[k]
    BY ZenonT(40), <1>1, <2>1 DEF IInv, FifoDelivery
  <2>5. QED
    BY Zenon, <2>3, <2>4 DEF FifoDelivery
<1>5. QED
  BY Zenon, <1>0, <1>1, <1>2, <1>3, <1>4 DEF Linked

(* No request is on both lists. *)
LEMMA ListsApart ==
  ASSUME IInv, NEW u \in processing PROVE ~OnPending(u)
<1> SUFFICES ASSUME NEW k \in 1 .. Len(pending), pending[k] = u PROVE FALSE
  BY Zenon DEF OnPending
<1>1. u < u
  BY Zenon DEF IInv, FifoDelivery
<1>2. u \in Nat
  BY FuseAssumption DEF IInv, TypeOK, Unique
<1> QED BY <1>1, <1>2

(* fuse_dev_writev takes an answered request off its list. *)
LEMMA AnswerLinks ==
  ASSUME IInv, NEW u \in processing, processing' = processing \ {u}, UNCHANGED pending
  PROVE  /\ u \in Unique /\ processing' \subseteq Unique
         /\ \A v : Linked(v)' <=> Linked(v) /\ v # u
         /\ FifoDelivery'
         /\ Linked(u)
<1>0. /\ pending \in Seq(Unique) /\ processing \subseteq Unique
      /\ \A v \in Unique : v \in Nat
  BY FuseAssumption DEF IInv, TypeOK, Unique
<1>1. ~OnPending(u)
  BY Zenon, ListsApart
<1>2. \A v : Linked(v)' <=> Linked(v) /\ v # u
  BY Zenon, <1>1 DEF Linked, OnPending
<1>3. FifoDelivery'
  BY Zenon DEF IInv, FifoDelivery
<1>4. QED
  BY Zenon, <1>0, <1>2, <1>3 DEF Linked

-------------------------------------------------------------------------------
(* Steps. *)

(* fuse_request_send queues a request, a caller's or FUSE_DESTROY. *)
LEMMA EnqueueStep ==
  ASSUME IInv, NEW t \in Task, NEW op \in CallOp \cup {"DESTROY"}, Enqueue(t, op),
         pc[t] \in {"user", "init", "statfs"},
         connected, initialized, ~init_error,
         UNCHANGED <<holders, refcount, mounted, connected, initialized, init_error, forgets,
                     inodeVars, granted>>,
         \/ op \in InodeOp /\ sb = "mounted" /\ UNCHANGED sb
         \/ op = "STATFS" /\ sb \in {"mounted", "umounting"} /\ UNCHANGED sb
         \/ op = "DESTROY" /\ sb = "mounted" /\ sb' = "umounting" /\ MayUmount
  PROVE  IInv'
<1>0. TypeOK /\ UsersInv /\ LinksInv /\ WaitersInv /\ HandshakeInv /\ AloneInv /\ NoLostWakeup
  BY Zenon DEF IInv
<1>a. /\ sb \in {"mounted", "umounting"} /\ sb' \in {"mounted", "umounting"}
      /\ op # "DESTROY" => sb' = sb
      /\ sb' # sb => op = "DESTROY" /\ sb = "mounted" /\ sb' = "umounting" /\ MayUmount
  BY Zenon DEF InodeOp
<1>b. Fits(op, sb')
  BY Zenon DEF InodeOp, Fits
<1>1. PICK u \in Unique : u = last_unique + 1 /\ u > last_unique /\ u \in Nat /\ u # None
                          /\ u \in 0 .. MaxUnique
  BY <1>0, FuseAssumption DEF Enqueue, TypeOK, Unique, None
<1>2. /\ last_unique' = u /\ opcode' = [opcode EXCEPT ![u] = op]
      /\ state' = [state EXCEPT ![u] = "pending"]
      /\ pending' = Append(pending, u)
      /\ pc' = [pc EXCEPT ![t] = "reply"] /\ cur' = [cur EXCEPT ![t] = u]
      /\ run' = [Woken(Readers) EXCEPT ![t] = "asleep"]
      /\ UNCHANGED <<reply, processing>>
  BY Zenon, <1>1 DEF Enqueue, Queued
<1>3. /\ pending' \in Seq(Unique) /\ pending' # <<>>
      /\ \A v : Linked(v)' <=> Linked(v) \/ v = u
      /\ FifoDelivery'
      /\ ~Linked(u)
  BY Zenon, <1>1, <1>2, AppendLinks
<1>4. /\ opcode'[u] = op /\ state'[u] = "pending"
      /\ \A v \in Unique \ {u} : opcode'[v] = opcode[v] /\ state'[v] = state[v]
  BY Zenon, <1>0, <1>2 DEF TypeOK
<1>5. Woken(Readers) \in [Task -> {"running", "asleep", "signalled"}]
      /\ \A v \in Task : Woken(Readers)[v] = "asleep" => run[v] = "asleep" /\ pc[v] \notin ReadCall
  BY Zenon, <1>0 DEF Woken, Readers, TypeOK
<1>6. /\ pc'[t] = "reply" /\ cur'[t] = u /\ run'[t] = "asleep"
      /\ \A v \in Task \ {t} : pc'[v] = pc[v] /\ cur'[v] = cur[v]
                               /\ run'[v] = Woken(Readers)[v]
  BY ZenonT(40), <1>0, <1>2, <1>5 DEF TypeOK
<1>7. \A v \in Task : cur[v] # u
  <2> SUFFICES ASSUME NEW v \in Task, cur[v] = u PROVE FALSE
    OBVIOUS
  <2>1. u <= last_unique
    BY Zenon, <1>0, <1>1 DEF WaitersInv
  <2>2. QED
    BY <1>0, <1>1, <2>1 DEF TypeOK
<1>8. \A v \in Unique : v <= last_unique => v <= last_unique'
  BY <1>0, <1>1, <1>2, FuseAssumption DEF TypeOK, Unique
<1>9. TypeOK'
  <2>1. "reply" \in {"user", "init", "statfs", "reply", "sync", "stray"} \cup ReadCall
        /\ op \in CallOp \cup {"INIT", "DESTROY"}
    BY Zenon
  <2>2. QED
    BY Zenon, <1>0, <1>1, <1>2, <1>3, <1>5, <2>1 DEF TypeOK, inodeVars
<1>10. InodeInv'
  BY Zenon DEF IInv, InodeInv, inodeVars
<1>11. UsersInv'
  <2>0. "reply" \notin ReadCall
    BY Zenon, FuseAssumption
  <2>1. sb' # "none" /\ sb' # "gone"
    BY Zenon, <1>a
  <2>2. \A v \in Task : /\ pc'[v] \in ReadCall => v \in holders'
                        /\ pc'[v] \in {"statfs", "reply", "stray"} => sb' # "none"
    BY Zenon, <1>0, <1>6, <2>0, <2>1 DEF UsersInv
  <2>3. \A v \in Task : /\ pc'[v] = "init" => sb' = "mounted"
                        /\ pc'[v] = "sync" => sb' = "umounting"
    BY Zenon, <1>0, <1>a, <1>6 DEF UsersInv, MayUmount, HoldsInode
  <2>4. refcount' = (IF holders' # {} THEN 1 ELSE 0)
                   + (IF sb' \in {"mounted", "umounting"} THEN 1 ELSE 0)
        /\ (mounted' <=> sb' \in {"mounted", "umounting"})
        /\ (forgets' # <<>> => refcount' > 0)
    BY Zenon, <1>0, <1>a DEF UsersInv
  <2>5. connected' => holders' # {} /\ sb' # "gone"
    BY Zenon, <1>0, <2>1 DEF UsersInv
  <2>6. QED
    BY Zenon, <2>2, <2>3, <2>4, <2>5 DEF UsersInv
<1>12. LinksInv'
  <2> SUFFICES ASSUME NEW v \in Unique, Linked(v)'
               PROVE (/\ connected /\ sb # "none"
                      /\ v <= last_unique /\ state[v] # "finished"
                      /\ opcode[v] # "INIT" => \E w \in Task : cur[w] = v)'
    BY Zenon DEF LinksInv
  <2>0. connected' /\ sb' # "none"
    BY Zenon, <1>a
  <2>1. CASE v = u
    <3>1. u <= last_unique'
      BY <1>1, <1>2
    <3>2. QED
      BY Zenon, <1>4, <1>6, <2>0, <2>1, <3>1
  <2>2. CASE v # u
    <3>1. Linked(v) /\ v <= last_unique' /\ opcode'[v] = opcode[v] /\ state'[v] # "finished"
      BY Zenon, <1>0, <1>3, <1>4, <1>8, <2>2 DEF LinksInv
    <3>2. ASSUME opcode[v] # "INIT" PROVE \E w \in Task : cur'[w] = v
      <4>1. PICK w \in Task : cur[w] = v
        BY Zenon, <1>0, <3>1, <3>2 DEF LinksInv
      <4>0. v # None
        BY DEF Unique, None
      <4>2. pc[w] = "reply"
        BY Zenon, <1>0, <4>0, <4>1 DEF WaitersInv
      <4>3. w # t
        BY Zenon, <4>2
      <4>4. QED
        BY Zenon, <1>6, <4>1, <4>3
    <3>3. QED
      BY Zenon, <2>0, <3>1, <3>2
  <2>3. QED
    BY Zenon, <2>1, <2>2
<1>13. WaitersInv'
  <2>2. ASSUME NEW v \in Task
        PROVE  (IF pc[v] = "reply"
                  THEN /\ cur[v] \in Unique /\ cur[v] <= last_unique
                       /\ state[cur[v]] = "finished" \/ Linked(cur[v])
                       /\ Fits(opcode[cur[v]], sb)
                  ELSE cur[v] = None)'
    <3>1. CASE v = t
      <4>1. u <= last_unique'
        BY <1>1, <1>2
      <4>2. QED
        BY Zenon, <1>b, <1>3, <1>4, <1>6, <3>1, <4>1
    <3>2. CASE v # t
      <4>1. pc'[v] = pc[v] /\ cur'[v] = cur[v]
        BY Zenon, <1>6, <3>2
      <4>2. CASE pc[v] = "reply"
        <5>1. PICK w \in Unique : /\ w = cur[v] /\ w # u /\ w <= last_unique
                                  /\ state[w] = "finished" \/ Linked(w)
                                  /\ Fits(opcode[w], sb)
          BY Zenon, <1>0, <1>7, <4>2 DEF WaitersInv
        <5>2. Fits(opcode[w], sb')
          BY Zenon, <1>a, <4>2, <5>1 DEF Fits, MayUmount, HoldsInode
        <5>3. /\ opcode'[w] = opcode[w] /\ state'[w] = state[w] /\ w <= last_unique'
              /\ Linked(w) => Linked(w)'
          BY Zenon, <1>3, <1>4, <1>8, <5>1
        <5>4. cur'[v] = w
          BY Zenon, <4>1, <5>1
        <5>5. QED
          BY Zenon, <4>1, <4>2, <5>1, <5>2, <5>3, <5>4
      <4>3. CASE pc[v] # "reply"
        BY Zenon, <1>0, <4>1, <4>3 DEF WaitersInv
      <4>4. QED
        BY Zenon, <4>2, <4>3
    <3>3. QED
      BY Zenon, <3>1, <3>2
  <2>3. \A v, w \in Task : cur'[v] = cur'[w] /\ cur'[v] # None => v = w
    <3> SUFFICES ASSUME NEW v \in Task, NEW w \in Task, cur'[v] = cur'[w], cur'[v] # None, v # w
                 PROVE FALSE
      OBVIOUS
    <3>1. CASE v = t
      BY Zenon, <1>6, <1>7, <3>1
    <3>2. CASE w = t
      BY Zenon, <1>6, <1>7, <3>2
    <3>3. CASE v # t /\ w # t
      <4>1. cur'[v] = cur[v] /\ cur'[w] = cur[w]
        BY Zenon, <1>6, <3>3
      <4>2. QED
        BY Zenon, <1>0, <4>1 DEF WaitersInv
    <3>4. QED
      BY Zenon, <3>1, <3>2, <3>3
  <2>4. \A v \in Unique : state'[v] = "finished" /\ reply'[v] \in Node => opcode'[v] = "LOOKUP"
    BY Zenon, <1>0, <1>2, <1>4 DEF WaitersInv
  <2>5. QED
    BY Zenon, <2>2, <2>3, <2>4 DEF WaitersInv
<1>14. HandshakeInv'
  <2>1. op # "INIT" /\ sb' # "none"
    BY Zenon, <1>a, <1>b DEF Fits
  <2>2. \A v \in Unique : Linked(v)' => opcode'[v] # "INIT"
    BY Zenon, <1>0, <1>3, <1>4, <2>1 DEF HandshakeInv
  <2>3. QED
    BY Zenon, <2>1, <2>2 DEF HandshakeInv
<1>15. AloneInv'
  <2> SUFFICES ASSUME sb' = "umounting"
               PROVE (/\ \A v \in Unique : Linked(v) => opcode[v] \in {"DESTROY", "STATFS"}
                      /\ \A v, w \in Task : Unmounts(v) /\ Unmounts(w) => v = w
                      /\ \A i \in Ino : i_count[i] = 0)'
    BY Zenon DEF AloneInv
  <2>1. op \in {"DESTROY", "STATFS"}
    BY Zenon, <1>b DEF Fits, CallOp
  <2>2. ASSUME NEW v \in Unique, Linked(v), sb = "mounted"
        PROVE  opcode[v] = "STATFS"
    <3>1. PICK w \in Task : cur[w] = v
      BY Zenon, <1>0, <2>2 DEF HandshakeInv, LinksInv
    <3>2. v # None
      BY DEF Unique, None
    <3>3. pc[w] = "reply" /\ Fits(opcode[v], sb) /\ ~HoldsInode(w)
      BY Zenon, <1>0, <1>a, <2>2, <3>1, <3>2 DEF WaitersInv, MayUmount
    <3>4. opcode[v] \in CallOp \cup {"INIT", "DESTROY"}
      BY Zenon, <1>0 DEF TypeOK
    <3>5. QED
      BY Zenon, <2>2, <3>1, <3>3, <3>4 DEF Fits, HoldsInode, CallOp
  <2>3. \A v \in Unique : Linked(v)' => opcode'[v] \in {"DESTROY", "STATFS"}
    BY Zenon, <1>0, <1>a, <1>3, <1>4, <2>1, <2>2 DEF AloneInv
  <2>4. \A v \in Task \ {t} : Unmounts(v)' => Unmounts(v)
    <3> SUFFICES ASSUME NEW v \in Task \ {t}, Unmounts(v)' PROVE Unmounts(v)
      OBVIOUS
    <3>1. pc'[v] = pc[v] /\ cur'[v] = cur[v]
      BY Zenon, <1>6
    <3>2. CASE pc[v] = "reply"
      <4>1. cur[v] \in Unique \ {u}
        BY Zenon, <1>0, <1>7, <3>2 DEF WaitersInv
      <4>2. opcode'[cur'[v]] = opcode[cur[v]]
        BY Zenon, <1>4, <3>1, <4>1
      <4>3. QED
        BY Zenon, <3>1, <3>2, <4>2 DEF Unmounts
    <3>3. QED
      BY Zenon, <3>1, <3>2 DEF Unmounts
  <2>5. CASE sb = "mounted"
    <3>1. \A v \in Task : ~Unmounts(v)
      BY Zenon, <1>0, <2>5 DEF UsersInv, WaitersInv, Fits, Unmounts
    <3>2. \A i \in Ino : i_count'[i] = 0
      BY Zenon, <1>a, <2>5 DEF MayUmount, inodeVars
    <3>3. QED
      BY Zenon, <2>3, <2>4, <3>1, <3>2
  <2>6. CASE sb = "umounting"
    <3>1. op = "STATFS"
      BY Zenon, <2>6 DEF InodeOp
    <3>2. ~Unmounts(t)'
      BY Zenon, <1>4, <1>6, <3>1 DEF Unmounts
    <3>3. \A i \in Ino : i_count'[i] = 0
      BY Zenon, <1>0, <2>6 DEF AloneInv, inodeVars
    <3>4. \A v, w \in Task : Unmounts(v) /\ Unmounts(w) => v = w
      BY Zenon, <1>0, <2>6 DEF AloneInv
    <3>5. QED
      BY Zenon, <2>3, <2>4, <3>2, <3>3, <3>4
  <2>7. QED
    BY Zenon, <1>a, <2>5, <2>6
<1>16. NoLostWakeup'
  <2> SUFFICES ASSUME NEW v \in Task, run'[v] = "asleep"
               PROVE (\/ pc[v] \in ReadCall /\ ~Ready
                      \/ pc[v] \in {"init", "statfs"} /\ MustAwaitInit
                      \/ pc[v] = "reply" /\ connected /\ Linked(cur[v]))'
    BY Zenon DEF NoLostWakeup
  <2>1. CASE v = t
    BY Zenon, <1>3, <1>6, <2>1
  <2>2. CASE v # t
    BY Zenon, <1>0, <1>3, <1>5, <1>6, <2>2 DEF NoLostWakeup, MustAwaitInit
  <2>3. QED
    BY Zenon, <2>1, <2>2
<1>17. QED
  BY Zenon, <1>3, <1>9, <1>10, <1>11, <1>12, <1>13, <1>14, <1>15, <1>16 DEF IInv

(* A step that takes no request off its list, queues none, and moves one task that
   waits for no answer. *)
LEMMA QuietStep ==
  ASSUME IInv, NEW t \in Task, NEW p, NEW r, TypeOK',
         UNCHANGED <<holders, sb, refcount, mounted, connected, initialized, init_error,
                     opcode, reply, cur, inodeVars>>,
         \A v : Linked(v)' <=> Linked(v),
         FifoDelivery',
         last_unique <= last_unique',
         \A v \in Unique : state'[v] = state[v] \/ (Linked(v) /\ state'[v] # "finished"),
         forgets' # <<>> => forgets # <<>>,
         Ready' => Ready,
         pc' = [pc EXCEPT ![t] = p], run' = [run EXCEPT ![t] = r],
         pc[t] # "reply", p \notin {"reply", "sync"},
         p \in ReadCall => t \in holders,
         p = "init" => sb = "mounted",
         p \in {"statfs", "stray"} => sb # "none",
         r = "asleep" => \/ p \in ReadCall /\ ~Ready'
                         \/ p \in {"init", "statfs"} /\ MustAwaitInit
  PROVE  IInv'
<1>0. TypeOK /\ InodeInv /\ UsersInv /\ LinksInv /\ WaitersInv /\ HandshakeInv /\ AloneInv
      /\ NoLostWakeup
  BY Zenon DEF IInv
<1>1. /\ pc'[t] = p /\ run'[t] = r
      /\ \A v \in Task \ {t} : pc'[v] = pc[v] /\ run'[v] = run[v]
  <2>1. /\ pc \in [Task -> {"user", "init", "statfs", "reply", "sync", "stray"} \cup ReadCall]
        /\ run \in [Task -> {"running", "asleep", "signalled"}]
    BY Zenon, <1>0 DEF TypeOK
  <2>2. QED
    BY Zenon, <2>1
<1>2. \A v \in Unique : v <= last_unique => v <= last_unique'
  <2>1. last_unique \in 0 .. MaxUnique /\ last_unique' \in 0 .. MaxUnique
    BY Zenon, <1>0 DEF TypeOK
  <2>2. last_unique \in Int /\ last_unique' \in Int /\ \A v \in Unique : v \in Int
    BY <2>1, FuseAssumption DEF Unique
  <2> QED BY <2>2
<1>3. InodeInv'
  BY Zenon, <1>0 DEF InodeInv, inodeVars
<1>4. UsersInv'
  <2>1. ASSUME NEW v \in Task
        PROVE  /\ pc'[v] \in ReadCall => v \in holders'
               /\ pc'[v] = "init" => sb' = "mounted"
               /\ pc'[v] \in {"statfs", "reply", "stray"} => sb' # "none"
               /\ pc'[v] = "sync" => sb' = "umounting"
    <3>1. CASE v = t
      BY Zenon, <1>1, <3>1
    <3>2. CASE v # t
      BY Zenon, <1>0, <1>1, <3>2 DEF UsersInv
    <3>3. QED
      BY Zenon, <3>1, <3>2
  <2>2. QED
    BY Zenon, <1>0, <2>1 DEF UsersInv
<1>5. LinksInv'
  BY Zenon, <1>0, <1>2 DEF LinksInv
<1>6. WaitersInv'
  <2>1. ASSUME NEW v \in Task, pc'[v] = "reply"
        PROVE  /\ cur'[v] \in Unique /\ cur'[v] <= last_unique'
               /\ state'[cur'[v]] = "finished" \/ Linked(cur[v])'
               /\ Fits(opcode[cur[v]], sb)'
    <3>1. v # t
      BY Zenon, <1>1, <2>1
    <3>2. pc[v] = "reply"
      BY Zenon, <1>1, <2>1, <3>1
    <3>3. Linked(cur[v])' <=> Linked(cur[v])
      BY Zenon
    <3>4. Fits(opcode[cur[v]], sb)' <=> Fits(opcode[cur[v]], sb)
      BY Zenon DEF Fits
    <3>5. QED
      BY Zenon, <1>0, <1>2, <3>2, <3>3, <3>4 DEF WaitersInv
  <2>2. ASSUME NEW v \in Task, pc'[v] # "reply"
        PROVE  cur'[v] = None
    BY ZenonT(40), <1>0, <1>1, <2>2 DEF WaitersInv
  <2>3. \A v \in Unique : state'[v] = "finished" /\ reply'[v] \in Node => opcode'[v] = "LOOKUP"
    BY Zenon, <1>0 DEF WaitersInv
  <2>4. QED
    BY Zenon, <1>0, <2>1, <2>2, <2>3 DEF WaitersInv
<1>7. HandshakeInv'
  BY Zenon, <1>0 DEF HandshakeInv
<1>8. AloneInv'
  <2>1. \A v \in Task : Unmounts(v)' => Unmounts(v)
    BY Zenon, <1>1 DEF Unmounts
  <2>2. QED
    BY Zenon, <1>0, <2>1 DEF AloneInv, inodeVars
<1>9. NoLostWakeup'
  <2> SUFFICES ASSUME NEW v \in Task, run'[v] = "asleep"
               PROVE (\/ pc[v] \in ReadCall /\ ~Ready
                      \/ pc[v] \in {"init", "statfs"} /\ MustAwaitInit
                      \/ pc[v] = "reply" /\ connected /\ Linked(cur[v]))'
    BY Zenon DEF NoLostWakeup
  <2>1. CASE v = t
    BY Zenon, <1>1, <2>1 DEF MustAwaitInit
  <2>2. CASE v # t
    <3>1. Linked(cur[v])' <=> Linked(cur[v])
      BY Zenon
    <3>2. QED
      BY Zenon, <1>0, <1>1, <2>2, <3>1 DEF NoLostWakeup, MustAwaitInit
  <2>3. QED
    BY Zenon, <2>1, <2>2
<1>10. QED
  BY Zenon, <1>3, <1>4, <1>5, <1>6, <1>7, <1>8, <1>9 DEF IInv

(* A step that changes one task only. *)
LEMMA TaskStep ==
  ASSUME IInv, NEW t \in Task, NEW p \in {"user", "init", "statfs", "stray"} \cup ReadCall,
         NEW r \in {"running", "asleep", "signalled"},
         UNCHANGED <<holders, sb, connVars, listVars, forgets, reqVars, cur, inodeVars, granted>>,
         pc' = [pc EXCEPT ![t] = p], run' = [run EXCEPT ![t] = r],
         pc[t] # "reply",
         p \in ReadCall => t \in holders,
         p = "init" => sb = "mounted",
         p \in {"statfs", "stray"} => sb # "none",
         r = "asleep" => \/ p \in ReadCall /\ ~Ready
                         \/ p \in {"init", "statfs"} /\ MustAwaitInit
  PROVE  IInv'
<1>1. TypeOK
  BY Zenon DEF IInv
<1>2. TypeOK'
  BY Zenon, <1>1 DEF TypeOK, connVars, listVars, reqVars, inodeVars
<1>3. p \notin {"reply", "sync"}
  BY Zenon, FuseAssumption
<1>4. last_unique <= last_unique'
  BY <1>1, FuseAssumption DEF TypeOK, connVars
<1>5. FifoDelivery' /\ \A v : Linked(v)' <=> Linked(v)
  BY Zenon, SameLinks DEF IInv
<1>6. Ready' <=> Ready
  BY Zenon DEF Ready, listVars, connVars
<1>7. /\ \A v \in Unique : state'[v] = state[v] \/ (Linked(v) /\ state'[v] # "finished")
      /\ UNCHANGED <<holders, sb, refcount, mounted, connected, initialized, init_error,
                     opcode, reply, cur, inodeVars>>
      /\ forgets' # <<>> => forgets # <<>>
      /\ Ready' => Ready
      /\ r = "asleep" => \/ p \in ReadCall /\ ~Ready'
                         \/ p \in {"init", "statfs"} /\ MustAwaitInit
  BY Zenon, <1>6 DEF connVars, reqVars
<1>8. QED
  BY Zenon, <1>2, <1>3, <1>4, <1>5, <1>7, QuietStep

(* What a call may send fits the mount. *)
LEMMA OpsFit ==
  ASSUME NEW p \in {"init", "statfs"}, NEW op \in OpsOf(p),
         sb = "mounted" \/ (p = "statfs" /\ sb = "umounting")
  PROVE  /\ op \in CallOp
         /\ \/ op \in InodeOp /\ sb = "mounted"
            \/ op = "STATFS" /\ sb \in {"mounted", "umounting"}
<1>1. CASE p = "statfs"
  BY Zenon, <1>1 DEF OpsOf, CallOp
<1>2. CASE p # "statfs"
  BY Zenon, <1>2 DEF OpsOf, CallOp
<1>3. QED
  BY Zenon, <1>1, <1>2

(* fuse_request_send up to its first sleep. *)
LEMMA RequestSendStep ==
  ASSUME IInv, NEW t \in Task, RequestSend(t)
  PROVE  IInv'
<1>0. PICK p \in {"init", "statfs"} :
        /\ sb = "mounted" \/ (p = "statfs" /\ sb = "umounting")
        /\ \/ /\ MustAwaitInit
              /\ pc' = [pc EXCEPT ![t] = p]
              /\ run' = [run EXCEPT ![t] = "asleep"]
              /\ UNCHANGED <<last_unique, listVars, reqVars, cur>>
           \/ /\ ~MustAwaitInit /\ ~init_error
              /\ \E op \in OpsOf(p) : Enqueue(t, op)
  BY Zenon DEF RequestSend
<1>1. CASE MustAwaitInit
  <2>1. /\ pc' = [pc EXCEPT ![t] = p] /\ run' = [run EXCEPT ![t] = "asleep"]
        /\ pc[t] # "reply" /\ sb # "none"
        /\ UNCHANGED <<holders, sb, connVars, listVars, forgets, reqVars, cur, inodeVars, granted>>
    BY Zenon, <1>0, <1>1 DEF RequestSend, connVars
  <2>2. p \notin ReadCall /\ (p = "init" => sb = "mounted")
    BY Zenon, <1>0, FuseAssumption
  <2>3. QED
    BY Zenon, <1>1, <2>1, <2>2, TaskStep
<1>2. CASE ~MustAwaitInit
  <2>1. PICK op \in OpsOf(p) : Enqueue(t, op)
    BY Zenon, <1>0, <1>2
  <2>2. connected /\ initialized /\ ~init_error
    BY Zenon, <1>0, <1>2 DEF RequestSend, MustAwaitInit
  <2>3. /\ op \in CallOp \cup {"DESTROY"}
        /\ \/ op \in InodeOp /\ sb = "mounted"
           \/ op = "STATFS" /\ sb \in {"mounted", "umounting"}
    BY Zenon, <1>0, OpsFit
  <2>4. QED
    BY Zenon, <2>1, <2>2, <2>3, EnqueueStep DEF RequestSend
<1>3. QED
  BY Zenon, <1>1, <1>2

(* Who waits for the handshake, and when. *)
LEMMA InitWaiter ==
  ASSUME IInv, NEW t \in Task, pc[t] \in {"init", "statfs"}
  PROVE  /\ cur[t] = None /\ sb # "none" /\ (pc[t] = "init" => sb = "mounted")
         /\ cur \in [Task -> Unique \cup {None}]
         /\ pc \in [Task -> {"user", "init", "statfs", "reply", "sync", "stray"} \cup ReadCall]
         /\ run \in [Task -> {"running", "asleep", "signalled"}]
<1>1. TypeOK /\ UsersInv /\ WaitersInv
  BY Zenon DEF IInv
<1>2. cur[t] = None
  BY Zenon, <1>1 DEF WaitersInv
<1>3. sb # "none" /\ (pc[t] = "init" => sb = "mounted")
  BY Zenon, <1>1 DEF UsersInv
<1>4. QED
  BY Zenon, <1>1, <1>2, <1>3 DEF TypeOK

(* fuse_request_send after a sleep on init_waitq. *)
LEMMA InitWakeStep ==
  ASSUME IInv, NEW t \in Task, InitWake(t)
  PROVE  IInv'
<1>0. /\ cur[t] = None /\ sb # "none" /\ (pc[t] = "init" => sb = "mounted")
      /\ pc[t] \in {"init", "statfs"}
      /\ cur \in [Task -> Unique \cup {None}]
      /\ pc \in [Task -> {"user", "init", "statfs", "reply", "sync", "stray"} \cup ReadCall]
  BY Zenon, InitWaiter DEF InitWake
<1>1. CASE MustAwaitInit /\ run' = [run EXCEPT ![t] = "asleep"]
           /\ UNCHANGED <<last_unique, listVars, reqVars, pc, cur>>
  <2>1. pc[t] \notin ReadCall /\ pc[t] # "reply" /\ pc' = [pc EXCEPT ![t] = pc[t]]
    BY Zenon, <1>0, <1>1, FuseAssumption
  <2>2. UNCHANGED <<holders, sb, connVars, listVars, forgets, reqVars, cur, inodeVars, granted>>
    BY Zenon, <1>1 DEF InitWake, connVars
  <2>3. QED
    BY Zenon, <1>0, <1>1, <2>1, <2>2, TaskStep
<1>2. CASE Return(t) /\ UNCHANGED <<last_unique, listVars, reqVars>>
  <2>1. "user" \notin ReadCall /\ pc[t] # "reply"
    BY Zenon, <1>0, FuseAssumption
  <2>2. cur' = cur
    BY Zenon, <1>0, <1>2 DEF Return
  <2>3. QED
    BY Zenon, <1>2, <2>1, <2>2, TaskStep DEF InitWake, Return, connVars
<1>3. CASE connected /\ initialized /\ ~init_error /\ \E op \in OpsOf(pc[t]) : Enqueue(t, op)
  <2>1. PICK op \in OpsOf(pc[t]) : Enqueue(t, op)
    BY Zenon, <1>3
  <2>2. sb = "mounted" \/ (pc[t] = "statfs" /\ sb = "umounting")
    BY Zenon, <1>0, <1>3 DEF IInv, TypeOK, UsersInv
  <2>3. /\ op \in CallOp \cup {"DESTROY"}
        /\ \/ op \in InodeOp /\ sb = "mounted"
           \/ op = "STATFS" /\ sb \in {"mounted", "umounting"}
    BY Zenon, <1>0, <2>2, OpsFit
  <2>4. QED
    BY Zenon, <1>0, <1>3, <2>1, <2>3, EnqueueStep DEF InitWake
<1>4. QED
  BY Zenon, <1>1, <1>2, <1>3 DEF InitWake

(* The same when the connection has been freed. *)
LEMMA FreedWakeStep ==
  ASSUME IInv, NEW t \in Task, FreedWake(t)
  PROVE  IInv'
<1>0. /\ sb # "none" /\ pc[t] \in {"init", "statfs"} /\ run[t] # "asleep"
      /\ run \in [Task -> {"running", "asleep", "signalled"}]
  BY Zenon, InitWaiter DEF FreedWake
<1>1. PICK p \in {"user", "stray"} : pc' = [pc EXCEPT ![t] = p]
  BY Zenon DEF FreedWake
<1>2. run' = [run EXCEPT ![t] = run[t]] /\ run[t] \in {"running", "asleep", "signalled"}
  BY Zenon, <1>0 DEF FreedWake
<1>3. p \notin ReadCall /\ p # "init" /\ pc[t] # "reply"
  BY Zenon, <1>0, FuseAssumption
<1>4. UNCHANGED <<holders, sb, connVars, listVars, forgets, reqVars, cur, inodeVars, granted>>
  BY Zenon DEF FreedWake
<1>5. QED
  BY Zenon, <1>0, <1>1, <1>2, <1>3, <1>4, TaskStep

(* fuse_dev_read and select that find something to return. *)
LEMMA CompleteStep ==
  ASSUME IInv, NEW t \in Task, NEW call \in ReadCall, Ready, Complete(call),
         UNCHANGED readUnchanged,
         pc[t] # "reply", pc' = [pc EXCEPT ![t] = "user"],
         NEW r \in {"running", "signalled"}, run' = [run EXCEPT ![t] = r]
  PROVE  IInv'
<1>0. TypeOK /\ LinksInv /\ "user" \notin ReadCall
  BY Zenon, FuseAssumption DEF IInv
<1>1. r # "asleep" /\ r \in {"running", "asleep", "signalled"}
  BY Zenon
<1>2. /\ pc' \in [Task -> {"user", "init", "statfs", "reply", "sync", "stray"} \cup ReadCall]
      /\ run' \in [Task -> {"running", "asleep", "signalled"}]
  BY Zenon, <1>0, <1>1 DEF TypeOK
<1>3. CASE UNCHANGED <<last_unique, listVars, forgets, state, granted>>
  BY Zenon, <1>0, <1>1, <1>3, TaskStep DEF readUnchanged, connVars, reqVars
<1>7. /\ UNCHANGED <<holders, sb, refcount, mounted, connected, initialized, init_error,
                     opcode, reply, cur, inodeVars>>
      /\ "user" \notin {"reply", "sync"} /\ "user" \notin {"init", "statfs", "stray"}
  BY Zenon DEF readUnchanged
<1>4. CASE pending # <<>> /\ TakeRequest
  <2>1. PICK u : u = Head(pending)
    OBVIOUS
  <2>2. /\ pending' = Tail(pending) /\ processing' = processing \cup {u}
        /\ state' = [state EXCEPT ![u] = "sent"]
        /\ UNCHANGED <<last_unique, forgets, granted>>
    BY Zenon, <1>4, <2>1 DEF TakeRequest
  <2>3. /\ u \in Unique
        /\ pending' \in Seq(Unique) /\ processing' \subseteq Unique
        /\ \A v : Linked(v)' <=> Linked(v)
        /\ FifoDelivery'
        /\ Linked(u)
    BY Zenon, <1>4, <2>1, <2>2, TakeLinks
  <2>4. TypeOK'
    BY Zenon, <1>0, <1>2, <2>2, <2>3 DEF TypeOK, readUnchanged, inodeVars
  <2>5. /\ \A v \in Unique : state'[v] = state[v] \/ (Linked(v) /\ state'[v] # "finished")
        /\ forgets' # <<>> => forgets # <<>>
        /\ Ready' => Ready
    <3>1. state'[u] = "sent" /\ \A v \in Unique \ {u} : state'[v] = state[v]
      BY Zenon, <1>0, <2>2, <2>3 DEF TypeOK
    <3>2. QED
      BY Zenon, <2>2, <2>3, <3>1
  <2>6. last_unique <= last_unique'
    BY <1>0, <2>2, FuseAssumption DEF TypeOK
  <2>7. QED
    BY Zenon, <1>0, <1>1, <1>7, <2>3, <2>4, <2>5, <2>6, QuietStep
<1>5. CASE pending = <<>> /\ connected /\ TakeForget
  <2>1. forgets # <<>>
    BY Zenon, <1>5 DEF Ready
  <2>2. /\ forgets' \in Seq([nodeid : Node, nlookup : Nat \ {0}])
        /\ Head(forgets) \in [nodeid : Node, nlookup : Nat \ {0}]
    BY Zenon, <1>0, <1>5, <2>1, TailFacts DEF TypeOK, TakeForget
  <2>3. PICK f \in [nodeid : Node, nlookup : Nat \ {0}] : f = Head(forgets)
    BY Zenon, <2>2
  <2>4. granted' \in [Node -> Int]
    <3>1. f.nodeid \in Node /\ f.nlookup \in Int
      BY <2>3
    <3>2. granted' = [granted EXCEPT ![f.nodeid] = @ - f.nlookup] /\ granted \in [Node -> Int]
      BY Zenon, <1>0, <1>5, <2>3 DEF TakeForget, TypeOK
    <3>3. QED
      BY <3>1, <3>2
  <2>5. last_unique' \in 0 .. MaxUnique /\ last_unique <= last_unique'
    BY <1>0, <1>5, FuseAssumption DEF TypeOK, TakeForget
  <2>6. UNCHANGED <<state, listVars>>
    BY Zenon, <1>5 DEF TakeForget
  <2>7. FifoDelivery' /\ \A v : Linked(v)' <=> Linked(v)
    BY Zenon, <2>6, SameLinks DEF IInv
  <2>8. TypeOK'
    BY Zenon, <1>0, <1>2, <2>2, <2>4, <2>5, <2>6 DEF TypeOK, readUnchanged, inodeVars, listVars
  <2>9. /\ \A v \in Unique : state'[v] = state[v] \/ (Linked(v) /\ state'[v] # "finished")
        /\ forgets' # <<>> => forgets # <<>>
        /\ Ready' => Ready
    BY Zenon, <2>1, <2>6
  <2>10. QED
    BY Zenon, <1>0, <1>1, <1>7, <2>5, <2>7, <2>8, <2>9, QuietStep
<1>6. QED
  BY Zenon, <1>3, <1>4, <1>5 DEF Complete

(* The calls of the daemon that take requests and forgets. *)
LEMMA ReadStep ==
  ASSUME IInv, NEW t \in Task,
         \/ \E call \in ReadCall : ReadNow(t, call) \/ ReadSleep(t, call)
         \/ ReadWake(t) \/ Signal(t)
  PROVE  IInv'
<1>0. /\ pc \in [Task -> {"user", "init", "statfs", "reply", "sync", "stray"} \cup ReadCall]
      /\ run \in [Task -> {"running", "asleep", "signalled"}]
      /\ "user" \notin ReadCall /\ "reply" \notin ReadCall
      /\ pc[t] \in ReadCall => t \in holders
      /\ \A v \in Task : run[v] = "asleep" /\ pc[v] = "user" => FALSE
      /\ \A call \in ReadCall : call \notin {"init", "statfs", "stray"}
  BY Zenon, FuseAssumption DEF IInv, TypeOK, UsersInv, NoLostWakeup
<1>1. ASSUME NEW call \in ReadCall, ReadNow(t, call) PROVE IInv'
  <2>1. pc' = [pc EXCEPT ![t] = "user"] /\ run' = [run EXCEPT ![t] = run[t]]
    BY Zenon, <1>0, <1>1 DEF ReadNow
  <2>2. run[t] \in {"running", "signalled"}
    BY Zenon, <1>0, <1>1 DEF ReadNow
  <2>3. QED
    BY Zenon, <1>1, <2>1, <2>2, CompleteStep DEF ReadNow
<1>2. ASSUME NEW call \in ReadCall, ReadSleep(t, call) PROVE IInv'
  BY Zenon, <1>0, <1>2, TaskStep DEF ReadSleep, readUnchanged, connVars, reqVars
<1>3. CASE ReadWake(t) /\ Ready
  BY Zenon, <1>0, <1>3, CompleteStep DEF ReadWake
<1>4. CASE ReadWake(t) /\ ~Ready
  <2>1. UNCHANGED <<holders, sb, connVars, listVars, forgets, reqVars, cur, inodeVars, granted>>
    BY Zenon, <1>4 DEF ReadWake, readUnchanged, connVars, reqVars
  <2>2. CASE run[t] = "signalled"
    BY Zenon, <1>0, <1>4, <2>1, <2>2, TaskStep DEF ReadWake
  <2>3. CASE run[t] # "signalled"
    <3>1. pc' = [pc EXCEPT ![t] = pc[t]] /\ run' = [run EXCEPT ![t] = "asleep"]
      BY Zenon, <1>0, <1>4, <2>3 DEF ReadWake
    <3>2. QED
      BY Zenon, <1>0, <1>4, <2>1, <3>1, TaskStep DEF ReadWake
  <2>4. QED
    BY Zenon, <2>2, <2>3
<1>5. CASE Signal(t)
  <2>1. pc' = [pc EXCEPT ![t] = pc[t]] /\ pc[t] \in ReadCall
    BY Zenon, <1>0, <1>5 DEF Signal
  <2>2. QED
    BY Zenon, <1>0, <1>5, <2>1, TaskStep DEF Signal
<1>6. QED
  BY Zenon, <1>1, <1>2, <1>3, <1>4, <1>5

(* fuse_request_send after a sleep on req->waitq. *)
LEMMA RequestWakeStep ==
  ASSUME IInv, NEW t \in Task, RequestWake(t)
  PROVE  IInv'
<1>0. TypeOK /\ InodeInv /\ UsersInv /\ LinksInv /\ WaitersInv /\ HandshakeInv /\ AloneInv
      /\ NoLostWakeup
  BY Zenon DEF IInv
<1>1. PICK u \in Unique : /\ u = cur[t] /\ (state[u] = "finished" \/ Linked(u))
                          /\ Fits(opcode[u], sb)
  BY Zenon, <1>0 DEF RequestWake, WaitersInv
<1>2. pc[t] = "reply" /\ "reply" \notin ReadCall /\ "user" \notin ReadCall
      /\ "sync" \notin ReadCall
  BY Zenon, FuseAssumption DEF RequestWake
<1>3. UNCHANGED <<holders, sb, connVars, listVars, forgets, granted>>
  BY Zenon DEF RequestWake
<1>4. FifoDelivery' /\ \A v : Linked(v)' <=> Linked(v)
  BY Zenon, <1>3, SameLinks DEF IInv
<1>5. (Ready' <=> Ready) /\ (MustAwaitInit' <=> MustAwaitInit)
  BY Zenon, <1>3 DEF Ready, MustAwaitInit, listVars, connVars
<1>6. CASE /\ state[u] # "finished" /\ connected
           /\ run' = [run EXCEPT ![t] = "asleep"]
           /\ UNCHANGED <<pc, cur, reqVars, inodeVars>>
  <2>1. Linked(cur[t]) /\ pc[t] = "reply" /\ connected
    BY Zenon, <1>1, <1>2, <1>6
  <2>2. \A v \in Task \ {t} : run'[v] = run[v]
    BY Zenon, <1>0, <1>6 DEF TypeOK
  <2>3. NoLostWakeup'
    <3> SUFFICES ASSUME NEW v \in Task, run'[v] = "asleep"
                 PROVE (\/ pc[v] \in ReadCall /\ ~Ready
                        \/ pc[v] \in {"init", "statfs"} /\ MustAwaitInit
                        \/ pc[v] = "reply" /\ connected /\ Linked(cur[v]))'
      BY Zenon DEF NoLostWakeup
    <3>0. (Linked(cur[v])' <=> Linked(cur[v])) /\ pc' = pc /\ cur' = cur /\ connected' = connected
      BY Zenon, <1>3, <1>4, <1>6 DEF connVars
    <3>1. CASE v = t
      BY Zenon, <2>1, <3>0, <3>1
    <3>2. CASE v # t
      BY Zenon, <1>0, <1>5, <2>2, <3>0, <3>2 DEF NoLostWakeup
    <3>3. QED
      BY Zenon, <3>1, <3>2
  <2>4. TypeOK'
    BY Zenon, <1>0, <1>3, <1>6 DEF TypeOK, connVars, listVars, reqVars, inodeVars
  <2>5. InodeInv' /\ UsersInv'
    BY Zenon, <1>0, <1>3, <1>6 DEF InodeInv, UsersInv, connVars, inodeVars
  <2>6. LinksInv' /\ HandshakeInv' /\ AloneInv'
    <3>1. \A v : Unmounts(v)' <=> Unmounts(v)
      BY Zenon, <1>6, SameUnmounts DEF reqVars
    <3>2. QED
      BY Zenon, <1>0, <1>3, <1>4, <1>6, <3>1 DEF LinksInv, HandshakeInv, AloneInv, connVars,
         reqVars, inodeVars
  <2>7. WaitersInv'
    BY Zenon, <1>0, <1>3, <1>4, <1>6 DEF WaitersInv, Fits, connVars, reqVars
  <2>8. QED
    BY Zenon, <1>4, <2>3, <2>4, <2>5, <2>6, <2>7 DEF IInv
<1>7. CASE /\ state[u] = "finished" \/ ~connected
           /\ pc' = [pc EXCEPT ![t] = IF opcode[u] = "DESTROY" THEN "sync" ELSE "user"]
           /\ cur' = [cur EXCEPT ![t] = None]
           /\ state' = [state EXCEPT ![u] = "free"]
           /\ IF state[u] = "finished" /\ reply[u] \in Node
                THEN Iget(reply[u])
                ELSE UNCHANGED inodeVars
           /\ UNCHANGED <<run, opcode, reply>>
  <2>0. ~Linked(u)
    BY Zenon, <1>0, <1>7 DEF LinksInv
  <2>1. /\ state[u] = "finished"
        /\ \A v \in Unique \ {u} : state'[v] = state[v]
        /\ state'[u] = "free"
    BY Zenon, <1>0, <1>1, <1>7, <2>0 DEF TypeOK
  <2>2. /\ pc'[t] = (IF opcode[u] = "DESTROY" THEN "sync" ELSE "user") /\ cur'[t] = None
        /\ \A v \in Task \ {t} : pc'[v] = pc[v] /\ cur'[v] = cur[v]
    BY Zenon, <1>0, <1>7 DEF TypeOK
  <2>3. \A v \in Task \ {t} : cur[v] # u
    <3>1. u # None
      BY DEF Unique, None
    <3>2. QED
      BY Zenon, <1>0, <1>1, <3>1 DEF WaitersInv
  <2>4. /\ nodeid' \in [Ino -> Node \cup {None}]
        /\ nlookup' \in [Ino -> Nat] /\ i_count' \in [Ino -> Nat]
        /\ InodeInv'
        /\ sb = "umounting" => UNCHANGED i_count
    <3>1. CASE reply[u] \notin Node
      BY Zenon, <1>0, <1>7, <3>1 DEF TypeOK, InodeInv, inodeVars
    <3>2. CASE reply[u] \in Node
      <4>1. PICK n \in Node : n = reply[u]
        BY Zenon, <3>2
      <4>2. PICK i \in Ino : i = InoOf[n]
        BY Zenon DEF Ino
      <4>3. /\ nodeid' = [nodeid EXCEPT ![i] = n]
            /\ nlookup' = [nlookup EXCEPT ![i] = @ + 1]
            /\ i_count' = [i_count EXCEPT ![i] = @ + 1]
        BY Zenon, <1>7, <2>1, <4>1, <4>2 DEF Iget
      <4>4. nodeid \in [Ino -> Node \cup {None}] /\ nlookup \in [Ino -> Nat] /\ i_count \in [Ino -> Nat]
        BY Zenon, <1>0 DEF TypeOK
      <4>5. nlookup' \in [Ino -> Nat] /\ i_count' \in [Ino -> Nat]
        BY <4>3, <4>4
      <4>6. nodeid' \in [Ino -> Node \cup {None}] /\ InodeInv'
        <5>1. nodeid' \in [Ino -> Node \cup {None}]
              /\ nodeid'[i] \in Node
              /\ \A j \in Ino \ {i} : nodeid'[j] = nodeid[j] /\ i_count'[j] = i_count[j]
          BY Zenon, <4>3, <4>4
        <5>2. QED
          BY Zenon, <1>0, <5>1 DEF InodeInv
      <4>7. sb # "umounting"
        <5>1. opcode[u] = "LOOKUP"
          BY Zenon, <1>0, <2>1, <3>2 DEF WaitersInv
        <5>2. QED
          BY Zenon, <1>1, <5>1 DEF Fits, InodeOp
      <4>8. QED
        BY Zenon, <4>5, <4>6, <4>7
    <3>3. QED
      BY Zenon, <3>1, <3>2
  <2>5. TypeOK'
    <3>1. /\ pc' \in [Task -> {"user", "init", "statfs", "reply", "sync", "stray"} \cup ReadCall]
          /\ cur' \in [Task -> Unique \cup {None}]
          /\ state' \in [Unique -> {"free", "pending", "sent", "finished"}]
      BY Zenon, <1>0, <1>7 DEF TypeOK
    <3>2. QED
      BY Zenon, <1>0, <1>3, <1>7, <2>4, <3>1 DEF TypeOK, connVars, listVars
  <2>6. UsersInv'
    <3>1. \A v \in Task : /\ pc'[v] \in ReadCall => v \in holders'
                          /\ pc'[v] = "init" => sb' = "mounted"
                          /\ pc'[v] \in {"statfs", "reply", "stray"} => sb' # "none"
                          /\ pc'[v] = "sync" => sb' = "umounting"
      BY Zenon, <1>0, <1>1, <1>2, <1>3, <2>2 DEF UsersInv, Fits
    <3>2. QED
      BY Zenon, <1>0, <1>3, <3>1 DEF UsersInv, connVars
  <2>7. LinksInv'
    <3> SUFFICES ASSUME NEW v \in Unique, Linked(v)'
                 PROVE (/\ connected /\ sb # "none"
                        /\ v <= last_unique /\ state[v] # "finished"
                        /\ opcode[v] # "INIT" => \E w \in Task : cur[w] = v)'
      BY Zenon DEF LinksInv
    <3>1. Linked(v) /\ v # u
      BY Zenon, <1>4, <2>0
    <3>2. /\ state'[v] = state[v] /\ opcode' = opcode /\ sb' = sb
          /\ last_unique' = last_unique /\ connected' = connected
      BY Zenon, <1>3, <1>7, <2>1, <3>1 DEF connVars
    <3>3. ASSUME opcode[v] # "INIT" PROVE \E w \in Task : cur'[w] = v
      <4>1. PICK w \in Task : cur[w] = v
        BY Zenon, <1>0, <3>1, <3>3 DEF LinksInv
      <4>2. w # t
        BY Zenon, <1>1, <3>1, <4>1
      <4>3. QED
        BY Zenon, <2>2, <4>1, <4>2
    <3>4. QED
      BY Zenon, <1>0, <3>1, <3>2, <3>3 DEF LinksInv
  <2>8. WaitersInv'
    <3>1. ASSUME NEW v \in Task, pc'[v] = "reply"
          PROVE  /\ cur'[v] \in Unique /\ cur'[v] <= last_unique'
                 /\ state'[cur'[v]] = "finished" \/ Linked(cur[v])'
                 /\ Fits(opcode'[cur'[v]], sb')
      <4>1. v # t
        BY Zenon, <2>2, <3>1
      <4>2. pc[v] = "reply" /\ cur'[v] = cur[v] /\ cur[v] # u
        BY Zenon, <2>2, <2>3, <3>1, <4>1
      <4>3. Linked(cur[v])' <=> Linked(cur[v])
        BY Zenon, <1>4, <4>2
      <4>4. cur[v] \in Unique /\ cur[v] <= last_unique
        BY Zenon, <1>0, <4>2 DEF WaitersInv
      <4>5. state'[cur[v]] = state[cur[v]] /\ opcode' = opcode /\ sb' = sb
            /\ last_unique' = last_unique
        BY Zenon, <1>3, <1>7, <2>1, <4>2, <4>4 DEF connVars
      <4>6. QED
        BY Zenon, <1>0, <4>2, <4>3, <4>4, <4>5 DEF WaitersInv
    <3>2. ASSUME NEW v \in Task, pc'[v] # "reply"
          PROVE  cur'[v] = None
      BY Zenon, <1>0, <2>2, <3>2 DEF WaitersInv
    <3>3. \A v \in Unique : state'[v] = "finished" /\ reply'[v] \in Node => opcode'[v] = "LOOKUP"
      BY Zenon, <1>0, <1>7, <2>1 DEF WaitersInv
    <3>4. \A v, w \in Task : cur'[v] = cur'[w] /\ cur'[v] # None => v = w
      <4> SUFFICES ASSUME NEW v \in Task, NEW w \in Task, cur'[v] = cur'[w], cur'[v] # None
                   PROVE v = w
        OBVIOUS
      <4>1. v # t /\ w # t
        BY Zenon, <2>2
      <4>2. cur'[v] = cur[v] /\ cur'[w] = cur[w]
        BY Zenon, <2>2, <4>1
      <4>3. QED
        BY Zenon, <1>0, <4>2 DEF WaitersInv
    <3>5. QED
      BY Zenon, <3>1, <3>2, <3>3, <3>4 DEF WaitersInv
  <2>9. HandshakeInv'
    BY Zenon, <1>0, <1>3, <1>4, <1>7 DEF HandshakeInv, connVars
  <2>10. AloneInv'
    <3>1. ASSUME NEW v \in Task, Unmounts(v)' PROVE Unmounts(v)
      <4>1. CASE v = t
        BY Zenon, <1>1, <1>2, <2>2, <3>1, <4>1 DEF Unmounts
      <4>2. CASE v # t
        <5>1. pc'[v] = pc[v] /\ cur'[v] = cur[v] /\ opcode' = opcode
          BY Zenon, <1>7, <2>2, <4>2
        <5>2. QED
          BY Zenon, <3>1, <5>1 DEF Unmounts
      <4>3. QED
        BY Zenon, <4>1, <4>2
    <3>2. sb = "umounting" => i_count' = i_count
      BY Zenon, <2>4
    <3>3. opcode' = opcode /\ sb' = sb
      BY Zenon, <1>3, <1>7
    <3> SUFFICES ASSUME sb = "umounting"
                 PROVE /\ \A v \in Unique : Linked(v)' => opcode'[v] \in {"DESTROY", "STATFS"}
                       /\ \A v, w \in Task : Unmounts(v)' /\ Unmounts(w)' => v = w
                       /\ \A i \in Ino : i_count'[i] = 0
      BY Zenon, <3>3 DEF AloneInv
    <3>4. \A v \in Unique : Linked(v)' => opcode'[v] \in {"DESTROY", "STATFS"}
      BY Zenon, <1>0, <1>4, <3>3 DEF AloneInv
    <3>5. \A v, w \in Task : Unmounts(v)' /\ Unmounts(w)' => v = w
      BY Zenon, <1>0, <3>1 DEF AloneInv
    <3>6. \A i \in Ino : i_count'[i] = 0
      BY Zenon, <1>0, <3>2 DEF AloneInv
    <3>7. QED
      BY Zenon, <3>4, <3>5, <3>6
  <2>11. NoLostWakeup'
    <3> SUFFICES ASSUME NEW v \in Task, run'[v] = "asleep"
                 PROVE (\/ pc[v] \in ReadCall /\ ~Ready
                        \/ pc[v] \in {"init", "statfs"} /\ MustAwaitInit
                        \/ pc[v] = "reply" /\ connected /\ Linked(cur[v]))'
      BY Zenon DEF NoLostWakeup
    <3>1. v # t
      BY Zenon, <1>7 DEF RequestWake
    <3>2. pc'[v] = pc[v] /\ cur'[v] = cur[v] /\ connected' = connected /\ run[v] = "asleep"
      BY Zenon, <1>3, <1>7, <2>2, <3>1 DEF connVars
    <3>3. Linked(cur[v])' <=> Linked(cur[v])
      BY Zenon, <1>4, <3>2
    <3>4. QED
      BY Zenon, <1>0, <1>5, <3>2, <3>3 DEF NoLostWakeup
  <2>12. QED
    BY Zenon, <1>4, <2>4, <2>5, <2>6, <2>7, <2>8, <2>9, <2>10, <2>11 DEF IInv
<1>8. QED
  BY Zenon, <1>1, <1>6, <1>7 DEF RequestWake

(* fuse_conn_abort leaves no request on a list and nobody asleep. *)
LEMMA AbortFacts ==
  ASSUME IInv, Abort, run' = WakeAll
  PROVE  /\ pending' \in Seq(Unique) /\ processing' \subseteq Unique
         /\ state' \in [Unique -> {"free", "pending", "sent", "finished"}]
         /\ reply' \in [Unique -> Node \cup {"ok", "error"}]
         /\ run' \in [Task -> {"running", "asleep", "signalled"}]
         /\ init_error' \in BOOLEAN
         /\ \A u : ~Linked(u)'
         /\ \A t \in Task : run'[t] # "asleep"
         /\ \A t \in Task : pc[t] = "reply" => state'[cur[t]] = "finished"
         /\ \A u \in Unique : state'[u] = "finished" /\ reply'[u] \in Node => opcode[u] = "LOOKUP"
         /\ FifoDelivery'
         /\ sb = "none" => ~initialized /\ ~init_error'
         /\ ~(initialized /\ init_error')
<1>0. TypeOK /\ LinksInv /\ WaitersInv /\ HandshakeInv /\ NoLostWakeup
  BY Zenon DEF IInv
<1>1. pending' = <<>> /\ processing' = {}
  BY Zenon DEF Abort, UnlinkAll
<1>2. pending' \in Seq(Unique) /\ Len(pending') = 0
  BY <1>1
<1>3. (\A u : ~Linked(u)') /\ FifoDelivery'
  BY <1>1, <1>2 DEF Linked, OnPending, FifoDelivery
<1>4. /\ state' \in [Unique -> {"free", "pending", "sent", "finished"}]
      /\ reply' \in [Unique -> Node \cup {"ok", "error"}]
      /\ init_error' \in BOOLEAN
  BY Zenon, <1>0 DEF Abort, TypeOK
<1>5. \A u \in Unique : IF u \in Outstanding
                          THEN /\ reply'[u] = "error"
                               /\ opcode[u] # "INIT" => state'[u] = "finished"
                          ELSE state'[u] = state[u] /\ reply'[u] = reply[u]
  BY Zenon DEF Abort
<1>6. ASSUME NEW t \in Task, pc[t] = "reply" PROVE state'[cur[t]] = "finished"
  <2>1. /\ cur[t] \in Unique /\ opcode[cur[t]] # "INIT"
        /\ state[cur[t]] = "finished" \/ Linked(cur[t])
    BY Zenon, <1>0, <1>6 DEF WaitersInv, Fits
  <2>2. QED
    BY Zenon, <1>5, <2>1 DEF Outstanding
<1>7. ASSUME NEW t \in Task PROVE run'[t] # "asleep"
  <2>1. run'[t] = IF run[t] = "asleep" /\ t \in Readers \cup AwaitInit \cup AwaitReply(Outstanding)
                    THEN "running" ELSE run[t]
    BY Zenon DEF WakeAll, Woken
  <2>2. ASSUME run[t] = "asleep" PROVE t \in Readers \cup AwaitInit \cup AwaitReply(Outstanding)
    <3>1. CASE pc[t] \in ReadCall
      BY Zenon, <3>1 DEF Readers
    <3>2. CASE pc[t] \in {"init", "statfs"}
      BY Zenon, <3>2 DEF AwaitInit
    <3>3. CASE pc[t] = "reply" /\ Linked(cur[t])
      <4>1. cur[t] \in Outstanding
        BY Zenon, <1>0, <3>3 DEF WaitersInv, Outstanding
      <4>2. QED
        BY Zenon, <3>3, <4>1 DEF AwaitReply
    <3>4. QED
      BY Zenon, <1>0, <2>2, <3>1, <3>2, <3>3 DEF NoLostWakeup
  <2>3. QED
    BY Zenon, <2>1, <2>2
<1>8. run' \in [Task -> {"running", "asleep", "signalled"}]
  BY Zenon, <1>0 DEF WakeAll, Woken, TypeOK
<1>9. \A u \in Unique : state'[u] = "finished" /\ reply'[u] \in Node => opcode[u] = "LOOKUP"
  <2>1. "error" \notin Node
    BY Zenon, FuseAssumption
  <2>2. QED
    BY Zenon, <1>0, <1>5, <2>1 DEF WaitersInv
<1>10. (sb = "none" => ~initialized /\ ~init_error') /\ ~(initialized /\ init_error')
  BY Zenon, <1>0 DEF Abort, Outstanding, HandshakeInv, LinksInv
<1>11. QED
  BY Zenon, <1>1, <1>2, <1>3, <1>4, <1>6, <1>7, <1>8, <1>9, <1>10

(* The reference that the mount holds is dropped when the others in the file system, if any, are in
   sys_ustat. *)
LEMMA PutSuperStep ==
  ASSUME IInv, NEW t \in Task, PutSuper(t), sb \in {"mounted", "umounting"},
         pc[t] # "reply",
         \A v \in Task \ {t} : ~HoldsInode(v) /\ ~Unmounts(v)
  PROVE  IInv'
<1>0. TypeOK /\ InodeInv /\ UsersInv /\ WaitersInv
  BY Zenon DEF IInv
<1>1. /\ Abort /\ run' = WakeAll
      /\ mounted' = FALSE /\ sb' = "gone" /\ connected' = FALSE
      /\ pc' = [pc EXCEPT ![t] = "user"]
      /\ UNCHANGED <<initialized, last_unique, opcode, holders, cur, inodeVars, granted>>
  BY Zenon DEF PutSuper, Abort
<1>2. /\ pending' \in Seq(Unique) /\ processing' \subseteq Unique
      /\ state' \in [Unique -> {"free", "pending", "sent", "finished"}]
      /\ reply' \in [Unique -> Node \cup {"ok", "error"}]
      /\ run' \in [Task -> {"running", "asleep", "signalled"}]
      /\ init_error' \in BOOLEAN
      /\ \A u : ~Linked(u)'
      /\ \A v \in Task : run'[v] # "asleep"
      /\ \A v \in Task : pc[v] = "reply" => state'[cur[v]] = "finished"
      /\ \A u \in Unique : state'[u] = "finished" /\ reply'[u] \in Node => opcode[u] = "LOOKUP"
      /\ FifoDelivery'
      /\ ~(initialized /\ init_error')
  BY Zenon, <1>1, AbortFacts
<1>3. "user" \notin ReadCall
  BY Zenon, FuseAssumption
<1>4. pc'[t] = "user" /\ \A v \in Task \ {t} : pc'[v] = pc[v]
  BY Zenon, <1>0, <1>1 DEF TypeOK
<1>5. /\ refcount' \in Nat
      /\ refcount' = IF holders # {} THEN 1 ELSE 0
      /\ forgets' # <<>> => refcount' > 0
  BY <1>0 DEF PutSuper, ConnPut, UsersInv
<1>6. forgets' \in Seq([nodeid : Node, nlookup : Nat \ {0}])
  <2>1. <<>> \in Seq([nodeid : Node, nlookup : Nat \ {0}])
    OBVIOUS
  <2>2. QED
    BY Zenon, <1>0, <2>1 DEF PutSuper, ConnPut, TypeOK
<1>7. TypeOK'
  <2>1. pc' \in [Task -> {"user", "init", "statfs", "reply", "sync", "stray"} \cup ReadCall]
    BY Zenon, <1>0, <1>1 DEF TypeOK
  <2>2. QED
    BY Zenon, <1>0, <1>1, <1>2, <1>5, <1>6, <2>1 DEF TypeOK, inodeVars
<1>8. InodeInv'
  BY Zenon, <1>0, <1>1 DEF InodeInv, inodeVars
<1>9. UsersInv'
  <2>1. refcount' = (IF holders' # {} THEN 1 ELSE 0)
                    + (IF sb' \in {"mounted", "umounting"} THEN 1 ELSE 0)
    BY <1>1, <1>5
  <2>2. \A v \in Task : /\ pc'[v] \notin {"init", "sync"}
                        /\ pc'[v] \in ReadCall => v \in holders'
    BY Zenon, <1>0, <1>1, <1>3, <1>4 DEF UsersInv, HoldsInode, Unmounts
  <2>3. QED
    BY Zenon, <1>1, <1>5, <2>1, <2>2 DEF UsersInv
<1>10. LinksInv' /\ HandshakeInv' /\ AloneInv' /\ NoLostWakeup'
  BY Zenon, <1>1, <1>2 DEF LinksInv, HandshakeInv, AloneInv, NoLostWakeup
<1>11. WaitersInv'
  <2>1. ASSUME NEW v \in Task, pc'[v] = "reply"
        PROVE  /\ cur[v] \in Unique /\ cur[v] <= last_unique
               /\ state'[cur[v]] = "finished"
               /\ Fits(opcode[cur[v]], "gone")
    <3>1. v # t /\ pc[v] = "reply" /\ ~HoldsInode(v) /\ ~Unmounts(v)
      BY Zenon, <1>4, <2>1
    <3>2. Fits(opcode[cur[v]], sb)
      BY Zenon, <1>0, <3>1 DEF WaitersInv
    <3>3. Fits(opcode[cur[v]], "gone")
      BY Zenon, <3>1, <3>2 DEF Fits, HoldsInode, Unmounts
    <3>4. QED
      BY Zenon, <1>0, <1>2, <3>1, <3>3 DEF WaitersInv
  <2>2. ASSUME NEW v \in Task, pc'[v] # "reply" PROVE cur[v] = None
    BY Zenon, <1>0, <1>4, <2>2 DEF WaitersInv
  <2>3. UNCHANGED <<cur, last_unique, opcode>> /\ sb' = "gone"
    BY Zenon, <1>1
  <2>4. QED
    BY Zenon, <1>0, <1>2, <2>1, <2>2, <2>3 DEF WaitersInv
<1>12. QED
  BY Zenon, <1>2, <1>7, <1>8, <1>9, <1>10, <1>11 DEF IInv

(* do_umount, with or without FUSE_DESTROY. *)
LEMMA UmountStep ==
  ASSUME IInv, NEW t \in Task, Umount(t) \/ UmountSync(t)
  PROVE  IInv'
<1>0. UsersInv /\ WaitersInv /\ AloneInv /\ HandshakeInv
  BY Zenon DEF IInv
<1>1. CASE Umount(t) /\ connected /\ initialized
  <2>1. ~init_error
    BY Zenon, <1>0, <1>1 DEF HandshakeInv
  <2>2. QED
    BY Zenon, <1>1, <2>1, EnqueueStep DEF Umount
<1>2. CASE Umount(t) /\ ~(connected /\ initialized)
  <2>1. PutSuper(t) /\ sb = "mounted" /\ MayUmount /\ pc[t] = "user"
    BY Zenon, <1>2 DEF Umount
  <2>2. \A v \in Task \ {t} : ~HoldsInode(v) /\ ~Unmounts(v)
    BY Zenon, <1>0, <2>1 DEF MayUmount, Unmounts, UsersInv, WaitersInv, Fits
  <2>3. QED
    BY Zenon, <2>1, <2>2, PutSuperStep
<1>3. CASE UmountSync(t)
  <2>1. PutSuper(t) /\ pc[t] = "sync" /\ sb = "umounting"
    BY Zenon, <1>0, <1>3 DEF UmountSync, UsersInv
  <2>2. \A v \in Task \ {t} : ~Unmounts(v)
    BY Zenon, <1>0, <2>1 DEF AloneInv, Unmounts
  <2>3. \A v \in Task : ~HoldsInode(v)
    BY Zenon, <1>0, <2>1 DEF HoldsInode, UsersInv, WaitersInv, Fits
  <2>4. QED
    BY Zenon, <2>1, <2>2, <2>3, PutSuperStep
<1>4. QED
  BY Zenon, <1>1, <1>2, <1>3

(* The descriptor is shared, or closed for good or not. *)
LEMMA FileStep ==
  ASSUME IInv, NEW t \in Task, File(t)
  PROVE  IInv'
<1>0. TypeOK /\ InodeInv /\ UsersInv /\ LinksInv /\ WaitersInv /\ HandshakeInv /\ AloneInv
      /\ NoLostWakeup
  BY Zenon DEF IInv
<1>1. "user" \notin ReadCall
  BY Zenon, FuseAssumption
<1>2. ASSUME UNCHANGED <<sb, connVars, listVars, forgets, reqVars, taskVars, inodeVars, granted>>,
             holders # {}, holders' # {}, holders' \subseteq Task,
             \A v \in holders \ holders' : pc[v] = "user"
      PROVE  IInv'
  <2>1. FifoDelivery' /\ \A v : Linked(v)' <=> Linked(v)
    BY Zenon, <1>2, SameLinks DEF IInv
  <2>2. TypeOK'
    BY Zenon, <1>0, <1>2 DEF TypeOK, connVars, listVars, reqVars, taskVars, inodeVars
  <2>3. InodeInv'
    BY Zenon, <1>0, <1>2 DEF InodeInv, inodeVars
  <2>4. UsersInv'
    <3>1. \A v \in Task : pc'[v] \in ReadCall => v \in holders'
      BY Zenon, <1>0, <1>1, <1>2 DEF UsersInv, taskVars
    <3>2. refcount' = (IF holders' # {} THEN 1 ELSE 0)
                      + (IF sb' \in {"mounted", "umounting"} THEN 1 ELSE 0)
      BY Zenon, <1>0, <1>2 DEF UsersInv, connVars
    <3>3. QED
      BY Zenon, <1>0, <1>2, <3>1, <3>2 DEF UsersInv, connVars, taskVars
  <2>5. LinksInv' /\ HandshakeInv' /\ AloneInv'
    <3>1. LinksInv' /\ HandshakeInv'
      BY Zenon, <1>0, <1>2, <2>1 DEF LinksInv, HandshakeInv, connVars, reqVars, taskVars
    <3>2. \A v : Unmounts(v)' <=> Unmounts(v)
      BY Zenon, <1>2, SameUnmounts DEF reqVars, taskVars
    <3>3. AloneInv'
      BY Zenon, <1>0, <1>2, <2>1, <3>2 DEF AloneInv, reqVars, inodeVars
    <3>4. QED
      BY Zenon, <3>1, <3>3
  <2>6. WaitersInv'
    BY Zenon, <1>0, <1>2, <2>1 DEF WaitersInv, Fits, connVars, reqVars, taskVars
  <2>7. NoLostWakeup'
    BY Zenon, <1>0, <1>2, <2>1 DEF NoLostWakeup, Ready, MustAwaitInit, connVars, listVars, taskVars
  <2>8. QED
    BY Zenon, <2>1, <2>2, <2>3, <2>4, <2>5, <2>6, <2>7 DEF IInv
<1>3. ASSUME NEW u \in Task, Share(t, u) PROVE IInv'
  BY Zenon, <1>0, <1>2, <1>3 DEF Share, TypeOK
<1>4. CASE Close(t) /\ holders # {t}
  BY Zenon, <1>0, <1>2, <1>4 DEF Close, TypeOK, taskVars
<1>5. CASE Close(t) /\ holders = {t}
  <2>1. /\ Abort /\ ConnPut /\ run' = WakeAll
        /\ connected' = FALSE /\ holders' = {} /\ pc[t] = "user"
        /\ UNCHANGED <<initialized, last_unique, opcode, mounted, sb, pc, cur, inodeVars, granted>>
    BY Zenon, <1>5 DEF Close, Abort
  <2>2. /\ pending' \in Seq(Unique) /\ processing' \subseteq Unique
        /\ state' \in [Unique -> {"free", "pending", "sent", "finished"}]
        /\ reply' \in [Unique -> Node \cup {"ok", "error"}]
        /\ run' \in [Task -> {"running", "asleep", "signalled"}]
        /\ init_error' \in BOOLEAN
        /\ \A u : ~Linked(u)'
        /\ \A v \in Task : run'[v] # "asleep"
        /\ \A v \in Task : pc[v] = "reply" => state'[cur[v]] = "finished"
        /\ \A u \in Unique : state'[u] = "finished" /\ reply'[u] \in Node => opcode[u] = "LOOKUP"
        /\ FifoDelivery'
        /\ sb = "none" => ~initialized /\ ~init_error'
        /\ ~(initialized /\ init_error')
    BY Zenon, <2>1, AbortFacts
  <2>3. /\ refcount' \in Nat
        /\ refcount' = IF sb \in {"mounted", "umounting"} THEN 1 ELSE 0
        /\ forgets' # <<>> => refcount' > 0
    BY <1>0, <1>5, <2>1 DEF ConnPut, UsersInv
  <2>4. forgets' \in Seq([nodeid : Node, nlookup : Nat \ {0}])
    <3>1. <<>> \in Seq([nodeid : Node, nlookup : Nat \ {0}])
      OBVIOUS
    <3>2. QED
      BY Zenon, <1>0, <2>1, <3>1 DEF ConnPut, TypeOK
  <2>5. TypeOK'
    BY Zenon, <1>0, <2>1, <2>2, <2>3, <2>4 DEF TypeOK, inodeVars
  <2>6. InodeInv'
    BY Zenon, <1>0, <2>1 DEF InodeInv, inodeVars
  <2>7. UsersInv'
    <3>1. refcount' = (IF holders' # {} THEN 1 ELSE 0)
                      + (IF sb' \in {"mounted", "umounting"} THEN 1 ELSE 0)
      BY <2>1, <2>3
    <3>2. \A v \in Task : pc'[v] \notin ReadCall
      BY Zenon, <1>0, <1>1, <1>5, <2>1 DEF UsersInv
    <3>3. QED
      BY Zenon, <1>0, <2>1, <2>3, <3>1, <3>2 DEF UsersInv
  <2>8. LinksInv' /\ HandshakeInv' /\ AloneInv' /\ NoLostWakeup'
    <3>1. LinksInv' /\ HandshakeInv' /\ NoLostWakeup'
      BY Zenon, <1>0, <2>1, <2>2 DEF LinksInv, HandshakeInv, NoLostWakeup
    <3>2. \A v : Unmounts(v)' <=> Unmounts(v)
      BY Zenon, <2>1, SameUnmounts
    <3>3. AloneInv'
      BY Zenon, <1>0, <2>1, <2>2, <3>2 DEF AloneInv, inodeVars
    <3>4. QED
      BY Zenon, <3>1, <3>3
  <2>9. WaitersInv'
    <3>1. \A v \in Task : pc[v] = "reply" => state'[cur'[v]] = "finished"
      BY Zenon, <2>1, <2>2
    <3>2. QED
      BY ZenonT(40), <1>0, <2>1, <2>2, <3>1 DEF WaitersInv
  <2>10. QED
    BY Zenon, <2>2, <2>5, <2>6, <2>7, <2>8, <2>9 DEF IInv
<1>6. QED
  BY Zenon, <1>3, <1>4, <1>5 DEF File

(* fuse_read_super with fuse_send_init. *)
LEMMA MountStep ==
  ASSUME IInv, NEW t \in Task, Mount(t)
  PROVE  IInv'
<1>0. TypeOK /\ InodeInv /\ UsersInv /\ LinksInv /\ WaitersInv /\ HandshakeInv
      /\ NoLostWakeup
  BY Zenon DEF IInv
<1>1. /\ holders # {} /\ sb = "none" /\ connected /\ ~initialized /\ ~init_error
      /\ sb' = "mounted" /\ mounted' = TRUE /\ refcount' = refcount + 1
      /\ UNCHANGED <<holders, connected, initialized, processing, forgets, reply, pc, cur,
                     inodeVars, granted>>
  BY Zenon, <1>0 DEF Mount, HandshakeInv
<1>2. \A u \in Unique : ~Linked(u)
  BY Zenon, <1>0, <1>1 DEF LinksInv
<1>3. pending = <<>> /\ processing = {}
  <2>1. ASSUME pending # <<>> PROVE FALSE
    <3>1. 1 \in 1 .. Len(pending) /\ pending[1] \in Unique
      BY <1>0, <2>1 DEF TypeOK
    <3>2. QED
      BY Zenon, <1>2, <3>1 DEF Linked, OnPending
  <2>2. QED
    BY Zenon, <1>0, <1>2, <2>1 DEF TypeOK, Linked
<1>4. \A v \in Task : /\ pc[v] \notin {"init", "statfs", "reply", "sync", "stray"}
                      /\ cur[v] = None
  BY Zenon, <1>0, <1>1 DEF UsersInv, WaitersInv
<1>5. refcount' \in Nat /\ refcount' = 2
  BY <1>0, <1>1 DEF UsersInv, TypeOK
<1>6. UsersInv'
  <2>1. refcount' > 0 /\ refcount' = (IF holders' # {} THEN 1 ELSE 0)
                                     + (IF sb' \in {"mounted", "umounting"} THEN 1 ELSE 0)
    BY <1>1, <1>5
  <2>2. QED
    BY Zenon, <1>0, <1>1, <1>4, <2>1 DEF UsersInv
<1>7. InodeInv' /\ AloneInv'
  BY Zenon, <1>0, <1>1 DEF InodeInv, inodeVars, AloneInv
<1>8. CASE /\ init_error' = TRUE
           /\ UNCHANGED <<last_unique, opcode, state, pending, run>>
  <2>1. FifoDelivery' /\ \A v : Linked(v)' <=> Linked(v)
    BY Zenon, <1>1, <1>8, SameLinks DEF IInv, listVars
  <2>2. TypeOK'
    BY Zenon, <1>0, <1>1, <1>5, <1>8 DEF TypeOK, inodeVars
  <2>3. LinksInv' /\ HandshakeInv'
    BY Zenon, <1>1, <1>2, <2>1 DEF LinksInv, HandshakeInv
  <2>4. WaitersInv'
    BY Zenon, <1>0, <1>1, <1>4, <1>8 DEF WaitersInv
  <2>5. NoLostWakeup'
    BY Zenon, <1>0, <1>1, <1>4, <1>8 DEF NoLostWakeup, Ready
  <2>6. QED
    BY Zenon, <1>6, <1>7, <2>1, <2>2, <2>3, <2>4, <2>5 DEF IInv
<1>9. CASE /\ last_unique' = last_unique + 1
           /\ opcode' = [opcode EXCEPT ![last_unique + 1] = "INIT"]
           /\ state' = [state EXCEPT ![last_unique + 1] = "pending"]
           /\ pending' = Queued(last_unique + 1, TRUE)
           /\ run' = Woken(Readers)
           /\ UNCHANGED init_error
  <2>1. PICK u \in Unique : u = last_unique + 1 /\ u \in 0 .. MaxUnique
    <3>1. last_unique \in 0 .. MaxUnique /\ last_unique < MaxUnique
      BY Zenon, <1>0 DEF Mount, TypeOK
    <3>2. last_unique + 1 \in 1 .. MaxUnique /\ last_unique + 1 \in 0 .. MaxUnique
      BY <3>1, FuseAssumption
    <3> QED BY Zenon, <3>2 DEF Unique
  <2>2. /\ last_unique' = u /\ opcode' = [opcode EXCEPT ![u] = "INIT"]
        /\ state' = [state EXCEPT ![u] = "pending"] /\ pending' = <<u>> \o <<>>
    BY Zenon, <1>3, <1>9, <2>1 DEF Queued
  <2>3. /\ pending' \in Seq(Unique) /\ pending' # <<>> /\ Len(pending') = 1 /\ pending'[1] = u
    BY Zenon, <2>2, ConsFacts
  <2>4. (\A v : Linked(v)' <=> v = u) /\ FifoDelivery'
    BY <1>1, <1>3, <2>3 DEF Linked, OnPending, FifoDelivery
  <2>5. /\ opcode'[u] = "INIT" /\ state'[u] = "pending"
        /\ \A v \in Unique \ {u} : opcode'[v] = opcode[v] /\ state'[v] = state[v]
    BY Zenon, <1>0, <2>2 DEF TypeOK
  <2>6. TypeOK'
    <3>1. run' \in [Task -> {"running", "asleep", "signalled"}]
      BY Zenon, <1>0, <1>9 DEF Woken, TypeOK
    <3>2. /\ opcode' \in [Unique -> CallOp \cup {"INIT", "DESTROY"}]
          /\ state' \in [Unique -> {"free", "pending", "sent", "finished"}]
      BY Zenon, <1>0, <2>2 DEF TypeOK
    <3>3. UNCHANGED init_error /\ last_unique' \in 0 .. MaxUnique
      BY Zenon, <1>9, <2>1, <2>2
    <3>4. QED
      BY Zenon, <1>0, <1>1, <1>5, <2>3, <3>1, <3>2, <3>3 DEF TypeOK, inodeVars
  <2>7. LinksInv'
    <3>1. u <= last_unique'
      BY <2>1, <2>2
    <3>2. QED
      BY Zenon, <1>1, <2>4, <2>5, <3>1 DEF LinksInv
  <2>8. HandshakeInv'
    <3>1. ~initialized' /\ ~init_error' /\ sb' # "none"
      BY Zenon, <1>1, <1>9
    <3>2. \A v \in Unique : Linked(v)' => v = u
      BY Zenon, <2>4
    <3>3. QED
      BY Zenon, <2>5, <3>1, <3>2 DEF HandshakeInv
  <2>9. WaitersInv'
    BY Zenon, <1>0, <1>1, <1>4, <2>5 DEF WaitersInv
  <2>10. NoLostWakeup'
    <3>1. \A v \in Task : run'[v] # "asleep"
      BY Zenon, <1>0, <1>4, <1>9 DEF NoLostWakeup, Woken, Readers
    <3>2. QED
      BY Zenon, <3>1 DEF NoLostWakeup
  <2>11. QED
    BY Zenon, <1>6, <1>7, <2>4, <2>6, <2>7, <2>8, <2>9, <2>10 DEF IInv
<1>10. QED
  BY Zenon, <1>8, <1>9 DEF Mount

(* fuse_dev_writev. *)
LEMMA WriteStep ==
  ASSUME IInv, NEW t \in Task, NEW u \in Unique, NEW r \in Node \cup {"ok", "error"},
         Write(t, u, r)
  PROVE  IInv'
<1>0. TypeOK /\ InodeInv /\ UsersInv /\ LinksInv /\ WaitersInv /\ HandshakeInv /\ AloneInv
      /\ NoLostWakeup
  BY Zenon DEF IInv
<1>1. /\ connected /\ u \in processing /\ processing' = processing \ {u}
      /\ reply' = [reply EXCEPT ![u] = r]
      /\ r \in Node => opcode[u] = "LOOKUP"
      /\ UNCHANGED <<holders, sb, refcount, mounted, connected, last_unique, pending, forgets,
                     opcode, pc, cur, inodeVars>>
  BY Zenon DEF Write
<1>2. /\ processing' \subseteq Unique
      /\ \A v : Linked(v)' <=> Linked(v) /\ v # u
      /\ FifoDelivery'
      /\ Linked(u)
  BY Zenon, <1>1, AnswerLinks
<1>3. /\ reply'[u] = r /\ \A v \in Unique \ {u} : reply'[v] = reply[v]
      /\ reply' \in [Unique -> Node \cup {"ok", "error"}]
  BY Zenon, <1>0, <1>1 DEF TypeOK
<1>4. PICK s \in {"free", "finished"} :
        /\ state' = [state EXCEPT ![u] = s]
        /\ s = "free" <=> opcode[u] = "INIT"
  BY Zenon DEF Write, InitReply, CallReply
<1>5. /\ state'[u] = s /\ \A v \in Unique \ {u} : state'[v] = state[v]
      /\ state' \in [Unique -> {"free", "pending", "sent", "finished"}]
  BY Zenon, <1>0, <1>4 DEF TypeOK
<1>6. /\ \A v \in Unique : opcode[v] = "INIT" => ~Linked(v)'
      /\ initialized' \in BOOLEAN /\ init_error' \in BOOLEAN
      /\ ~(initialized' /\ init_error')
      /\ opcode[u] # "INIT" => UNCHANGED <<initialized, init_error>>
      /\ \A v \in Unique : Linked(v)' => initialized' /\ ~init_error'
  <2>1. \A v \in Unique : opcode[v] = "INIT" => ~Linked(v)'
    BY Zenon, <1>0, <1>2 DEF HandshakeInv
  <2>2. CASE opcode[u] = "INIT"
    <3>1. ~initialized /\ ~init_error
      BY Zenon, <1>0, <1>2, <2>2 DEF HandshakeInv
    <3>2. initialized' = (initialized \/ r = "ok") /\ init_error' = (init_error \/ r = "error")
      BY Zenon, <2>2 DEF Write, InitReply
    <3>3. initialized' \in BOOLEAN /\ init_error' \in BOOLEAN /\ ~(initialized' /\ init_error')
      BY Zenon, <3>1, <3>2
    <3>4. \A v \in Unique : ~Linked(v)'
      BY Zenon, <1>0, <1>2, <2>2, <3>1 DEF HandshakeInv
    <3>5. QED
      BY Zenon, <2>1, <2>2, <3>3, <3>4
  <2>3. CASE opcode[u] # "INIT"
    <3>1. UNCHANGED <<initialized, init_error>>
      BY Zenon, <2>3 DEF Write, CallReply
    <3>2. QED
      BY Zenon, <1>0, <1>2, <2>1, <2>3, <3>1 DEF HandshakeInv, TypeOK
  <2>4. QED
    BY Zenon, <2>2, <2>3
<1>7. granted' \in [Node -> Int]
  <2>1. granted \in [Node -> Int]
    BY Zenon, <1>0 DEF TypeOK
  <2>2. \/ UNCHANGED granted
        \/ r \in Node /\ granted' = [granted EXCEPT ![r] = @ + 1]
    BY Zenon DEF Write, InitReply, CallReply
  <2>3. QED
    BY <2>1, <2>2
<1>8. PICK S : /\ run' = Woken(S)
               /\ opcode[u] = "INIT" => S = AwaitInit
               /\ opcode[u] # "INIT" => S = AwaitReply({u})
  <2>1. CASE opcode[u] = "INIT"
    <3>1. run' = Woken(AwaitInit)
      BY Zenon, <2>1 DEF Write, InitReply
    <3>2. QED
      BY Zenon, <2>1, <3>1
  <2>2. CASE opcode[u] # "INIT"
    <3>1. run' = Woken(AwaitReply({u}))
      BY Zenon, <2>2 DEF Write, CallReply
    <3>2. QED
      BY Zenon, <2>2, <3>1
  <2>3. QED
    BY Zenon, <2>1, <2>2
<1>9. /\ run' \in [Task -> {"running", "asleep", "signalled"}]
      /\ \A v \in Task : run'[v] = "asleep" => run[v] = "asleep" /\ v \notin S
  BY Zenon, <1>0, <1>8 DEF Woken, TypeOK
<1>10. TypeOK'
  BY Zenon, <1>0, <1>1, <1>2, <1>3, <1>5, <1>6, <1>7, <1>9 DEF TypeOK, inodeVars
<1>11. InodeInv' /\ UsersInv'
  BY Zenon, <1>0, <1>1 DEF InodeInv, UsersInv, inodeVars
<1>12. LinksInv'
  BY Zenon, <1>0, <1>1, <1>2, <1>5 DEF LinksInv
<1>13. WaitersInv'
  <2>1. ASSUME NEW v \in Task, pc[v] = "reply"
        PROVE  /\ cur[v] \in Unique /\ cur[v] <= last_unique
               /\ state'[cur[v]] = "finished" \/ Linked(cur[v])'
               /\ Fits(opcode[cur[v]], sb)
    <3>1. PICK w \in Unique : w = cur[v] /\ (state[w] = "finished" \/ Linked(w))
                              /\ opcode[w] # "INIT"
      BY Zenon, <1>0, <2>1 DEF WaitersInv, Fits
    <3>2. state'[w] = "finished" \/ Linked(w)'
      <4>1. CASE w = u
        BY Zenon, <1>4, <1>5, <3>1, <4>1
      <4>2. CASE w # u
        BY Zenon, <1>2, <1>5, <3>1, <4>2
      <4>3. QED
        BY Zenon, <4>1, <4>2
    <3>3. cur'[v] = w
      BY Zenon, <1>1, <3>1
    <3>4. QED
      BY Zenon, <1>0, <2>1, <3>1, <3>2, <3>3 DEF WaitersInv
  <2>2. \A v \in Unique : state'[v] = "finished" /\ reply'[v] \in Node => opcode[v] = "LOOKUP"
    BY Zenon, <1>0, <1>1, <1>3, <1>5 DEF WaitersInv
  <2>3. QED
    BY Zenon, <1>0, <1>1, <2>1, <2>2 DEF WaitersInv
<1>14. HandshakeInv'
  <2>1. sb # "none"
    BY Zenon, <1>0, <1>2 DEF LinksInv
  <2>2. QED
    BY Zenon, <1>1, <1>6, <2>1 DEF HandshakeInv
<1>15. AloneInv'
  <2>1. \A v : Unmounts(v)' <=> Unmounts(v)
    BY Zenon, <1>1, SameUnmounts
  <2>2. QED
    BY Zenon, <1>0, <1>1, <1>2, <2>1 DEF AloneInv, inodeVars
<1>16. NoLostWakeup'
  <2> SUFFICES ASSUME NEW v \in Task, run'[v] = "asleep"
               PROVE (\/ pc[v] \in ReadCall /\ ~Ready
                      \/ pc[v] \in {"init", "statfs"} /\ MustAwaitInit
                      \/ pc[v] = "reply" /\ connected /\ Linked(cur[v]))'
    BY Zenon DEF NoLostWakeup
  <2>1. run[v] = "asleep" /\ v \notin S
    BY Zenon, <1>9
  <2>2. CASE pc[v] \in ReadCall /\ ~Ready
    BY Zenon, <1>1, <2>2 DEF Ready
  <2>3. CASE pc[v] \in {"init", "statfs"} /\ MustAwaitInit
    <3>1. opcode[u] # "INIT"
      BY Zenon, <1>8, <2>1, <2>3 DEF AwaitInit
    <3>2. QED
      BY Zenon, <1>1, <1>6, <2>3, <3>1 DEF MustAwaitInit
  <2>4. CASE pc[v] = "reply" /\ connected /\ Linked(cur[v])
    <3>1. PICK w \in Unique : w = cur[v] /\ opcode[w] # "INIT"
      BY Zenon, <1>0, <2>4 DEF WaitersInv, Fits
    <3>2. w # u
      BY Zenon, <1>8, <2>1, <2>4, <3>1 DEF AwaitReply
    <3>3. cur'[v] = w /\ Linked(w)'
      BY Zenon, <1>1, <1>2, <2>4, <3>1, <3>2
    <3>4. QED
      BY Zenon, <1>1, <2>4, <3>3
  <2>5. QED
    BY Zenon, <1>0, <2>1, <2>2, <2>3, <2>4 DEF NoLostWakeup
<1>17. QED
  BY Zenon, <1>2, <1>10, <1>11, <1>12, <1>13, <1>14, <1>15, <1>16 DEF IInv

(* iput, with fuse_put_inode and fuse_queue_forget for the last user. *)
LEMMA IputStep ==
  ASSUME IInv, NEW i \in Ino, Iput(i)
  PROVE  IInv'
<1>0. TypeOK /\ InodeInv /\ UsersInv /\ LinksInv /\ WaitersInv /\ HandshakeInv /\ AloneInv
      /\ NoLostWakeup
  BY Zenon DEF IInv
<1>1. /\ i_count[i] > 0
      /\ i_count' = [i_count EXCEPT ![i] = @ - 1]
      /\ UNCHANGED <<holders, sb, connVars, listVars, reqVars, pc, cur, granted>>
  BY Zenon DEF Iput
<1>2. nodeid[i] \in Node /\ sb # "umounting"
  <2>1. i_count[i] # 0
    BY <1>1
  <2>2. QED
    BY Zenon, <1>0, <1>1, <2>1 DEF InodeInv, AloneInv
<1>3. FifoDelivery' /\ \A v : Linked(v)' <=> Linked(v)
  BY Zenon, <1>1, SameLinks DEF IInv
<1>4. nodeid \in [Ino -> Node \cup {None}] /\ nlookup \in [Ino -> Nat] /\ i_count \in [Ino -> Nat]
  BY Zenon, <1>0 DEF TypeOK
<1>5. /\ i_count' \in [Ino -> Nat]
      /\ i_count'[i] = i_count[i] - 1
      /\ \A j \in Ino \ {i} : i_count'[j] = i_count[j]
  BY <1>1, <1>4
<1>6. /\ nodeid' \in [Ino -> Node \cup {None}] /\ nlookup' \in [Ino -> Nat]
      /\ InodeInv'
  <2>1. CASE i_count[i] = 1
    <3>1. nodeid' = [nodeid EXCEPT ![i] = None] /\ nlookup' = [nlookup EXCEPT ![i] = 0]
      BY Zenon, <2>1 DEF Iput, PutInode
    <3>2. nlookup' \in [Ino -> Nat] /\ ~(i_count'[i] > 0)
      BY <1>4, <1>5, <2>1, <3>1
    <3>3. /\ nodeid' \in [Ino -> Node \cup {None}]
          /\ \A j \in Ino \ {i} : nodeid'[j] = nodeid[j]
      BY Zenon, <1>4, <3>1
    <3>4. QED
      BY Zenon, <1>0, <1>5, <3>2, <3>3 DEF InodeInv
  <2>2. CASE i_count[i] # 1
    <3>1. UNCHANGED <<nodeid, nlookup>>
      BY Zenon, <2>2 DEF Iput
    <3>2. QED
      BY Zenon, <1>0, <1>2, <1>4, <1>5, <3>1 DEF InodeInv
  <2>3. QED
    BY Zenon, <2>1, <2>2
<1>7. \/ UNCHANGED <<forgets, run>>
      \/ /\ connected /\ nlookup[i] > 0
         /\ forgets' = Append(forgets, [nodeid |-> nodeid[i], nlookup |-> nlookup[i]])
         /\ run' = Woken(Readers)
  BY Zenon DEF Iput, PutInode, QueueForget
<1>8. /\ forgets' \in Seq([nodeid : Node, nlookup : Nat \ {0}])
      /\ run' \in [Task -> {"running", "asleep", "signalled"}]
      /\ forgets' # <<>> => refcount > 0
      /\ \A v \in Task : run'[v] = "asleep" =>
           /\ run[v] = "asleep"
           /\ pc[v] \in ReadCall => UNCHANGED forgets
  <2>1. CASE UNCHANGED <<forgets, run>>
    BY Zenon, <1>0, <2>1 DEF TypeOK, UsersInv
  <2>2. CASE /\ connected /\ nlookup[i] > 0
             /\ forgets' = Append(forgets, [nodeid |-> nodeid[i], nlookup |-> nlookup[i]])
             /\ run' = Woken(Readers)
    <3>1. nlookup[i] \in Nat \ {0}
      BY <1>4, <2>2
    <3>2. [nodeid |-> nodeid[i], nlookup |-> nlookup[i]] \in [nodeid : Node, nlookup : Nat \ {0}]
      BY Zenon, <1>2, <3>1
    <3>3. forgets' \in Seq([nodeid : Node, nlookup : Nat \ {0}])
      BY Zenon, <1>0, <2>2, <3>2, AppendFacts DEF TypeOK
    <3>4. refcount > 0
      BY <1>0, <2>2 DEF UsersInv, TypeOK
    <3>5. /\ run' \in [Task -> {"running", "asleep", "signalled"}]
          /\ \A v \in Task : run'[v] = "asleep" => run[v] = "asleep" /\ pc[v] \notin ReadCall
      BY Zenon, <1>0, <2>2 DEF Woken, Readers, TypeOK
    <3>6. QED
      BY Zenon, <3>3, <3>4, <3>5
  <2>3. QED
    BY Zenon, <1>7, <2>1, <2>2
<1>9. TypeOK'
  BY Zenon, <1>0, <1>1, <1>5, <1>6, <1>8 DEF TypeOK, connVars, listVars, reqVars
<1>10. UsersInv'
  BY Zenon, <1>0, <1>1, <1>8 DEF UsersInv, connVars
<1>11. LinksInv' /\ HandshakeInv' /\ AloneInv'
  <2>1. \A v : Unmounts(v)' <=> Unmounts(v)
    BY Zenon, <1>1, SameUnmounts DEF reqVars
  <2>2. QED
    BY Zenon, <1>0, <1>1, <1>2, <1>3, <2>1 DEF LinksInv, HandshakeInv, AloneInv, connVars, reqVars
<1>12. WaitersInv'
  BY Zenon, <1>0, <1>1, <1>3 DEF WaitersInv, Fits, connVars, reqVars
<1>13. NoLostWakeup'
  BY Zenon, <1>0, <1>1, <1>3, <1>8 DEF NoLostWakeup, Ready, MustAwaitInit, connVars, listVars
<1>14. QED
  BY Zenon, <1>3, <1>6, <1>9, <1>10, <1>11, <1>12, <1>13 DEF IInv

-------------------------------------------------------------------------------
(* The theorems. *)

(* Every step keeps the invariant. *)
THEOREM NextIInv == IInv /\ [Next]_vars => IInv'
<1> SUFFICES ASSUME IInv, [Next]_vars PROVE IInv'
  OBVIOUS
<1>1. ASSUME NEW t \in Task, File(t) \/ SuperBlock(t) \/ Request(t) \/ Serve(t)
      PROVE  IInv'
  <2>1. CASE File(t)
    BY Zenon, <2>1, FileStep
  <2>2. CASE SuperBlock(t)
    BY Zenon, <2>2, MountStep, UmountStep DEF SuperBlock
  <2>3. CASE Request(t)
    BY Zenon, <2>3, RequestSendStep, FreedWakeStep, InitWakeStep, RequestWakeStep DEF Request
  <2>4. CASE Serve(t)
    BY Zenon, <2>4, ReadStep, WriteStep DEF Serve
  <2>5. QED
    BY Zenon, <1>1, <2>1, <2>2, <2>3, <2>4
<1>2. ASSUME NEW i \in Ino, Iput(i) PROVE IInv'
  BY Zenon, <1>2, IputStep
<1>3. CASE UNCHANGED vars
  <2>1. FifoDelivery' /\ \A v : Linked(v)' <=> Linked(v)
    BY Zenon, <1>3, SameLinks DEF IInv, vars
  <2>2. TypeOK' /\ InodeInv' /\ UsersInv'
    BY Zenon, <1>3 DEF IInv, TypeOK, InodeInv, UsersInv, vars, connVars, listVars, reqVars,
       taskVars, inodeVars
  <2>3. LinksInv' /\ HandshakeInv' /\ AloneInv'
    <3>1. \A v : Unmounts(v)' <=> Unmounts(v)
      BY Zenon, <1>3, SameUnmounts DEF vars, reqVars, taskVars
    <3>2. QED
      BY Zenon, <1>3, <2>1, <3>1 DEF IInv, LinksInv, HandshakeInv, AloneInv, vars, connVars,
         reqVars, taskVars, inodeVars
  <2>4. WaitersInv' /\ NoLostWakeup'
    BY Zenon, <1>3, <2>1 DEF IInv, WaitersInv, Fits, NoLostWakeup, Ready, MustAwaitInit, vars,
       connVars, listVars, reqVars, taskVars
  <2>5. QED
    BY Zenon, <2>1, <2>2, <2>3, <2>4 DEF IInv
<1>4. QED
  BY Zenon, <1>1, <1>2, <1>3 DEF Next

(* The invariant holds in every state. *)
THEOREM Invariance == Spec => []IInv
BY InitIInv, NextIInv, PTL DEF Spec

(* The invariant implies the properties. *)
LEMMA Consequences ==
  ASSUME IInv
  PROVE  ConnInv /\ NoDangling /\ InitFirst /\ UmountAlone
<1>0. TypeOK /\ UsersInv /\ LinksInv /\ WaitersInv /\ HandshakeInv /\ AloneInv
  BY Zenon DEF IInv
<1>1. ConnInv
  <2>1. ASSUME NEW t \in Task, pc[t] # "user", ~InUstat(t)
        PROVE  holders # {} \/ sb \in {"mounted", "umounting"}
    <3>1. CASE pc[t] = "reply"
      <4>1. Fits(opcode[cur[t]], sb) /\ cur[t] \in Unique
        BY Zenon, <1>0, <3>1 DEF WaitersInv
      <4>2. opcode[cur[t]] \in CallOp \cup {"INIT", "DESTROY"}
        BY Zenon, <1>0, <4>1 DEF TypeOK
      <4>3. QED
        BY Zenon, <2>1, <3>1, <4>1, <4>2 DEF Fits, InUstat, CallOp
    <3>2. CASE pc[t] # "reply"
      BY Zenon, <1>0, <2>1, <3>2 DEF TypeOK, UsersInv, InUstat
    <3>3. QED
      BY Zenon, <3>1, <3>2
  <2>2. \A u \in Unique : Linked(u) => holders # {}
    BY Zenon, <1>0 DEF LinksInv, UsersInv
  <2>3. holders # {} \/ sb \in {"mounted", "umounting"} => refcount > 0
    BY <1>0 DEF UsersInv
  <2>4. QED
    BY Zenon, <1>0, <2>1, <2>2, <2>3 DEF ConnInv, UsersInv
<1>2. NoDangling
  <2> SUFFICES ASSUME NEW u \in Unique, Linked(u), opcode[u] # "INIT"
               PROVE  /\ \E t \in Task : pc[t] = "reply" /\ cur[t] = u
                      /\ \A t, v \in Task : cur[t] = u /\ cur[v] = u => t = v
    BY Zenon DEF NoDangling
  <2>1. u # None
    BY DEF Unique, None
  <2>2. PICK t \in Task : cur[t] = u
    BY Zenon, <1>0 DEF LinksInv
  <2>3. pc[t] = "reply"
    BY Zenon, <1>0, <2>1, <2>2 DEF WaitersInv
  <2>4. \A v, w \in Task : cur[v] = u /\ cur[w] = u => v = w
    BY Zenon, <1>0, <2>1 DEF WaitersInv
  <2>5. QED
    BY Zenon, <2>2, <2>3, <2>4
<1>3. InitFirst
  BY Zenon, <1>0 DEF HandshakeInv, InitFirst
<1>4. UmountAlone
  <2> SUFFICES ASSUME sb = "umounting" PROVE UmountAlone
    BY Zenon DEF UmountAlone
  <2>1. ASSUME NEW t \in Task, pc[t] \in {"init", "reply", "sync"}, ~InUstat(t)
        PROVE  Unmounts(t)
    <3>1. pc[t] # "init"
      BY Zenon, <1>0 DEF UsersInv
    <3>2. CASE pc[t] = "reply"
      <4>1. Fits(opcode[cur[t]], sb) /\ cur[t] \in Unique
        BY Zenon, <1>0, <3>2 DEF WaitersInv
      <4>2. opcode[cur[t]] \in CallOp \cup {"INIT", "DESTROY"}
        BY Zenon, <1>0, <4>1 DEF TypeOK
      <4>3. QED
        BY Zenon, <2>1, <3>2, <4>1, <4>2 DEF Fits, InUstat, CallOp, Unmounts
    <3>3. QED
      BY Zenon, <2>1, <3>1, <3>2 DEF Unmounts
  <2>2. QED
    BY Zenon, <1>0, <2>1 DEF AloneInv, UmountAlone
<1>5. QED
  BY Zenon, <1>1, <1>2, <1>3, <1>4

(* Types, for any number of tasks, requests and nodes. *)
THEOREM TypeCorrect == Spec => []TypeOK
<1>1. IInv => TypeOK
  BY Zenon DEF IInv
<1>2. QED
  BY <1>1, Invariance, PTL

(* fuse_conn_put frees the connection when the device is closed and the mount is
   gone, and never under a request, a forget or a task, but for a task in sys_ustat. *)
THEOREM ConnCorrect == Spec => []ConnInv
<1>1. IInv => ConnInv
  BY Zenon, Consequences
<1>2. QED
  BY <1>1, Invariance, PTL

(* fuse_request_send, fuse_dev_writev and fuse_conn_abort lose no wake-up. *)
THEOREM WakeupsCorrect == Spec => []NoLostWakeup
<1>1. IInv => NoLostWakeup
  BY Zenon DEF IInv
<1>2. QED
  BY <1>1, Invariance, PTL

(* A request on a stack is never reached after fuse_request_send has returned. *)
THEOREM StackRequestsCorrect == Spec => []NoDangling
<1>1. IInv => NoDangling
  BY Zenon, Consequences
<1>2. QED
  BY <1>1, Invariance, PTL

(* No request reaches the daemon before the handshake is over. *)
THEOREM HandshakeCorrect == Spec => []InitFirst
<1>1. IInv => InitFirst
  BY Zenon, Consequences
<1>2. QED
  BY <1>1, Invariance, PTL

(* fuse_dev_read delivers in the order of fuse_request_send. *)
THEOREM DeliveryCorrect == Spec => []FifoDelivery
<1>1. IInv => FifoDelivery
  BY Zenon DEF IInv
<1>2. QED
  BY <1>1, Invariance, PTL

(* fuse_put_super has the file system for itself, but for sys_ustat. *)
THEOREM UmountCorrect == Spec => []UmountAlone
<1>1. IInv => UmountAlone
  BY Zenon, Consequences
<1>2. QED
  BY <1>1, Invariance, PTL

-------------------------------------------------------------------------------
(* The connection implements FuseService. *)

(* What a step leaves of the view of one request. *)
LEMMA SeenKept ==
  ASSUME NEW u, OnPending(u)' <=> OnPending(u), u \in processing' <=> u \in processing,
         opcode'[u] = opcode[u], Linked(u) \/ reply'[u] = reply[u]
  PROVE  Seen(u)' = Seen(u)
<1>1. Stage(u)' = Stage(u)
  BY Zenon DEF Stage
<1>2. Stage(u) = "answered" => reply'[u] = reply[u]
  BY Zenon DEF Stage, Linked
<1> QED BY Zenon, <1>1, <1>2 DEF Seen

(* The call of a task, before and after a step. *)
LEMMA CallOf ==
  ASSUME NEW t \in Task
  PROVE  /\ Calls[t] = IF pc[t] = "reply" THEN Seen(cur[t]) ELSE NoCall
         /\ pc'[t] # "reply" => Calls'[t] = NoCall
         /\ \A u : pc'[t] = "reply" /\ cur'[t] = u => Calls'[t] = Seen(u)'
<1>1. ASSUME NEW u, pc'[t] = "reply", cur'[t] = u
      PROVE  Calls'[t] = Seen(u)'
  <2>1. Calls'[t] = [stage |-> IF \E k \in 1 .. Len(pending') : pending'[k] = cur'[t]
                                 THEN "queued"
                                 ELSE IF cur'[t] \in processing' THEN "taken" ELSE "answered",
                     op |-> opcode'[cur'[t]], id |-> cur'[t],
                     reply |-> IF (IF \E k \in 1 .. Len(pending') : pending'[k] = cur'[t]
                                     THEN "queued"
                                     ELSE IF cur'[t] \in processing' THEN "taken"
                                     ELSE "answered") = "answered"
                                 THEN reply'[cur'[t]] ELSE "error"]
    BY Zenon, <1>1 DEF Calls, Seen, Stage, OnPending
  <2> QED BY Zenon, <1>1, <2>1 DEF Seen, Stage, OnPending
<1>2. pc'[t] # "reply" => Calls'[t] = NoCall
  BY Zenon DEF Calls, NoCall
<1> QED BY Zenon, <1>1, <1>2 DEF Calls

(* What the fields of a call are. *)
LEMMA SeenFields ==
  ASSUME NEW u
  PROVE  /\ Seen(u).stage = Stage(u) /\ Seen(u).op = opcode[u] /\ Seen(u).id = u
         /\ Seen(u).reply = IF Stage(u) = "answered" THEN reply[u] ELSE "error"
         /\ NoCall.stage = "idle" /\ Service!Idle = NoCall
BY Zenon DEF Seen, NoCall, Service!Idle, None

(* A call stays as it is when its task and its request do. *)
LEMMA CallKept ==
  ASSUME NEW t \in Task, NEW c, c = cur[t], pc'[t] = "reply" <=> pc[t] = "reply",
         pc[t] = "reply" => cur'[t] = c /\ Seen(c)' = Seen(c)
  PROVE  Calls'[t] = Calls[t]
<1>1. CASE pc[t] = "reply"
  <2>1. Calls'[t] = Seen(c)'
    BY Zenon, <1>1, CallOf
  <2>2. Calls[t] = Seen(c)
    BY Zenon, <1>1, CallOf
  <2> QED BY Zenon, <1>1, <2>1, <2>2
<1>2. CASE pc[t] # "reply"
  BY Zenon, <1>2, CallOf
<1> QED BY Zenon, <1>1, <1>2

(* A step that changes neither the waiting calls nor what is seen of them. *)
LEMMA NothingSeen ==
  ASSUME \A t \in Task : /\ pc'[t] = "reply" <=> pc[t] = "reply"
                         /\ pc[t] = "reply" => cur'[t] = cur[t],
         \A t \in Task : \A c : pc[t] = "reply" /\ c = cur[t] => Seen(c)' = Seen(c),
         UNCHANGED <<connected, sb, last_unique, i_count>>
  PROVE  UNCHANGED Service!vars
<1>1. ASSUME NEW t \in Task PROVE Calls'[t] = Calls[t]
  <2>1. PICK c : c = cur[t]
    BY Zenon
  <2> QED BY Zenon, <2>1, CallKept
<1>2. Calls' = Calls
  <2>1. Calls = [t \in Task |-> Calls[t]] /\ Calls' = [t \in Task |-> Calls'[t]]
    BY Zenon DEF Calls
  <2> QED BY Zenon, <1>1, <2>1
<1> QED BY Zenon, <1>2 DEF Service!vars

(* The requests stay as they are when the lists and the fields do. *)
LEMMA SameRequests ==
  ASSUME UNCHANGED <<listVars, opcode, reply>>
  PROVE  \A c : Seen(c)' = Seen(c)
<1> SUFFICES ASSUME NEW c PROVE Seen(c)' = Seen(c)
  OBVIOUS
<1>1. (OnPending(c)' <=> OnPending(c)) /\ (c \in processing' <=> c \in processing)
  BY Zenon DEF OnPending, listVars
<1> QED BY Zenon, <1>1, SeenKept

(* One call changes. *)
LEMMA OneCall ==
  ASSUME NEW t \in Task, NEW x, Calls'[t] = x,
         \A v \in Task : v # t => Calls'[v] = Calls[v]
  PROVE  Calls' = [Calls EXCEPT ![t] = x]
<1>1. Calls = [v \in Task |-> Calls[v]] /\ Calls' = [v \in Task |-> Calls'[v]]
  BY Zenon DEF Calls
<1>2. [Calls EXCEPT ![t] = x] = [v \in Task |-> IF v = t THEN x ELSE Calls[v]]
  BY Zenon, <1>1
<1> QED BY Zenon, <1>1, <1>2

(* When only sys_ustat is in the file system, nobody else has a call. *)
LEMMA UnusedThen ==
  ASSUME IInv, sb \in {"mounted", "umounting"}, \A i \in Ino : i_count[i] = 0,
         \A t \in Task : ~HoldsInode(t),
         sb = "umounting" => \A t \in Task : pc[t] = "reply" => ~Unmounts(t)
  PROVE  Service!Unused
<1>1. ASSUME NEW t \in Task PROVE Calls[t] = Service!Idle \/ Calls[t].op = "STATFS"
  <2>1. CASE pc[t] = "reply"
    <3>1. PICK c \in Unique : c = cur[t] /\ Fits(opcode[c], sb)
      BY Zenon, <2>1 DEF IInv, WaitersInv
    <3>2. opcode[c] \in CallOp \cup {"INIT", "DESTROY"}
      BY Zenon, <3>1 DEF IInv, TypeOK
    <3>3. opcode[c] = "STATFS"
      BY Zenon, <2>1, <3>1, <3>2 DEF Fits, CallOp, HoldsInode, Unmounts
    <3>4. Calls[t] = Seen(c)
      BY Zenon, <2>1, <3>1, CallOf
    <3>5. Seen(c).op = opcode[c]
      BY Zenon, SeenFields
    <3> QED BY Zenon, <3>3, <3>4, <3>5
  <2>2. CASE pc[t] # "reply"
    <3>1. Calls[t] = NoCall /\ Service!Idle = NoCall
      BY Zenon, <2>2, CallOf, SeenFields
    <3> QED BY Zenon, <3>1
  <2> QED BY Zenon, <2>1, <2>2
<1> QED BY Zenon, <1>1 DEF Service!Unused, Service!Ino, Ino

(* fuse_request_send queues a call, the newest. *)
LEMMA EnqueueAsks ==
  ASSUME IInv, NEW t \in Task, NEW op \in CallOp \cup {"DESTROY"}, Enqueue(t, op),
         pc[t] \in {"user", "init", "statfs"}, connected,
         UNCHANGED <<connected, i_count>>,
         \/ op \in InodeOp /\ sb = "mounted" /\ UNCHANGED sb
         \/ op = "STATFS" /\ sb \in {"mounted", "umounting"} /\ UNCHANGED sb
         \/ op = "DESTROY" /\ sb = "mounted" /\ sb' = "umounting" /\ MayUmount
  PROVE  Service!Ask(t, op)
<1>0. TypeOK /\ LinksInv /\ WaitersInv
  BY Zenon DEF IInv
<1>1. PICK u \in Unique : u = last_unique + 1 /\ ~(u <= last_unique)
  <2>1. last_unique \in 0 .. MaxUnique /\ last_unique < MaxUnique /\ MaxUnique \in Nat
    BY Zenon, <1>0, FuseAssumption DEF TypeOK, Enqueue
  <2>2. last_unique + 1 \in Unique /\ ~(last_unique + 1 <= last_unique)
    BY <2>1 DEF Unique
  <2> QED BY Zenon, <2>2
<1>2. /\ last_unique' = u /\ opcode' = [opcode EXCEPT ![u] = op]
      /\ pending' = Append(pending, u)
      /\ pc' = [pc EXCEPT ![t] = "reply"] /\ cur' = [cur EXCEPT ![t] = u]
      /\ UNCHANGED <<reply, processing>>
  BY Zenon, <1>1 DEF Enqueue, Queued
<1>3. \A v : OnPending(v)' <=> OnPending(v) \/ v = u
  BY Zenon, <1>1, <1>2, AppendLinks
<1>4. \A v \in Task : /\ pc'[v] = IF v = t THEN "reply" ELSE pc[v]
                      /\ cur'[v] = IF v = t THEN u ELSE cur[v]
  BY Zenon, <1>0, <1>2 DEF TypeOK
<1>5. ASSUME NEW v \in Task, v # t PROVE Calls'[v] = Calls[v]
  <2>1. PICK c : c = cur[v]
    BY Zenon
  <2>2. ASSUME pc[v] = "reply" PROVE Seen(c)' = Seen(c)
    <3>1. c # u
      BY Zenon, <1>0, <1>1, <2>1, <2>2 DEF WaitersInv
    <3>2. opcode'[c] = opcode[c]
      BY Zenon, <1>0, <1>2, <2>1, <2>2, <3>1 DEF WaitersInv, TypeOK
    <3>3. reply'[c] = reply[c] /\ (c \in processing' <=> c \in processing)
      BY Zenon, <1>2
    <3>4. OnPending(c)' <=> OnPending(c)
      BY Zenon, <1>3, <3>1
    <3> QED BY Zenon, <3>2, <3>3, <3>4, SeenKept
  <2> QED BY Zenon, <1>4, <1>5, <2>1, <2>2, CallKept
<1> DEFINE x == [stage |-> "queued", op |-> op, id |-> last_unique + 1, reply |-> "error"]
<1>6. Calls'[t] = x
  <2>1. Calls'[t] = Seen(u)'
    BY Zenon, <1>4, CallOf
  <2>2. Stage(u)' = "queued" /\ opcode'[u] = op
    BY Zenon, <1>0, <1>2, <1>3 DEF Stage, TypeOK
  <2>3. "queued" # "answered"
    OBVIOUS
  <2> QED BY Zenon, <1>1, <2>1, <2>2, <2>3 DEF Seen
<1>7. Calls' = [Calls EXCEPT ![t] = x]
  BY Zenon, <1>5, <1>6, OneCall
<1>8. Calls[t] = NoCall
  <2>1. "reply" \notin {"user", "init", "statfs"}
    OBVIOUS
  <2> QED BY Zenon, <2>1, CallOf
<1>9. \/ op \in {"LOOKUP", "OTHER"} /\ sb = "mounted" /\ UNCHANGED sb
      \/ op = "STATFS" /\ sb \in {"mounted", "umounting"} /\ UNCHANGED sb
      \/ op = "DESTROY" /\ sb = "mounted" /\ Service!Unused /\ sb' = "umounting"
  <2>1. ASSUME MayUmount, sb = "mounted" PROVE Service!Unused
    BY Zenon, <2>1, UnusedThen DEF MayUmount
  <2> QED BY Zenon, <2>1 DEF InodeOp
<1> QED BY Zenon, <1>1, <1>2, <1>7, <1>8, <1>9, SeenFields DEF Service!Ask

(* fuse_dev_read hands over the oldest call, or FUSE_INIT. *)
LEMMA ReadTakes ==
  ASSUME IInv, TakeRequest, pending # <<>>, connected,
         UNCHANGED <<connected, sb, opcode, reply, cur, i_count>>,
         \A t \in Task : pc'[t] = "reply" <=> pc[t] = "reply"
  PROVE  (\E t \in Task : Service!Take(t)) \/ UNCHANGED Service!vars
<1>0. TypeOK /\ LinksInv /\ WaitersInv /\ FifoDelivery
  BY Zenon DEF IInv
<1>1. PICK u : u = Head(pending)
  BY Zenon
<1>2. /\ pending' = Tail(pending) /\ processing' = processing \cup {u}
      /\ UNCHANGED last_unique
  BY Zenon, <1>1 DEF TakeRequest
<1>3. /\ u \in Unique /\ Linked(u) /\ FifoDelivery'
      /\ \A v : OnPending(v) <=> v = u \/ OnPending(v)'
  BY Zenon, <1>1, <1>2, TakeLinks
<1>4. ~OnPending(u)' /\ OnPending(u)
  <2> SUFFICES ASSUME NEW k \in 1 .. Len(pending'), pending'[k] = u PROVE FALSE
    BY Zenon, <1>3 DEF OnPending
  <2>1. u < u
    BY Zenon, <1>2, <1>3 DEF FifoDelivery
  <2>2. u \in Nat
    BY <1>3, FuseAssumption DEF Unique
  <2> QED BY <2>1, <2>2
<1>5. ASSUME NEW c, c # u PROVE Seen(c)' = Seen(c)
  <2>1. (OnPending(c)' <=> OnPending(c)) /\ (c \in processing' <=> c \in processing)
    BY Zenon, <1>2, <1>3, <1>5
  <2> QED BY Zenon, <2>1, SeenKept
<1>6. CASE \E t \in Task : pc[t] = "reply" /\ cur[t] = u
  <2>1. PICK t \in Task : pc[t] = "reply" /\ cur[t] = u
    BY Zenon, <1>6
  <2>2. ASSUME NEW v \in Task, v # t PROVE Calls'[v] = Calls[v]
    <3>1. PICK c : c = cur[v]
      BY Zenon
    <3>2. c # u
      <4>1. u # None
        BY <1>3, FuseAssumption DEF Unique, None
      <4> QED BY Zenon, <1>0, <2>1, <2>2, <3>1, <4>1 DEF WaitersInv
    <3> QED BY Zenon, <1>5, <3>1, <3>2, CallKept
  <2>3. Calls[t] = Seen(u) /\ Calls'[t] = Seen(u)'
    BY Zenon, <2>1, CallOf
  <2>4. Stage(u) = "queued" /\ Stage(u)' = "taken"
    BY Zenon, <1>2, <1>4 DEF Stage
  <2>5. Seen(u)' = Service!Moved(Seen(u), "taken", "error")
    <3>1. "taken" # "answered"
      OBVIOUS
    <3> QED BY Zenon, <2>4, <3>1, SeenFields DEF Seen, Service!Moved
  <2>6. Calls' = [Calls EXCEPT ![t] = Service!Moved(Calls[t], "taken", "error")]
    BY Zenon, <2>2, <2>3, <2>5, OneCall
  <2>7. ASSUME NEW v \in Task, Calls[v].stage = "queued" PROVE Calls[t].id <= Calls[v].id
    <3>1. PICK c : c = cur[v]
      BY Zenon
    <3>2. pc[v] = "reply" /\ Calls[v] = Seen(c) /\ OnPending(c)
      <4>1. "idle" # "queued" /\ "taken" # "queued" /\ "answered" # "queued"
        OBVIOUS
      <4>2. pc[v] = "reply"
        <5>1. NoCall.stage # "queued"
          BY Zenon, <4>1, SeenFields
        <5> QED BY Zenon, <2>7, <5>1, CallOf
      <4>3. Calls[v] = Seen(c)
        BY Zenon, <3>1, <4>2, CallOf
      <4>4. Stage(c) = "queued"
        <5>1. Seen(c).stage = Stage(c)
          BY Zenon, SeenFields
        <5> QED BY Zenon, <2>7, <4>3, <5>1
      <4> QED BY Zenon, <4>1, <4>2, <4>3, <4>4 DEF Stage
    <3>3. Calls[t].id = u /\ Calls[v].id = c
      BY Zenon, <2>3, <3>2, SeenFields
    <3>4. PICK k \in 1 .. Len(pending) : pending[k] = c
      BY Zenon, <3>2 DEF OnPending
    <3>5. pending[1] = u /\ pending[k] \in Nat /\ u \in Nat /\ (1 < k => pending[1] < pending[k])
          /\ k \in Nat /\ 1 <= k
      <4>1. pending \in Seq(Unique) /\ \A w \in Unique : w \in Nat
        BY <1>0, FuseAssumption DEF TypeOK, Unique
      <4>2. Len(pending) \in Nat \ {0} /\ pending[1] = u /\ u \in Unique
        BY Zenon, <1>1, <4>1, TailFacts
      <4>3. 1 \in 1 .. Len(pending) /\ k \in Nat /\ 1 <= k
        BY <4>2
      <4>4. pending[k] \in Unique
        BY <4>1
      <4> QED BY Zenon, <1>0, <4>1, <4>2, <4>3, <4>4 DEF FifoDelivery
    <3>6. u <= c
      <4>1. \A i \in Nat : 1 <= i => i = 1 \/ 1 < i
        OBVIOUS
      <4>2. \A a, b \in Nat : a = b \/ a < b => a <= b
        OBVIOUS
      <4> QED BY Zenon, <3>4, <3>5, <4>1, <4>2
    <3> QED BY Zenon, <3>3, <3>6
  <2>8. Calls[t].stage = "queued"
    <3>1. Seen(u).stage = Stage(u)
      BY Zenon, SeenFields
    <3> QED BY Zenon, <2>3, <2>4, <3>1
  <2>9. Service!Take(t)
    <3>1. UNCHANGED <<connected, sb, last_unique, i_count>>
      BY Zenon, <1>2
    <3>2. \A v \in Task : Calls[v].stage = "queued" => Calls[t].id <= Calls[v].id
      BY Zenon, <2>7
    <3> QED BY Zenon, <2>6, <2>8, <3>1, <3>2 DEF Service!Take
  <2> QED BY Zenon, <2>9
<1>7. CASE ~ \E t \in Task : pc[t] = "reply" /\ cur[t] = u
  <2>1. \A t \in Task : \A c : pc[t] = "reply" /\ c = cur[t] => Seen(c)' = Seen(c)
    BY Zenon, <1>5, <1>7
  <2> QED BY Zenon, <1>2, <2>1, NothingSeen
<1> QED BY Zenon, <1>6, <1>7

(* fuse_dev_writev answers a call that the daemon has read, or FUSE_INIT. *)
LEMMA WriteAnswers ==
  ASSUME IInv, NEW t \in Task, NEW u \in Unique, NEW r \in Node \cup {"ok", "error"},
         Write(t, u, r)
  PROVE  (\E v \in Task : Service!Answer(v, r)) \/ UNCHANGED Service!vars
<1>0. TypeOK /\ WaitersInv
  BY Zenon DEF IInv
<1>1. /\ u \in processing /\ processing' = processing \ {u} /\ reply' = [reply EXCEPT ![u] = r]
      /\ connected /\ (r \in Node => opcode[u] = "LOOKUP")
      /\ UNCHANGED <<pending, sb, connected, last_unique, opcode, pc, cur, i_count>>
  BY Zenon DEF Write, inodeVars
<1>2. ~OnPending(u) /\ ~OnPending(u)'
  BY Zenon, <1>1, ListsApart DEF IInv, OnPending
<1>3. ASSUME NEW c \in Unique, c # u PROVE Seen(c)' = Seen(c)
  <2>1. (OnPending(c)' <=> OnPending(c)) /\ (c \in processing' <=> c \in processing)
    BY Zenon, <1>1, <1>3 DEF OnPending
  <2>2. reply'[c] = reply[c]
    BY Zenon, <1>0, <1>1, <1>3 DEF TypeOK
  <2> QED BY Zenon, <1>1, <2>1, <2>2, SeenKept
<1>4. CASE \E v \in Task : pc[v] = "reply" /\ cur[v] = u
  <2>1. PICK v \in Task : pc[v] = "reply" /\ cur[v] = u
    BY Zenon, <1>4
  <2>2. ASSUME NEW w \in Task, w # v PROVE Calls'[w] = Calls[w]
    <3>1. PICK c : c = cur[w]
      BY Zenon
    <3>2. ASSUME pc[w] = "reply" PROVE Seen(c)' = Seen(c)
      <4>1. c # u /\ c \in Unique
        <5>1. u # None
          BY FuseAssumption DEF Unique, None
        <5> QED BY Zenon, <1>0, <2>1, <2>2, <3>1, <3>2, <5>1 DEF WaitersInv
      <4> QED BY Zenon, <1>3, <4>1
    <3> QED BY Zenon, <1>1, <3>1, <3>2, CallKept
  <2>3. Calls[v] = Seen(u) /\ Calls'[v] = Seen(u)'
    BY Zenon, <1>1, <2>1, CallOf
  <2>4. Stage(u) = "taken" /\ Stage(u)' = "answered" /\ reply'[u] = r
    BY Zenon, <1>0, <1>1, <1>2 DEF Stage, TypeOK
  <2>5. Seen(u)' = Service!Moved(Seen(u), "answered", r)
    BY Zenon, <1>1, <2>4, SeenFields DEF Seen, Service!Moved
  <2>6. Calls' = [Calls EXCEPT ![v] = Service!Moved(Calls[v], "answered", r)]
    BY Zenon, <2>2, <2>3, <2>5, OneCall
  <2>7. Calls[v].stage = "taken" /\ Calls[v].op = opcode[u]
    BY Zenon, <2>3, <2>4, SeenFields
  <2>8. Service!Answer(v, r)
    BY Zenon, <1>1, <2>6, <2>7 DEF Service!Answer
  <2> QED BY Zenon, <2>8
<1>5. CASE ~ \E v \in Task : pc[v] = "reply" /\ cur[v] = u
  <2>1. ASSUME NEW v \in Task, NEW c, pc[v] = "reply", c = cur[v] PROVE Seen(c)' = Seen(c)
    <3>1. c # u /\ c \in Unique
      BY Zenon, <1>0, <1>5, <2>1 DEF WaitersInv
    <3> QED BY Zenon, <1>3, <3>1
  <2>2. \A v \in Task : (pc'[v] = "reply" <=> pc[v] = "reply") /\ (pc[v] = "reply" => cur'[v] = cur[v])
    BY Zenon, <1>1
  <2> QED BY Zenon, <1>1, <2>1, <2>2, NothingSeen
<1> QED BY Zenon, <1>4, <1>5

(* fuse_request_send returns with the answer. *)
LEMMA WakeReturns ==
  ASSUME IInv, NEW t \in Task, RequestWake(t)
  PROVE  Service!Return(t) \/ UNCHANGED Service!vars
<1>0. TypeOK /\ LinksInv /\ WaitersInv
  BY Zenon DEF IInv
<1>1. /\ pc[t] = "reply" /\ UNCHANGED <<connected, sb, last_unique, listVars, opcode, reply>>
  BY Zenon DEF RequestWake, connVars, reqVars
<1>2. PICK u \in Unique : u = cur[t] /\ (state[u] = "finished" \/ Linked(u))
  BY Zenon, <1>0, <1>1 DEF WaitersInv
<1>3. \A c : Seen(c)' = Seen(c)
  BY Zenon, <1>1, SameRequests
<1>4. CASE UNCHANGED <<pc, cur, inodeVars>>
  BY Zenon, <1>1, <1>3, <1>4, NothingSeen DEF inodeVars
<1>5. CASE ~UNCHANGED <<pc, cur, inodeVars>>
  <2>1. /\ state[u] = "finished" \/ ~connected
        /\ pc' = [pc EXCEPT ![t] = IF opcode[u] = "DESTROY" THEN "sync" ELSE "user"]
        /\ cur' = [cur EXCEPT ![t] = None]
        /\ IF state[u] = "finished" /\ reply[u] \in Node THEN Iget(reply[u]) ELSE UNCHANGED inodeVars
    BY Zenon, <1>2, <1>5 DEF RequestWake
  <2>2. state[u] = "finished" /\ ~Linked(u)
    BY Zenon, <1>0, <1>2, <2>1 DEF LinksInv
  <2>3. /\ \A v \in Task : v # t => pc'[v] = pc[v] /\ cur'[v] = cur[v]
        /\ pc'[t] # "reply"
    <3>1. "sync" # "reply" /\ "user" # "reply"
      OBVIOUS
    <3> QED BY Zenon, <1>0, <2>1, <3>1 DEF TypeOK
  <2>4. ASSUME NEW v \in Task, v # t PROVE Calls'[v] = Calls[v]
    BY Zenon, <1>3, <2>3, <2>4, CallKept
  <2>5. Calls'[t] = NoCall
    BY Zenon, <2>3, CallOf
  <2>6. Calls' = [Calls EXCEPT ![t] = NoCall]
    BY Zenon, <2>4, <2>5, OneCall
  <2>7. Calls[t].stage = "answered" /\ Calls[t].reply = reply[u]
    <3>1. Calls[t] = Seen(u)
      BY Zenon, <1>1, <1>2, CallOf
    <3>2. Stage(u) = "answered"
      BY Zenon, <2>2 DEF Stage, Linked
    <3> QED BY Zenon, <3>1, <3>2, SeenFields
  <2>8. i_count' = IF reply[u] \in Node THEN [i_count EXCEPT ![InoOf[reply[u]]] = @ + 1]
                   ELSE i_count
    BY Zenon, <2>1, <2>2 DEF Iget, inodeVars
  <2>9. Service!Return(t)
    BY Zenon, <1>1, <2>6, <2>7, <2>8, SeenFields DEF Service!Return
  <2> QED BY Zenon, <2>9
<1> QED BY Zenon, <1>4, <1>5

(* fuse_conn_abort answers what is on a list with an error, and nothing else. *)
LEMMA AbortSeen ==
  ASSUME Abort, NEW c \in Unique
  PROVE  /\ Linked(c) => Seen(c)' = Service!Moved(Seen(c), "answered", "error")
         /\ ~Linked(c) => Seen(c)' = Seen(c)
<1>1. pending' = <<>> /\ processing' = {} /\ UNCHANGED opcode
  BY Zenon DEF Abort, UnlinkAll
<1>2. ~OnPending(c)' /\ c \notin processing'
  <2>1. \A k : k \notin 1 .. Len(pending')
    BY <1>1
  <2> QED BY Zenon, <1>1, <2>1 DEF OnPending
<1>3. reply'[c] = IF Linked(c) THEN "error" ELSE reply[c]
  BY Zenon DEF Abort, Outstanding
<1>4. CASE Linked(c)
  <2>1. Stage(c)' = "answered"
    BY Zenon, <1>2 DEF Stage
  <2> QED BY Zenon, <1>1, <1>3, <1>4, <2>1, SeenFields DEF Seen, Service!Moved
<1>5. CASE ~Linked(c)
  <2>1. (OnPending(c)' <=> OnPending(c)) /\ (c \in processing' <=> c \in processing)
    BY Zenon, <1>2, <1>5 DEF Linked
  <2> QED BY Zenon, <1>1, <1>3, <1>5, <2>1, SeenKept
<1> QED BY Zenon, <1>4, <1>5

(* fuse_conn_abort fails the calls that have no answer, when no call starts or ends. *)
LEMMA AbortFails ==
  ASSUME IInv, Abort, UNCHANGED cur, \A v \in Task : pc'[v] = "reply" <=> pc[v] = "reply"
  PROVE  Service!Fail
<1>1. ASSUME NEW v \in Task
      PROVE  Calls'[v] = IF Calls[v].stage \in {"queued", "taken"}
                           THEN Service!Moved(Calls[v], "answered", "error") ELSE Calls[v]
  <2>1. PICK c : c = cur[v]
    BY Zenon
  <2>2. "idle" \notin {"queued", "taken"} /\ "answered" \notin {"queued", "taken"}
    OBVIOUS
  <2>3. CASE pc[v] = "reply"
    <3>1. c \in Unique /\ cur'[v] = c /\ pc'[v] = "reply"
      BY Zenon, <2>1, <2>3 DEF IInv, WaitersInv
    <3>2. Calls[v] = Seen(c) /\ Calls'[v] = Seen(c)'
      BY Zenon, <2>1, <2>3, <3>1, CallOf
    <3>3. Calls[v].stage \in {"queued", "taken"} <=> Linked(c)
      BY Zenon, <2>2, <3>2, SeenFields DEF Stage, Linked
    <3> QED BY Zenon, <3>1, <3>2, <3>3, AbortSeen
  <2>4. CASE pc[v] # "reply"
    <3>1. Calls[v] = NoCall /\ Calls'[v] = NoCall
      BY Zenon, <2>4, CallOf
    <3> QED BY Zenon, <2>2, <3>1, SeenFields
  <2> QED BY Zenon, <2>3, <2>4
<1>2. Calls' = [v \in Task |-> Calls'[v]]
  BY Zenon DEF Calls
<1> QED BY Zenon, <1>1, <1>2 DEF Service!Fail

(* The last close of the device fails the calls that have no answer. *)
LEMMA CloseTakesDown ==
  ASSUME IInv, NEW t \in Task, Close(t)
  PROVE  Service!Down \/ UNCHANGED Service!vars
<1>0. TypeOK /\ LinksInv /\ WaitersInv
  BY Zenon DEF IInv
<1>1. UNCHANGED <<sb, pc, cur, i_count>>
  BY Zenon DEF Close, inodeVars
<1>2. CASE holders # {t}
  <2>1. UNCHANGED <<connected, last_unique, listVars, opcode, reply>>
    BY Zenon, <1>2 DEF Close, connVars, reqVars
  <2>2. \A c : Seen(c)' = Seen(c)
    BY Zenon, <2>1, SameRequests
  <2> QED BY Zenon, <1>1, <2>1, <2>2, NothingSeen
<1>3. CASE holders = {t}
  <2>1. Abort /\ connected' = FALSE /\ UNCHANGED last_unique
    BY Zenon, <1>3 DEF Close, Abort
  <2>2. CASE ~connected
    <3>1. ASSUME NEW v \in Task, NEW c, pc[v] = "reply", c = cur[v] PROVE Seen(c)' = Seen(c)
      <4>1. c \in Unique /\ ~Linked(c)
        BY Zenon, <1>0, <2>2, <3>1 DEF WaitersInv, LinksInv
      <4> QED BY Zenon, <2>1, <4>1, AbortSeen
    <3>2. UNCHANGED connected
      BY Zenon, <1>0, <2>1, <2>2 DEF TypeOK
    <3> QED BY Zenon, <1>1, <2>1, <3>1, <3>2, NothingSeen
  <2>3. CASE connected
    <3>1. Service!Fail
      BY Zenon, <1>1, <2>1, AbortFails
    <3>2. Service!Down
      BY Zenon, <1>1, <2>1, <2>3, <3>1 DEF Service!Down
    <3> QED BY Zenon, <3>2
  <2> QED BY Zenon, <2>2, <2>3
<1> QED BY Zenon, <1>2, <1>3

(* fuse_put_super finds nobody in the file system but those in sys_ustat, and fails
   what they wait for. *)
LEMMA PutSuperLeaves ==
  ASSUME IInv, NEW t \in Task, PutSuper(t), sb \in {"mounted", "umounting"},
         pc[t] # "reply", Service!Unused
  PROVE  Service!Leave
<1>1. /\ sb' = "gone" /\ connected' = FALSE /\ UNCHANGED <<last_unique, i_count, cur>>
      /\ pc' = [pc EXCEPT ![t] = "user"] /\ Abort
  BY Zenon DEF PutSuper, Abort, inodeVars
<1>2. \A v \in Task : pc'[v] = "reply" <=> pc[v] = "reply"
  <2>1. "user" # "reply"
    OBVIOUS
  <2> QED BY Zenon, <1>1, <2>1 DEF IInv, TypeOK
<1>3. Service!Fail
  BY Zenon, <1>1, <1>2, AbortFails
<1> QED BY Zenon, <1>1, <1>3 DEF Service!Leave

(* The mount and the unmount. *)
LEMMA SuperBlockRefines ==
  ASSUME IInv, NEW t \in Task, SuperBlock(t)
  PROVE  Service!Next
<1>0. TypeOK /\ UsersInv /\ WaitersInv /\ LinksInv /\ AloneInv
  BY Zenon DEF IInv
<1>1. CASE Mount(t)
  <2>1. /\ sb = "none" /\ sb' = "mounted" /\ connected /\ last_unique' \in {last_unique, last_unique + 1}
        /\ UNCHANGED <<connected, pc, i_count>>
    BY Zenon, <1>1 DEF Mount, inodeVars
  <2>2. \A v \in Task : pc[v] # "reply"
    BY Zenon, <1>0, <2>1 DEF UsersInv
  <2>3. \A v \in Task : Calls[v] = NoCall /\ Calls'[v] = NoCall
    BY Zenon, <2>1, <2>2, CallOf
  <2>4. Calls' = Calls
    <3>1. Calls = [v \in Task |-> Calls[v]] /\ Calls' = [v \in Task |-> Calls'[v]]
      BY Zenon DEF Calls
    <3> QED BY Zenon, <2>3, <3>1
  <2>5. Service!Mount
    BY Zenon, <2>1, <2>4 DEF Service!Mount
  <2> QED BY Zenon, <2>5 DEF Service!Next
<1>2. CASE Umount(t) /\ connected /\ initialized
  <2>1. /\ Enqueue(t, "DESTROY") /\ MayUmount /\ pc[t] = "user" /\ sb = "mounted"
        /\ sb' = "umounting" /\ UNCHANGED <<connected, i_count>>
    BY Zenon, <1>2 DEF Umount, inodeVars
  <2>2. Service!Ask(t, "DESTROY")
    BY Zenon, <1>2, <2>1, EnqueueAsks
  <2> QED BY Zenon, <2>2 DEF Service!Next
<1>3. CASE Umount(t) /\ ~(connected /\ initialized)
  <2>1. PutSuper(t) /\ sb = "mounted" /\ MayUmount /\ pc[t] # "reply"
    BY Zenon, <1>3 DEF Umount
  <2>2. Service!Unused
    BY Zenon, <2>1, UnusedThen DEF MayUmount
  <2>3. Service!Leave
    BY Zenon, <2>1, <2>2, PutSuperLeaves
  <2> QED BY Zenon, <2>3 DEF Service!Next
<1>4. CASE UmountSync(t)
  <2>1. PutSuper(t) /\ pc[t] = "sync" /\ sb = "umounting"
    BY Zenon, <1>0, <1>4 DEF UmountSync, UsersInv
  <2>2. \A v \in Task : ~HoldsInode(v) /\ (pc[v] = "reply" => ~Unmounts(v))
    <3>1. "sync" # "reply" /\ Unmounts(t)
      BY Zenon, <2>1 DEF Unmounts
    <3>2. \A v \in Task : ~HoldsInode(v)
      BY Zenon, <1>0, <2>1 DEF HoldsInode, UsersInv, WaitersInv, Fits
    <3> QED BY Zenon, <1>0, <2>1, <3>1, <3>2 DEF AloneInv
  <2>3. Service!Unused
    BY Zenon, <1>0, <2>1, <2>2, UnusedThen DEF AloneInv
  <2>4. Service!Leave
    BY Zenon, <2>1, <2>3, PutSuperLeaves
  <2> QED BY Zenon, <2>4 DEF Service!Next
<1> QED BY Zenon, <1>1, <1>2, <1>3, <1>4 DEF SuperBlock

(* A call is sent, or waits for the handshake, or returns. *)
LEMMA RequestRefines ==
  ASSUME IInv, NEW t \in Task, Request(t)
  PROVE  Service!Next \/ UNCHANGED Service!vars
<1>0. TypeOK /\ UsersInv
  BY Zenon DEF IInv
<1>1. CASE RequestWake(t)
  BY Zenon, <1>1, WakeReturns DEF Service!Next
<1>2. ASSUME NEW p \in {"init", "statfs"}, NEW op \in OpsOf(p), Enqueue(t, op), connected,
             sb = "mounted" \/ (p = "statfs" /\ sb = "umounting"),
             pc[t] \in {"user", "init", "statfs"}, UNCHANGED <<sb, connected, i_count>>
      PROVE  Service!Next
  <2>1. /\ op \in CallOp
        /\ \/ op \in InodeOp /\ sb = "mounted"
           \/ op = "STATFS" /\ sb \in {"mounted", "umounting"}
    BY Zenon, <1>2, OpsFit
  <2>2. Service!Ask(t, op)
    BY Zenon, <1>2, <2>1, EnqueueAsks
  <2> QED BY Zenon, <2>1, <2>2 DEF Service!Next, CallOp, InodeOp
<1>3. ASSUME UNCHANGED <<sb, connected, i_count, last_unique, listVars, opcode, reply>>,
             pc' = pc \/ \E p \in {"user", "init", "statfs", "stray"} : pc' = [pc EXCEPT ![t] = p],
             cur' = cur \/ cur' = [cur EXCEPT ![t] = None],
             pc[t] \in {"user", "init", "statfs"}
      PROVE  UNCHANGED Service!vars
  <2>1. \A v \in Task : /\ pc'[v] = "reply" <=> pc[v] = "reply"
                        /\ pc[v] = "reply" => cur'[v] = cur[v]
    <3>1. "reply" \notin {"user", "init", "statfs", "stray"}
      OBVIOUS
    <3>2. pc[t] # "reply" /\ pc'[t] # "reply"
      BY Zenon, <1>0, <1>3, <3>1 DEF TypeOK
    <3>3. \A v \in Task : v # t => pc'[v] = pc[v] /\ cur'[v] = cur[v]
      BY Zenon, <1>0, <1>3 DEF TypeOK
    <3> QED BY Zenon, <3>2, <3>3
  <2>2. \A c : Seen(c)' = Seen(c)
    BY Zenon, <1>3, SameRequests
  <2> QED BY Zenon, <1>3, <2>1, <2>2, NothingSeen
<1>4. CASE RequestSend(t)
  <2>1. PICK p \in {"init", "statfs"} :
          /\ sb = "mounted" \/ (p = "statfs" /\ sb = "umounting")
          /\ \/ /\ pc' = [pc EXCEPT ![t] = p]
                /\ UNCHANGED <<last_unique, listVars, reqVars, cur>>
             \/ \E op \in OpsOf(p) : Enqueue(t, op)
    BY Zenon, <1>4 DEF RequestSend
  <2>2. pc[t] = "user" /\ connected /\ UNCHANGED <<sb, connected, i_count>>
    BY Zenon, <1>4 DEF RequestSend, inodeVars
  <2>3. CASE \E op \in OpsOf(p) : Enqueue(t, op)
    BY Zenon, <1>2, <2>1, <2>2, <2>3
  <2>4. CASE pc' = [pc EXCEPT ![t] = p] /\ UNCHANGED <<last_unique, listVars, reqVars, cur>>
    BY Zenon, <1>3, <2>2, <2>4 DEF reqVars
  <2> QED BY Zenon, <2>1, <2>3, <2>4
<1>5. CASE InitWake(t)
  <2>1. pc[t] \in {"init", "statfs"} /\ UNCHANGED <<sb, connected, i_count>>
    BY Zenon, <1>5 DEF InitWake, inodeVars
  <2>2. CASE connected /\ \E op \in OpsOf(pc[t]) : Enqueue(t, op)
    <3>1. sb = "mounted" \/ (pc[t] = "statfs" /\ sb = "umounting")
      BY Zenon, <1>0, <2>1, <2>2 DEF TypeOK, UsersInv
    <3> QED BY Zenon, <1>2, <2>1, <2>2, <3>1
  <2>3. CASE ~(connected /\ \E op \in OpsOf(pc[t]) : Enqueue(t, op))
    <3>1. /\ UNCHANGED <<last_unique, listVars, reqVars>>
          /\ pc' = pc \/ pc' = [pc EXCEPT ![t] = "user"]
          /\ cur' = cur \/ cur' = [cur EXCEPT ![t] = None]
      BY Zenon, <1>5, <2>3 DEF InitWake, Return
    <3> QED BY Zenon, <1>3, <2>1, <3>1 DEF reqVars
  <2> QED BY Zenon, <2>2, <2>3
<1>6. CASE FreedWake(t)
  <2>1. /\ UNCHANGED <<sb, connected, i_count, last_unique, listVars, opcode, reply, cur>>
        /\ pc[t] \in {"init", "statfs"} /\ \E p \in {"user", "stray"} : pc' = [pc EXCEPT ![t] = p]
    BY Zenon, <1>6 DEF FreedWake, inodeVars, connVars, reqVars
  <2> QED BY Zenon, <1>3, <2>1
<1> QED BY Zenon, <1>1, <1>4, <1>5, <1>6 DEF Request

(* read and select take a request, or a forget, or nothing. *)
LEMMA CompleteRefines ==
  ASSUME IInv, NEW call, Complete(call), Ready, UNCHANGED readUnchanged,
         \A t \in Task : pc'[t] = "reply" <=> pc[t] = "reply"
  PROVE  Service!Next \/ UNCHANGED Service!vars
<1>1. UNCHANGED <<connected, sb, opcode, reply, cur, i_count>>
  BY Zenon DEF readUnchanged, inodeVars
<1>2. CASE UNCHANGED <<last_unique, listVars, forgets, state, granted>>
  <2>1. \A c : Seen(c)' = Seen(c)
    BY Zenon, <1>1, <1>2, SameRequests
  <2> QED BY Zenon, <1>1, <1>2, <2>1, NothingSeen
<1>3. CASE connected /\ pending # <<>> /\ TakeRequest
  BY Zenon, <1>1, <1>3, ReadTakes DEF Service!Next
<1>4. CASE connected /\ TakeForget
  <2>1. last_unique' = last_unique + 1 /\ UNCHANGED listVars
    BY Zenon, <1>4 DEF TakeForget
  <2>2. \A c : Seen(c)' = Seen(c)
    BY Zenon, <1>1, <2>1, SameRequests
  <2>3. Calls' = Calls
    <3>1. ASSUME NEW v \in Task PROVE Calls'[v] = Calls[v]
      BY Zenon, <1>1, <2>2, CallKept
    <3>2. Calls = [v \in Task |-> Calls[v]] /\ Calls' = [v \in Task |-> Calls'[v]]
      BY Zenon DEF Calls
    <3> QED BY Zenon, <3>1, <3>2
  <2>4. Service!Forget
    BY Zenon, <1>1, <1>4, <2>1, <2>3 DEF Service!Forget
  <2> QED BY Zenon, <2>4 DEF Service!Next
<1> QED BY Zenon, <1>2, <1>3, <1>4 DEF Complete

(* The daemon's calls. *)
LEMMA ServeRefines ==
  ASSUME IInv, NEW t \in Task, Serve(t)
  PROVE  Service!Next \/ UNCHANGED Service!vars
<1>0. TypeOK
  BY Zenon DEF IInv
<1>1. "reply" \notin ReadCall \cup {"user"}
  BY FuseAssumption
<1>2. CASE \E u \in Unique : \E r \in Node \cup {"ok", "error"} : Write(t, u, r)
  BY Zenon, <1>2, WriteAnswers DEF Service!Next
<1>3. CASE \E call \in ReadCall : ReadNow(t, call)
  <2>1. PICK call \in ReadCall : ReadNow(t, call)
    BY Zenon, <1>3
  <2>2. Ready /\ Complete(call) /\ UNCHANGED readUnchanged /\ UNCHANGED pc
    BY Zenon, <2>1 DEF ReadNow
  <2> QED BY Zenon, <2>2, CompleteRefines
<1>4. CASE ReadWake(t) /\ Ready
  <2>1. /\ Complete(pc[t]) /\ UNCHANGED readUnchanged
        /\ pc[t] \in ReadCall /\ pc' = [pc EXCEPT ![t] = "user"]
    BY Zenon, <1>4 DEF ReadWake
  <2>2. \A v \in Task : pc'[v] = "reply" <=> pc[v] = "reply"
    BY Zenon, <1>0, <1>1, <2>1 DEF TypeOK
  <2> QED BY Zenon, <1>4, <2>1, <2>2, CompleteRefines
<1>5. CASE \/ \E call \in ReadCall : ReadSleep(t, call)
           \/ ReadWake(t) /\ ~Ready
           \/ Signal(t)
  <2>1. UNCHANGED <<connected, sb, last_unique, listVars, opcode, reply, cur, i_count>>
    BY Zenon, <1>5 DEF ReadSleep, ReadWake, Signal, readUnchanged, inodeVars, connVars, reqVars
  <2>2. pc[t] \in ReadCall \cup {"user"}
    BY Zenon, <1>5 DEF ReadSleep, ReadWake, Signal
  <2>3. pc' = pc \/ \E p \in ReadCall \cup {"user"} : pc' = [pc EXCEPT ![t] = p]
    BY Zenon, <1>5 DEF ReadSleep, ReadWake, Signal
  <2>4. \A v \in Task : pc'[v] = "reply" <=> pc[v] = "reply"
    <3>1. pc \in [Task -> {"user", "init", "statfs", "reply", "sync", "stray"} \cup ReadCall]
      BY Zenon, <1>0 DEF TypeOK
    <3>2. pc'[t] \in ReadCall \cup {"user"} /\ \A v \in Task : v # t => pc'[v] = pc[v]
      BY Zenon, <2>2, <2>3, <3>1
    <3> QED BY Zenon, <1>1, <2>2, <3>2
  <2>5. \A c : Seen(c)' = Seen(c)
    BY Zenon, <2>1, SameRequests
  <2> QED BY Zenon, <2>1, <2>4, <2>5, NothingSeen
<1> QED BY Zenon, <1>2, <1>3, <1>4, <1>5 DEF Serve

(* Every step of the connection is a step of the service, or none. *)
LEMMA NextRefines == IInv /\ [Next]_vars => [Service!Next]_Service!vars
<1> SUFFICES ASSUME IInv, [Next]_vars PROVE Service!Next \/ UNCHANGED Service!vars
  BY Zenon
<1>1. CASE UNCHANGED <<connected, sb, last_unique, i_count, pc, cur, listVars, opcode, reply>>
  <2>1. \A c : Seen(c)' = Seen(c)
    BY Zenon, <1>1, SameRequests
  <2> QED BY Zenon, <1>1, <2>1, NothingSeen
<1>2. ASSUME NEW t \in Task, File(t) PROVE Service!Next \/ UNCHANGED Service!vars
  <2>1. CASE Close(t)
    BY Zenon, <2>1, CloseTakesDown DEF Service!Next
  <2>2. CASE \E u \in Task : Share(t, u)
    BY Zenon, <1>1, <2>2 DEF Share, connVars, reqVars, taskVars, inodeVars
  <2> QED BY Zenon, <1>2, <2>1, <2>2 DEF File
<1>3. ASSUME NEW i \in Ino, Iput(i) PROVE Service!Next \/ UNCHANGED Service!vars
  <2>1. /\ i_count[i] > 0 /\ i_count' = [i_count EXCEPT ![i] = @ - 1]
        /\ UNCHANGED <<connected, sb, last_unique, pc, cur, listVars, opcode, reply>>
    BY Zenon, <1>3 DEF Iput, connVars, reqVars
  <2>2. \A c : Seen(c)' = Seen(c)
    BY Zenon, <2>1, SameRequests
  <2>3. Calls' = Calls
    <3>1. ASSUME NEW v \in Task PROVE Calls'[v] = Calls[v]
      BY Zenon, <2>1, <2>2, CallKept
    <3>2. Calls = [v \in Task |-> Calls[v]] /\ Calls' = [v \in Task |-> Calls'[v]]
      BY Zenon DEF Calls
    <3> QED BY Zenon, <3>1, <3>2
  <2>4. Service!Drop(i) /\ i \in Service!Ino
    BY Zenon, <2>1, <2>3 DEF Service!Drop, Service!Ino, Ino
  <2> QED BY Zenon, <2>4 DEF Service!Next
<1>4. CASE UNCHANGED vars
  BY Zenon, <1>1, <1>4 DEF vars, connVars, reqVars, taskVars, inodeVars
<1> QED BY Zenon, <1>2, <1>3, <1>4, SuperBlockRefines, RequestRefines, ServeRefines DEF Next

(* The connection implements FuseService for every set of tasks, nodes and inode
   numbers: each call gets to the daemon once and in order, and returns with its
   answer, or with an error when fuse_conn_abort came first. *)
THEOREM ServiceRefinement == Spec => ImplementsService
<1>1. Init => Service!Init
  <2> SUFFICES ASSUME Init PROVE Service!Init
    OBVIOUS
  <2>1. /\ connected = TRUE /\ sb = "none" /\ last_unique = 0 /\ i_count = [i \in Ino |-> 0]
        /\ pc = [t \in Task |-> "user"]
    BY Zenon DEF Init
  <2>2. Calls = [t \in Task |-> Service!Idle]
    <3>1. "user" # "reply"
      OBVIOUS
    <3> QED BY Zenon, <2>1, <3>1, SeenFields DEF Calls
  <2> QED BY Zenon, <2>1, <2>2 DEF Service!Init, Service!Ino, Ino
<1> QED BY <1>1, NextRefines, Invariance, PTL DEF Spec, ImplementsService, Service!Spec
===============================================================================
