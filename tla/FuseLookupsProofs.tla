--------------------------- MODULE FuseLookupsProofs --------------------------
(***************************************************************************)
(* Proofs about the lookup counts of a FUSE connection: the kernel gives   *)
(* back no more lookups of a node than the daemon granted.                 *)
(***************************************************************************)
EXTENDS FuseProofs, FuseLookups, FiniteSetTheorems

-------------------------------------------------------------------------------
(* Lookups. *)

ForgetRec == [nodeid : Node, nlookup : Nat \ {0}]

(* An inode in use is that of a node with its number. *)
NumberInv == \A i \in Ino : i_count[i] > 0 => InoOf[nodeid[i]] = i

(* The queued forgets are finitely many, and the counts balance. *)
NodeOk(n) ==
  /\ IsFiniteSet(Forgotten(n))
  /\ granted[n] >= nlookup[InoOf[n]] + Cardinality(Forgotten(n)) + Cardinality(InTransit(n))

LookupInv == NumberInv /\ \A n \in Node : OwnIno(n) => NodeOk(n)

(* The lookups that one forget gives back. *)
LEMMA OneForget ==
  ASSUME NEW k \in Nat, NEW c \in Nat \ {0}
  PROVE  IsFiniteSet({k} \X (1 .. c)) /\ Cardinality({k} \X (1 .. c)) = c
<1>1. IsFiniteSet(1 .. c) /\ Cardinality(1 .. c) = c
  <2>1. 1 \in Int /\ c \in Int /\ ~(1 > c) /\ c - 1 + 1 = c
    OBVIOUS
  <2> QED BY Zenon, <2>1, FS_Interval
<1>2. IsFiniteSet({k}) /\ Cardinality({k}) = 1
  BY Zenon, FS_Singleton
<1> DEFINE S == {k}
           T == 1 .. c
<1> HIDE DEF S, T
<1>3. IsFiniteSet(S \X T) /\ Cardinality(S \X T) = Cardinality(S) * Cardinality(T)
  BY Zenon, <1>1, <1>2, FS_Product DEF S, T
<1>4. Cardinality(S) = 1 /\ Cardinality(T) = c
  BY Zenon, <1>1, <1>2 DEF S, T
<1>5. Cardinality(S \X T) = c
  BY <1>3, <1>4
<1> QED BY Zenon, <1>3, <1>5 DEF S, T

(* What is in Lookups. *)
LEMMA LookupsAre ==
  ASSUME NEW f, NEW n
  PROVE  \A x : x \in Lookups(f, n) <=>
           \E k \in 1 .. Len(f) : f[k].nodeid = n /\ x \in {k} \X (1 .. f[k].nlookup)
BY Zenon DEF Lookups

(* A forget that is queued adds its lookups to those of its node. *)
LEMMA LookupsAppend ==
  ASSUME NEW f \in Seq(ForgetRec), NEW r \in ForgetRec, NEW n \in Node,
         IsFiniteSet(Lookups(f, n))
  PROVE  /\ IsFiniteSet(Lookups(Append(f, r), n))
         /\ Cardinality(Lookups(Append(f, r), n)) =
              Cardinality(Lookups(f, n)) + (IF r.nodeid = n THEN r.nlookup ELSE 0)
<1> DEFINE g == Append(f, r)
           l == Len(f)
           new == {l + 1} \X (1 .. r.nlookup)
<1>1. l \in Nat /\ Len(g) = l + 1 /\ g[l + 1] = r /\ \A k \in 1 .. l : g[k] = f[k]
  BY AppendFacts
<1>2. 1 .. Len(g) = (1 .. l) \cup {l + 1} /\ l + 1 \notin 1 .. l /\ l + 1 \in Nat
  BY <1>1
<1>3. r.nodeid \in Node /\ r.nlookup \in Nat \ {0}
  BY DEF ForgetRec
<1> HIDE DEF g, l
<1>4. \A x : x \in Lookups(g, n) <=>
               x \in Lookups(f, n) \/ (r.nodeid = n /\ x \in {l + 1} \X (1 .. r.nlookup))
  <2> SUFFICES ASSUME NEW x
               PROVE  x \in Lookups(g, n) <=>
                        x \in Lookups(f, n) \/ (r.nodeid = n /\ x \in new)
    BY Zenon
  <2>1. x \in Lookups(g, n) <=> \E k \in 1 .. Len(g) : g[k].nodeid = n /\ x \in {k} \X (1 .. g[k].nlookup)
    BY LookupsAre
  <2>2. x \in Lookups(f, n) <=> \E k \in 1 .. l : f[k].nodeid = n /\ x \in {k} \X (1 .. f[k].nlookup)
    BY LookupsAre DEF l
  <2> QED BY Zenon, <1>1, <1>2, <2>1, <2>2
<1>5. CASE r.nodeid = n
  <2>1. Lookups(g, n) = Lookups(f, n) \cup new
    BY Zenon, <1>4, <1>5
  <2>2. Lookups(f, n) \cap new = {}
    <3>1. ASSUME NEW x \in Lookups(f, n), x \in new PROVE FALSE
      <4>1. PICK k \in 1 .. l : x \in {k} \X (1 .. f[k].nlookup)
        BY Zenon, <3>1, LookupsAre DEF l
      <4>2. x[1] = k /\ x[1] = l + 1
        BY Zenon, <3>1, <4>1
      <4> QED BY Zenon, <1>2, <4>2
    <3> QED BY Zenon, <3>1
  <2>3. IsFiniteSet(new) /\ Cardinality(new) = r.nlookup
    BY Zenon, <1>2, <1>3, OneForget
  <2>4. Cardinality({}) = 0 /\ Cardinality(Lookups(f, n)) \in Nat
    BY Zenon, FS_EmptySet, FS_CardinalityType
  <2> HIDE DEF new
  <2>5. /\ IsFiniteSet(Lookups(g, n))
        /\ Cardinality(Lookups(g, n)) = Cardinality(Lookups(f, n)) + Cardinality(new)
                                        - Cardinality(Lookups(f, n) \cap new)
    BY Zenon, <2>1, <2>3, FS_Union
  <2>6. Cardinality(Lookups(f, n) \cap new) = 0 /\ Cardinality(new) = r.nlookup
    BY Zenon, <2>2, <2>3, <2>4
  <2>7. Cardinality(Lookups(g, n)) = Cardinality(Lookups(f, n)) + r.nlookup
    BY <1>3, <2>4, <2>5, <2>6
  <2> QED BY Zenon, <1>5, <2>5, <2>7 DEF g
<1>6. CASE r.nodeid # n
  <2>1. Lookups(g, n) = Lookups(f, n)
    BY Zenon, <1>4, <1>6
  <2>2. Cardinality(Lookups(f, n)) \in Nat
    BY Zenon, FS_CardinalityType
  <2> QED BY <1>6, <2>1, <2>2 DEF g
<1> QED BY Zenon, <1>5, <1>6

(* A forget that is read takes its lookups with it. *)
LEMMA LookupsTail ==
  ASSUME NEW f \in Seq(ForgetRec), f # <<>>, NEW n \in Node, IsFiniteSet(Lookups(f, n))
  PROVE  /\ IsFiniteSet(Lookups(Tail(f), n))
         /\ Cardinality(Lookups(Tail(f), n)) + (IF Head(f).nodeid = n THEN Head(f).nlookup ELSE 0)
              <= Cardinality(Lookups(f, n))
<1> DEFINE g == Tail(f)
           r == Head(f)
           first == IF r.nodeid = n THEN {1} \X (1 .. r.nlookup) ELSE {}
           rest == Lookups(f, n) \ first
           next == [x \in Lookups(g, n) |-> <<x[1] + 1, x[2]>>]
<1>1. /\ Len(f) \in Nat \ {0} /\ Len(g) = Len(f) - 1 /\ r = f[1] /\ r \in ForgetRec
      /\ \A k \in 1 .. Len(f) - 1 : g[k] = f[k + 1]
  BY Zenon, TailFacts
<1> HIDE DEF g, r
<1>2. r.nlookup \in Nat \ {0} /\ 1 \in 1 .. Len(f) /\ 1 \in Nat
  BY <1>1 DEF ForgetRec
<1>3. first \subseteq Lookups(f, n)
  BY <1>1, <1>2, LookupsAre
<1>4. IsFiniteSet(first) /\ Cardinality(first) = IF r.nodeid = n THEN r.nlookup ELSE 0
  <2>1. CASE r.nodeid = n
    BY Zenon, <1>2, <2>1, OneForget
  <2>2. CASE r.nodeid # n
    BY Zenon, <2>2, FS_EmptySet
  <2> QED BY Zenon, <2>1, <2>2
<1>5. IsFiniteSet(rest) /\ Cardinality(rest) = Cardinality(Lookups(f, n)) - Cardinality(first)
  <2>1. Lookups(f, n) \cap first = first
    BY Zenon, <1>3
  <2> HIDE DEF first
  <2> QED BY Zenon, <2>1, FS_Difference
<1>6. next \in Injection(Lookups(g, n), rest)
  <2>1. ASSUME NEW x \in Lookups(g, n)
        PROVE  /\ <<x[1] + 1, x[2]>> \in rest
               /\ x[1] \in Nat /\ x = <<x[1], x[2]>>
    <3>1. PICK k \in 1 .. Len(g) : g[k].nodeid = n /\ x \in {k} \X (1 .. g[k].nlookup)
      BY LookupsAre
    <3>2. k \in 1 .. Len(f) - 1 /\ k + 1 \in 1 .. Len(f) /\ k \in Nat /\ k + 1 # 1
      BY <1>1, <3>1
    <3>3. f[k + 1].nodeid = n /\ f[k + 1].nlookup = g[k].nlookup
      BY Zenon, <1>1, <3>1, <3>2
    <3>4. x[1] = k /\ x[2] \in 1 .. g[k].nlookup /\ x = <<x[1], x[2]>>
      BY <3>1
    <3>5. <<x[1] + 1, x[2]>> \in {k + 1} \X (1 .. f[k + 1].nlookup)
      BY Zenon, <3>3, <3>4
    <3>6. <<x[1] + 1, x[2]>> \in Lookups(f, n)
      BY Zenon, <3>2, <3>3, <3>5, LookupsAre
    <3>7. <<x[1] + 1, x[2]>> \notin first
      BY Zenon, <3>2, <3>4
    <3> QED BY Zenon, <3>2, <3>4, <3>6, <3>7
  <2>2. next \in [Lookups(g, n) -> rest]
    BY Zenon, <2>1
  <2>3. ASSUME NEW x \in Lookups(g, n), NEW y \in Lookups(g, n), next[x] = next[y]
        PROVE  x = y
    <3>1. <<x[1] + 1, x[2]>> = <<y[1] + 1, y[2]>>
      BY Zenon, <2>3
    <3>2. x[1] + 1 = y[1] + 1 /\ x[2] = y[2]
      BY Zenon, <3>1
    <3>3. x[1] \in Nat /\ y[1] \in Nat
      BY Zenon, <2>1
    <3>4. x[1] = y[1]
      BY <3>2, <3>3
    <3> QED BY Zenon, <2>1, <3>2, <3>4
  <2> HIDE DEF next, rest
  <2> QED BY Zenon, <2>2, <2>3 DEF Injection, IsInjective
<1>7. IsFiniteSet(Lookups(g, n)) /\ Cardinality(Lookups(g, n)) <= Cardinality(rest)
  <2> HIDE DEF next, rest
  <2> QED BY Zenon, <1>5, <1>6, FS_Injection DEF ExistsInjection
<1>8. Cardinality(Lookups(g, n)) \in Nat /\ Cardinality(Lookups(f, n)) \in Nat
      /\ Cardinality(first) \in Nat
  BY Zenon, <1>4, <1>7, FS_CardinalityType
<1> HIDE DEF first, rest, next
<1>9. Cardinality(Lookups(g, n)) + Cardinality(first) <= Cardinality(Lookups(f, n))
  BY <1>5, <1>7, <1>8
<1> QED BY Zenon, <1>4, <1>7, <1>9 DEF g, r

(* The answers on their way are finitely many. *)
LEMMA TransitFinite ==
  \A n : IsFiniteSet(InTransit(n)) /\ Cardinality(InTransit(n)) \in Nat
<1> SUFFICES ASSUME NEW n PROVE IsFiniteSet(InTransit(n)) /\ Cardinality(InTransit(n)) \in Nat
  BY Zenon
<1>1. 1 \in Int /\ MaxUnique \in Int
  BY FuseAssumption
<1>2. IsFiniteSet(Unique)
  BY Zenon, <1>1, FS_Interval DEF Unique
<1>3. IsFiniteSet(InTransit(n))
  BY Zenon, <1>2, FS_Subset DEF InTransit
<1> QED BY Zenon, <1>3, FS_CardinalityType

(* The types of what the lookups change. *)
LEMMA FieldTypes ==
  ASSUME TypeOK
  PROVE  /\ state \in [Unique -> {"free", "pending", "sent", "finished"}]
         /\ reply \in [Unique -> Node \cup {"ok", "error"}]
         /\ nodeid \in [Ino -> Node \cup {None}]
         /\ nlookup \in [Ino -> Nat] /\ i_count \in [Ino -> Nat]
         /\ granted \in [Node -> Int]
BY Zenon DEF TypeOK

(* What the counts are. *)
LEMMA CountTypes ==
  ASSUME TypeOK, NEW n \in Node
  PROVE  /\ InoOf[n] \in Ino /\ granted[n] \in Int /\ nlookup[InoOf[n]] \in Nat
         /\ i_count[InoOf[n]] \in Nat
         /\ forgets \in Seq(ForgetRec)
         /\ IsFiniteSet(Forgotten(n)) => Cardinality(Forgotten(n)) \in Nat
<1>1. InoOf[n] \in Ino
  BY Zenon DEF Ino
<1> QED BY Zenon, <1>1, FS_CardinalityType DEF TypeOK, ForgetRec

(* The arithmetic of the balance: counts that do not grow, an answer that becomes a
   lookup, lookups that the daemon is told of, and lookups that are queued for it. *)
LEMMA BalanceLess ==
  \A g \in Int, a, b, c, b1, c1 \in Nat : g >= a + b + c /\ b1 <= b /\ c1 <= c => g >= a + b1 + c1
OBVIOUS

LEMMA BalanceFewer ==
  \A g \in Int, a, b, c, a1 \in Nat : g >= a + b + c /\ a1 <= a => g >= a1 + b + c
OBVIOUS

LEMMA BalanceArrived ==
  \A g \in Int, a, b, c \in Nat : g >= a + b + c => g >= (a + 1) + b + (c - 1)
OBVIOUS

LEMMA BalanceTold ==
  \A g \in Int, a, b, c, b1, d \in Nat : g >= a + b + c /\ b1 + d <= b => g - d >= a + b1 + c
OBVIOUS

LEMMA BalanceQueued ==
  \A g \in Int, a, b, c, a1, b1, d \in Nat :
    g >= a + b + c /\ a1 + d = a /\ b1 = b + d => g >= a1 + b1 + c
OBVIOUS

(* A node whose counts are the same, and of which no new answer is on its way, keeps its
   balance.  The queue of forgets is as it was, or is freed. *)
LEMMA NodeKept ==
  ASSUME TypeOK, TypeOK', NEW n \in Node, NodeOk(n),
         granted'[n] = granted[n],
         nlookup'[InoOf[n]] = nlookup[InoOf[n]],
         forgets' \in {forgets, <<>>},
         InTransit(n)' \subseteq InTransit(n)
  PROVE  NodeOk(n)'
<1>1. /\ granted[n] \in Int /\ nlookup[InoOf[n]] \in Nat
      /\ IsFiniteSet(Forgotten(n)) => Cardinality(Forgotten(n)) \in Nat
  BY Zenon, CountTypes
<1>2. Cardinality(InTransit(n)') <= Cardinality(InTransit(n))
  BY Zenon, TransitFinite, FS_Subset
<1>3. Cardinality(InTransit(n)') \in Nat /\ Cardinality(InTransit(n)) \in Nat
  <2>1. IsFiniteSet(InTransit(n)')
    BY Zenon, TransitFinite, FS_Subset
  <2> QED BY Zenon, <2>1, TransitFinite, FS_CardinalityType
<1>4. IsFiniteSet(Forgotten(n)') /\ (Forgotten(n)' = Forgotten(n) \/ Forgotten(n)' = {})
  <2>1. CASE forgets' = forgets
    BY Zenon, <2>1 DEF NodeOk, Forgotten
  <2>2. CASE forgets' = <<>>
    <3>1. 1 .. Len(<<>>) = {}
      OBVIOUS
    <3>2. \A x : x \notin Lookups(<<>>, n)
      BY Zenon, <3>1 DEF Lookups
    <3>3. Forgotten(n)' = {}
      BY Zenon, <2>2, <3>2 DEF Forgotten
    <3> QED BY Zenon, <3>3, FS_EmptySet
  <2> QED BY Zenon, <2>1, <2>2
<1>5. /\ Cardinality(Forgotten(n)) \in Nat /\ Cardinality(Forgotten(n)') \in Nat
      /\ Cardinality(Forgotten(n)') <= Cardinality(Forgotten(n))
  <2>1. Cardinality(Forgotten(n)) \in Nat /\ Cardinality({}) = 0
    BY Zenon, <1>1, FS_EmptySet DEF NodeOk
  <2>2. CASE Forgotten(n)' = Forgotten(n)
    BY <2>1, <2>2
  <2>3. CASE Forgotten(n)' = {}
    BY <2>1, <2>3
  <2> QED BY Zenon, <1>4, <2>2, <2>3
<1>6. granted[n] >= nlookup[InoOf[n]] + Cardinality(Forgotten(n)) + Cardinality(InTransit(n))
  BY Zenon DEF NodeOk
<1>7. granted[n] >= nlookup[InoOf[n]] + Cardinality(Forgotten(n)') + Cardinality(InTransit(n)')
  BY Zenon, <1>1, <1>2, <1>3, <1>5, <1>6, BalanceLess
<1> QED BY Zenon, <1>4, <1>7 DEF NodeOk

(* Steps that grant and give back nothing and bring no answer with an entry. *)
LEMMA QuietLookups ==
  ASSUME IInv, IInv', LookupInv, UNCHANGED <<inodeVars, granted>>, forgets' \in {forgets, <<>>},
         \A u \in Unique : state'[u] = "finished" /\ reply'[u] \in Node =>
                             state[u] = "finished" /\ reply[u] = reply'[u]
  PROVE  LookupInv'
<1>0. NumberInv'
  BY Zenon DEF LookupInv, NumberInv, inodeVars
<1> SUFFICES ASSUME NEW n \in Node, OwnIno(n) PROVE NodeOk(n)'
  BY Zenon, <1>0 DEF LookupInv, OwnIno
<1>1. InTransit(n)' \subseteq InTransit(n)
  BY Zenon DEF InTransit
<1> QED BY Zenon, <1>1, NodeKept DEF IInv, LookupInv, inodeVars

(* No answer that names a node is new. *)
NoNewAnswer ==
  \A u \in Unique : state'[u] = "finished" /\ reply'[u] \in Node =>
                      state[u] = "finished" /\ reply[u] = reply'[u]

(* One request whose state changes, and not to "finished", is no new answer. *)
LEMMA OneNotFinished ==
  ASSUME TypeOK, NEW u \in Unique, NEW s, s # "finished",
         state' = [state EXCEPT ![u] = s], UNCHANGED reply
  PROVE  NoNewAnswer
<1>1. \A v \in Unique : state'[v] = IF v = u THEN s ELSE state[v]
  BY Zenon DEF TypeOK
<1> QED BY Zenon, <1>1 DEF NoNewAnswer

(* A request that is sent is no answer. *)
LEMMA EnqueueQuiet ==
  ASSUME TypeOK, NEW t, NEW op, Enqueue(t, op)
  PROVE  NoNewAnswer
<1>1. last_unique + 1 \in Unique
  <2>1. last_unique \in 0 .. MaxUnique /\ last_unique < MaxUnique /\ MaxUnique \in Nat
    BY Zenon, FuseAssumption DEF TypeOK, Enqueue
  <2> QED BY <2>1 DEF Unique
<1> QED BY Zenon, <1>1, OneNotFinished DEF Enqueue

(* The answers that fuse_conn_abort gives name no node. *)
LEMMA AbortQuiet ==
  ASSUME Abort
  PROVE  NoNewAnswer
<1>1. \A u \in Unique : /\ u \in Outstanding => reply'[u] = "error"
                        /\ u \notin Outstanding => state'[u] = state[u] /\ reply'[u] = reply[u]
  BY Zenon DEF Abort
<1> QED BY Zenon, <1>1, FuseAssumption DEF NoNewAnswer

LEMMA PutSuperQuiet ==
  ASSUME NEW t, PutSuper(t)
  PROVE  NoNewAnswer /\ UNCHANGED <<inodeVars, granted>> /\ forgets' \in {forgets, <<>>}
BY Zenon, AbortQuiet DEF PutSuper, ConnPut

(* The calls on the file system and on the device that neither look up nor forget. *)
LEMMA QuietCalls ==
  ASSUME IInv, IInv', LookupInv, NEW t \in Task,
         File(t) \/ SuperBlock(t) \/ RequestSend(t) \/ FreedWake(t) \/ InitWake(t)
  PROVE  LookupInv'
<1>1. TypeOK
  BY Zenon DEF IInv
<1>2. CASE File(t)
  <2>1. CASE holders = {t} /\ Close(t)
    <3>1. Abort /\ ConnPut /\ UNCHANGED <<inodeVars, granted>>
      BY Zenon, <2>1 DEF Close
    <3> QED BY Zenon, <3>1, AbortQuiet, QuietLookups DEF ConnPut, NoNewAnswer
  <2>2. CASE ~(holders = {t} /\ Close(t))
    <3>1. UNCHANGED <<forgets, state, reply, inodeVars, granted>>
      BY Zenon, <1>2, <2>2 DEF File, Share, Close, reqVars
    <3> QED BY Zenon, <3>1, QuietLookups
  <2> QED BY Zenon, <2>1, <2>2
<1>3. CASE SuperBlock(t)
  <2>1. CASE Mount(t)
    <3>1. UNCHANGED <<forgets, reply, inodeVars, granted>>
      BY Zenon, <2>1 DEF Mount
    <3>2. last_unique + 1 \in Unique
      <4>1. last_unique \in 0 .. MaxUnique /\ last_unique < MaxUnique /\ MaxUnique \in Nat
        BY Zenon, <1>1, <2>1, FuseAssumption DEF TypeOK, Mount
      <4> QED BY <4>1 DEF Unique
    <3>3. \/ state' = [state EXCEPT ![last_unique + 1] = "pending"]
          \/ state' = state
      BY Zenon, <2>1 DEF Mount
    <3>4. NoNewAnswer
      BY Zenon, <1>1, <3>1, <3>2, <3>3, OneNotFinished DEF NoNewAnswer
    <3> QED BY Zenon, <3>1, <3>4, QuietLookups DEF NoNewAnswer
  <2>2. CASE PutSuper(t)
    BY Zenon, <2>2, PutSuperQuiet, QuietLookups DEF NoNewAnswer
  <2>3. CASE Umount(t) /\ ~PutSuper(t)
    <3>1. Enqueue(t, "DESTROY") /\ UNCHANGED <<forgets, inodeVars, granted>>
      BY Zenon, <2>3 DEF Umount
    <3>2. NoNewAnswer
      BY Zenon, <1>1, <3>1, EnqueueQuiet
    <3> QED BY Zenon, <3>1, <3>2, QuietLookups DEF NoNewAnswer
  <2> QED BY Zenon, <1>3, <2>1, <2>2, <2>3 DEF SuperBlock, UmountSync
<1>4. CASE RequestSend(t) \/ FreedWake(t) \/ InitWake(t)
  <2>1. UNCHANGED <<forgets, inodeVars, granted>>
    BY Zenon, <1>4 DEF RequestSend, FreedWake, InitWake
  <2>2. UNCHANGED reqVars \/ \E op : Enqueue(t, op)
    BY Zenon, <1>4 DEF RequestSend, FreedWake, InitWake
  <2>3. NoNewAnswer
    <3>1. CASE UNCHANGED reqVars
      BY Zenon, <3>1 DEF reqVars, NoNewAnswer
    <3> QED BY Zenon, <1>1, <2>2, <3>1, EnqueueQuiet
  <2> QED BY Zenon, <2>1, <2>3, QuietLookups DEF NoNewAnswer
<1> QED BY Zenon, <1>2, <1>3, <1>4

(* fuse_iget counts a lookup that was on its way. *)
LEMMA WakeLookups ==
  ASSUME IInv, IInv', LookupInv, NEW t \in Task, RequestWake(t)
  PROVE  LookupInv'
<1> DEFINE u == cur[t]
           m == reply[u]
<1>1. TypeOK /\ TypeOK' /\ u \in Unique /\ UNCHANGED <<forgets, granted>>
  BY Zenon DEF IInv, WaitersInv, RequestWake
<1>2. CASE UNCHANGED <<reqVars, inodeVars>>
  BY Zenon, <1>1, <1>2, QuietLookups DEF reqVars
<1>3. CASE ~UNCHANGED <<reqVars, inodeVars>>
  <2>1. state' = [state EXCEPT ![u] = "free"] /\ UNCHANGED reply
    BY Zenon, <1>3 DEF RequestWake
  <2>2. \A v \in Unique : state'[v] = IF v = u THEN "free" ELSE state[v]
    BY Zenon, <1>1, <2>1, FieldTypes
  <2>3. CASE ~(state[u] = "finished" /\ m \in Node)
    <3>1. UNCHANGED inodeVars
      BY Zenon, <1>3, <2>3 DEF RequestWake
    <3>2. NoNewAnswer
      BY Zenon, <1>1, <2>1, OneNotFinished
    <3> QED BY Zenon, <1>1, <3>1, <3>2, QuietLookups DEF NoNewAnswer
  <2>4. CASE state[u] = "finished" /\ m \in Node
    <3>1. Iget(m)
      BY Zenon, <1>3, <2>4 DEF RequestWake
    <3>2. InoOf[m] \in Ino
      BY Zenon, <2>4 DEF Ino
    <3>3. \A i \in Ino : /\ nodeid'[i] = IF i = InoOf[m] THEN m ELSE nodeid[i]
                         /\ nlookup'[i] = IF i = InoOf[m] THEN nlookup[i] + 1 ELSE nlookup[i]
                         /\ i \notin {InoOf[m]} => i_count'[i] = i_count[i]
      BY Zenon, <1>1, <3>1, <3>2, FieldTypes DEF Iget
    <3>0. NumberInv'
      BY Zenon, <3>3 DEF LookupInv, NumberInv
    <3> SUFFICES ASSUME NEW n \in Node, OwnIno(n) PROVE NodeOk(n)'
      BY Zenon, <3>0 DEF LookupInv, OwnIno
    <3>4. NodeOk(n) /\ InoOf[n] \in Ino
      BY Zenon DEF LookupInv, Ino
    <3>5. CASE n # m
      <4>1. InoOf[n] # InoOf[m]
        BY Zenon, <2>4, <3>5 DEF OwnIno
      <4>2. InTransit(n)' \subseteq InTransit(n)
        <5>1. \A v \in Unique : state'[v] = "finished" => state[v] = "finished"
          BY Zenon, <2>2
        <5> QED BY Zenon, <2>1, <5>1 DEF InTransit
      <4> HIDE DEF m
      <4> QED BY Zenon, <1>1, <3>3, <3>4, <4>1, <4>2, NodeKept
    <3>6. CASE n = m
      <4>1. u \in InTransit(n) /\ InTransit(n)' = InTransit(n) \ {u}
        <5>1. \A v \in Unique : state'[v] = "finished" <=> v # u /\ state[v] = "finished"
          BY Zenon, <2>2
        <5>2. u \in InTransit(n)
          BY Zenon, <1>1, <2>4, <3>6 DEF InTransit
        <5>3. \A v \in Unique : v \in InTransit(n)' <=> state'[v] = "finished" /\ reply[v] = n
          BY Zenon, <1>1, <2>1 DEF InTransit
        <5>4. \A v : v \in InTransit(n) <=> v \in Unique /\ state[v] = "finished" /\ reply[v] = n
          BY Zenon DEF InTransit
        <5>5. \A v : v \in InTransit(n)' => v \in Unique
          BY Zenon DEF InTransit
        <5> HIDE DEF u
        <5>6. \A v : v \in InTransit(n)' <=> v \in InTransit(n) \ {u}
          BY Zenon, <5>1, <5>3, <5>4, <5>5
        <5> QED BY Zenon, <5>2, <5>6
      <4>2. Cardinality(InTransit(n)') = Cardinality(InTransit(n)) - 1
        BY Zenon, <4>1, TransitFinite, FS_RemoveElement
      <4>3. nlookup'[InoOf[n]] = nlookup[InoOf[n]] + 1
        BY Zenon, <3>3, <3>4, <3>6
      <4>4. Forgotten(n)' = Forgotten(n) /\ granted'[n] = granted[n]
        BY Zenon, <1>1 DEF Forgotten
      <4>5. /\ IsFiniteSet(Forgotten(n))
            /\ granted[n] >= nlookup[InoOf[n]] + Cardinality(Forgotten(n))
                             + Cardinality(InTransit(n))
        BY Zenon, <3>4 DEF NodeOk
      <4>6. /\ granted[n] \in Int /\ nlookup[InoOf[n]] \in Nat
            /\ Cardinality(Forgotten(n)) \in Nat /\ Cardinality(InTransit(n)) \in Nat
        BY Zenon, <1>1, <4>5, CountTypes, TransitFinite
      <4>7. granted[n] >= (nlookup[InoOf[n]] + 1) + Cardinality(Forgotten(n))
                           + (Cardinality(InTransit(n)) - 1)
        BY Zenon, <4>5, <4>6, BalanceArrived
      <4> QED BY Zenon, <4>2, <4>3, <4>4, <4>5, <4>7 DEF NodeOk
    <3> QED BY Zenon, <3>5, <3>6
  <2> QED BY Zenon, <2>3, <2>4
<1> QED BY Zenon, <1>2, <1>3

(* A read that takes a forget takes its lookups from what the daemon counts; any other
   read, select or signal changes no count. *)
LEMMA ReadLookups ==
  ASSUME IInv, IInv', LookupInv, NEW t \in Task, NEW call,
         ReadNow(t, call) \/ ReadSleep(t, call) \/ ReadWake(t) \/ Signal(t)
  PROVE  LookupInv'
<1>1. TypeOK /\ TypeOK' /\ UNCHANGED <<reply, inodeVars>>
  BY Zenon DEF IInv, ReadNow, ReadSleep, ReadWake, Signal, readUnchanged, reqVars
<1>2. \/ UNCHANGED <<forgets, granted, state>>
      \/ connected /\ pending # <<>> /\ TakeRequest
      \/ connected /\ pending = <<>> /\ Ready /\ TakeForget
  BY Zenon DEF ReadNow, ReadSleep, ReadWake, Signal, Complete, reqVars
<1>3. CASE UNCHANGED <<forgets, granted, state>>
  BY Zenon, <1>1, <1>3, QuietLookups
<1>4. CASE pending # <<>> /\ TakeRequest
  <2>1. Head(pending) \in Unique
    BY Zenon, <1>1, <1>4, TailFacts DEF TypeOK
  <2>2. state' = [state EXCEPT ![Head(pending)] = "sent"] /\ UNCHANGED <<forgets, granted>>
    BY Zenon, <1>4 DEF TakeRequest
  <2>3. NoNewAnswer
    BY Zenon, <1>1, <2>1, <2>2, OneNotFinished
  <2> QED BY Zenon, <1>1, <2>2, <2>3, QuietLookups DEF NoNewAnswer
<1>5. CASE connected /\ pending = <<>> /\ Ready /\ TakeForget
  <2> DEFINE f == Head(forgets)
  <2>1. /\ forgets # <<>> /\ forgets' = Tail(forgets) /\ UNCHANGED state
        /\ granted' = [granted EXCEPT ![f.nodeid] = @ - f.nlookup]
    BY Zenon, <1>5 DEF TakeForget, Ready
  <2>2. forgets \in Seq(ForgetRec) /\ f \in ForgetRec
    BY Zenon, <1>1, <2>1, TailFacts DEF TypeOK, ForgetRec
  <2>3. f.nodeid \in Node /\ f.nlookup \in Nat
    BY <2>2 DEF ForgetRec
  <2>4. \A n \in Node : granted'[n] = IF n = f.nodeid THEN granted[n] - f.nlookup ELSE granted[n]
    BY Zenon, <1>1, <2>1, <2>3, FieldTypes
  <2>0. NumberInv'
    BY Zenon, <1>1 DEF LookupInv, NumberInv, inodeVars
  <2> SUFFICES ASSUME NEW n \in Node, OwnIno(n) PROVE NodeOk(n)'
    BY Zenon, <2>0 DEF LookupInv, OwnIno
  <2> DEFINE given == IF f.nodeid = n THEN f.nlookup ELSE 0
             i == InoOf[n]
  <2>5. /\ IsFiniteSet(Forgotten(n))
        /\ granted[n] >= nlookup[i] + Cardinality(Forgotten(n)) + Cardinality(InTransit(n))
    BY Zenon DEF LookupInv, NodeOk
  <2>6. /\ IsFiniteSet(Forgotten(n)')
        /\ Cardinality(Forgotten(n)') + given <= Cardinality(Forgotten(n))
    BY Zenon, <2>1, <2>2, <2>5, LookupsTail DEF Forgotten
  <2>7. InTransit(n)' = InTransit(n)
    BY Zenon, <1>1, <2>1 DEF InTransit
  <2>8. /\ granted[n] \in Int /\ nlookup[i] \in Nat /\ Cardinality(InTransit(n)) \in Nat
        /\ Cardinality(Forgotten(n)) \in Nat /\ Cardinality(Forgotten(n)') \in Nat
    BY Zenon, <1>1, <2>5, <2>6, CountTypes, TransitFinite, FS_CardinalityType
  <2>9. granted'[n] = granted[n] - given
    <3>1. CASE f.nodeid = n
      BY Zenon, <2>4, <3>1
    <3>2. CASE f.nodeid # n
      <4>1. granted'[n] = granted[n] /\ given = 0
        BY Zenon, <2>4, <3>2
      <4>2. \A a \in Int : a = a - 0
        OBVIOUS
      <4> HIDE DEF f, given
      <4> QED BY Zenon, <2>8, <4>1, <4>2
    <3> QED BY Zenon, <3>1, <3>2
  <2>10. given \in Nat
    BY <2>3
  <2> HIDE DEF f, given
  <2>11. granted'[n] >= nlookup[i] + Cardinality(Forgotten(n)') + Cardinality(InTransit(n))
    <3>1. granted[n] - given >= nlookup[i] + Cardinality(Forgotten(n)') + Cardinality(InTransit(n))
      BY Zenon, <2>5, <2>6, <2>8, <2>10, BalanceTold
    <3> QED BY Zenon, <2>9, <3>1
  <2> QED BY Zenon, <1>1, <2>5, <2>6, <2>7, <2>11 DEF NodeOk, inodeVars
<1> QED BY Zenon, <1>2, <1>3, <1>4, <1>5

(* An answer that names a node is counted by the daemon and is on its way. *)
LEMMA WriteLookups ==
  ASSUME IInv, IInv', LookupInv, NEW t \in Task, NEW u \in Unique,
         NEW r \in Node \cup {"ok", "error"}, Write(t, u, r)
  PROVE  LookupInv'
<1>1. /\ TypeOK /\ TypeOK' /\ UNCHANGED <<forgets, inodeVars>>
      /\ u \in processing /\ reply' = [reply EXCEPT ![u] = r]
      /\ r \in Node => opcode[u] = "LOOKUP"
  BY Zenon DEF IInv, Write
<1>2. \A v \in Unique : reply'[v] = IF v = u THEN r ELSE reply[v]
  BY Zenon, <1>1, FieldTypes
<1>3. \E s \in {"free", "finished"} : state' = [state EXCEPT ![u] = s]
  BY Zenon DEF Write, InitReply, CallReply
<1>4. \A v \in Unique : v # u => state'[v] = state[v]
  <2>1. PICK s : state' = [state EXCEPT ![u] = s]
    BY Zenon, <1>3
  <2>2. state \in [Unique -> {"free", "pending", "sent", "finished"}]
    BY Zenon, <1>1 DEF TypeOK
  <2> QED BY Zenon, <2>1, <2>2
<1>5. state[u] # "finished"
  BY Zenon, <1>1 DEF IInv, LinksInv, Linked
<1>6. CASE r \notin Node
  <2>1. UNCHANGED granted
    BY Zenon, <1>6 DEF Write, InitReply, CallReply
  <2>2. NoNewAnswer
    BY Zenon, <1>2, <1>4, <1>6 DEF NoNewAnswer
  <2> QED BY Zenon, <1>1, <2>1, <2>2, QuietLookups DEF NoNewAnswer
<1>7. CASE r \in Node
  <2>1. CallReply(u, r)
    <3>1. opcode[u] # "INIT"
      BY <1>1, <1>7
    <3> QED BY Zenon, <3>1 DEF Write
  <2>2. granted' = [granted EXCEPT ![r] = @ + 1] /\ state'[u] = "finished"
    <3>1. granted' = [granted EXCEPT ![r] = @ + 1] /\ state' = [state EXCEPT ![u] = "finished"]
      BY Zenon, <1>7, <2>1 DEF CallReply
    <3>2. state \in [Unique -> {"free", "pending", "sent", "finished"}]
      BY Zenon, <1>1 DEF TypeOK
    <3> QED BY Zenon, <3>1, <3>2
  <2>3. \A n \in Node : granted'[n] = IF n = r THEN granted[n] + 1 ELSE granted[n]
    <3>1. granted \in [Node -> Int]
      BY Zenon, <1>1 DEF TypeOK
    <3> QED BY Zenon, <1>7, <2>2, <3>1
  <2>0. NumberInv'
    BY Zenon, <1>1 DEF LookupInv, NumberInv, inodeVars
  <2> SUFFICES ASSUME NEW n \in Node, OwnIno(n) PROVE NodeOk(n)'
    BY Zenon, <2>0 DEF LookupInv, OwnIno
  <2>4. NodeOk(n)
    BY Zenon DEF LookupInv
  <2>5. CASE n # r
    <3>1. InTransit(n)' \subseteq InTransit(n)
      BY Zenon, <1>2, <1>4, <2>5 DEF InTransit
    <3> QED BY Zenon, <1>1, <2>3, <2>4, <2>5, <3>1, NodeKept DEF inodeVars
  <2>6. CASE n = r
    <3>1. u \notin InTransit(n) /\ InTransit(n)' = InTransit(n) \cup {u}
      BY Zenon, <1>2, <1>4, <1>5, <2>2, <2>6 DEF InTransit
    <3>2. Cardinality(InTransit(n)') = Cardinality(InTransit(n)) + 1
      BY Zenon, <3>1, TransitFinite, FS_AddElement
    <3>3. granted'[n] = granted[n] + 1
      BY Zenon, <2>3, <2>6
    <3>4. Forgotten(n)' = Forgotten(n) /\ UNCHANGED <<nodeid, nlookup, i_count>>
      BY Zenon, <1>1 DEF Forgotten, inodeVars
    <3>5. /\ IsFiniteSet(Forgotten(n))
          /\ granted[n] >= nlookup[InoOf[n]] + Cardinality(Forgotten(n))
                           + Cardinality(InTransit(n))
      BY Zenon, <2>4 DEF NodeOk
    <3>6. /\ granted[n] \in Int /\ nlookup[InoOf[n]] \in Nat
          /\ Cardinality(Forgotten(n)) \in Nat /\ Cardinality(InTransit(n)) \in Nat
      BY Zenon, <1>1, <3>5, CountTypes, TransitFinite
    <3>7. granted[n] + 1 >= nlookup[InoOf[n]] + Cardinality(Forgotten(n))
                            + (Cardinality(InTransit(n)) + 1)
      BY <3>5, <3>6
    <3> QED BY Zenon, <3>2, <3>3, <3>4, <3>5, <3>7 DEF NodeOk
  <2> QED BY Zenon, <2>5, <2>6
<1> QED BY Zenon, <1>6, <1>7

(* The last user of an inode gives its lookups back, or loses them. *)
LEMMA IputLookups ==
  ASSUME IInv, IInv', LookupInv, NEW i \in Ino, Iput(i)
  PROVE  LookupInv'
<1>1. /\ TypeOK /\ TypeOK' /\ UNCHANGED <<state, reply, granted>> /\ i_count[i] > 0
      /\ i_count' = [i_count EXCEPT ![i] = @ - 1]
  BY Zenon DEF IInv, Iput, reqVars
<1>2. \A j \in Ino : i_count'[j] = IF j = i THEN i_count[j] - 1 ELSE i_count[j]
  BY Zenon, <1>1, FieldTypes
<1>0. NumberInv'
  <2> SUFFICES ASSUME NEW j \in Ino, i_count'[j] > 0 PROVE InoOf[nodeid'[j]] = j
    BY Zenon DEF NumberInv
  <2>1. CASE j = i
    <3>1. i_count[i] # 1
      <4>1. i_count'[i] = i_count[i] - 1
        BY Zenon, <1>2
      <4> QED BY <2>1, <4>1
    <3>2. UNCHANGED nodeid
      BY Zenon, <3>1 DEF Iput
    <3> QED BY Zenon, <1>1, <2>1, <3>2 DEF LookupInv, NumberInv
  <2>2. CASE j # i
    <3>1. i_count[j] > 0
      BY Zenon, <1>2, <2>2
    <3>2. nodeid'[j] = nodeid[j]
      <4>1. nodeid' = [nodeid EXCEPT ![i] = None] \/ nodeid' = nodeid
        BY Zenon DEF Iput, PutInode
      <4>2. nodeid \in [Ino -> Node \cup {None}]
        BY Zenon, <1>1 DEF TypeOK
      <4> QED BY Zenon, <2>2, <4>1, <4>2
    <3> QED BY Zenon, <3>1, <3>2 DEF LookupInv, NumberInv
  <2> QED BY Zenon, <2>1, <2>2
<1> SUFFICES ASSUME NEW n \in Node, OwnIno(n) PROVE NodeOk(n)'
  BY Zenon, <1>0 DEF LookupInv, OwnIno
<1> DEFINE j == InoOf[n]
<1>3. /\ IsFiniteSet(Forgotten(n))
      /\ granted[n] >= nlookup[j] + Cardinality(Forgotten(n)) + Cardinality(InTransit(n))
  BY Zenon DEF LookupInv, NodeOk
<1>4. /\ j \in Ino /\ granted[n] \in Int /\ nlookup[j] \in Nat
      /\ Cardinality(Forgotten(n)) \in Nat /\ Cardinality(InTransit(n)) \in Nat
      /\ forgets \in Seq(ForgetRec)
  BY Zenon, <1>1, <1>3, CountTypes, TransitFinite
<1>5. InTransit(n)' = InTransit(n)
  BY Zenon, <1>1 DEF InTransit
<1>7. CASE i_count[i] # 1
  <2>1. UNCHANGED <<nodeid, nlookup, forgets>>
    BY Zenon, <1>7 DEF Iput
  <2> QED BY Zenon, <1>1, <1>3, <1>5, <2>1 DEF NodeOk, Forgotten
<1>8. CASE i_count[i] = 1
  <2>1. /\ nlookup' = [nlookup EXCEPT ![i] = 0]
        /\ \/ UNCHANGED forgets
           \/ /\ nlookup[i] > 0
              /\ forgets' = Append(forgets, [nodeid |-> nodeid[i], nlookup |-> nlookup[i]])
    BY Zenon, <1>8 DEF Iput, PutInode, QueueForget
  <2>2. \A k \in Ino : nlookup'[k] = IF k = i THEN 0 ELSE nlookup[k]
    BY Zenon, <1>1, <2>1, FieldTypes
  <2>4. CASE UNCHANGED forgets
    <3>1. nlookup'[j] \in Nat /\ nlookup'[j] <= nlookup[j]
      <4>1. nlookup'[j] = 0 \/ nlookup'[j] = nlookup[j]
        BY Zenon, <1>4, <2>2
      <4>2. \A a \in Nat : 0 \in Nat /\ 0 <= a /\ a <= a
        OBVIOUS
      <4> QED BY Zenon, <1>4, <4>1, <4>2
    <3>2. Forgotten(n)' = Forgotten(n)
      BY Zenon, <2>4 DEF Forgotten
    <3>3. granted[n] >= nlookup'[j] + Cardinality(Forgotten(n)) + Cardinality(InTransit(n))
      BY Zenon, <1>3, <1>4, <3>1, BalanceFewer
    <3> QED BY Zenon, <1>1, <1>3, <1>5, <3>2, <3>3 DEF NodeOk
  <2>5. CASE /\ nlookup[i] > 0
             /\ forgets' = Append(forgets, [nodeid |-> nodeid[i], nlookup |-> nlookup[i]])
    <3> DEFINE r == [nodeid |-> nodeid[i], nlookup |-> nlookup[i]]
               given == IF r.nodeid = n THEN r.nlookup ELSE 0
    <3>1. nodeid[i] \in Node /\ nlookup[i] \in Nat
      BY Zenon, <1>1 DEF IInv, InodeInv, TypeOK
    <3>2. r \in ForgetRec
      <4>1. nlookup[i] \in Nat \ {0}
        BY <2>5, <3>1
      <4> QED BY Zenon, <3>1, <4>1 DEF ForgetRec
    <3>3. /\ IsFiniteSet(Forgotten(n)')
          /\ Cardinality(Forgotten(n)') = Cardinality(Forgotten(n)) + given
      <4> HIDE DEF r
      <4>1. /\ IsFiniteSet(Lookups(Append(forgets, r), n))
            /\ Cardinality(Lookups(Append(forgets, r), n)) =
                 Cardinality(Lookups(forgets, n)) + (IF r.nodeid = n THEN r.nlookup ELSE 0)
        BY Zenon, <1>3, <1>4, <3>2, LookupsAppend DEF Forgotten
      <4> QED BY Zenon, <2>5, <4>1 DEF Forgotten, r
    <3>4. nodeid[i] = n <=> i = j
      <4>1. InoOf[nodeid[i]] = i
        BY Zenon, <1>1 DEF LookupInv, NumberInv
      <4> QED BY Zenon, <3>1, <4>1 DEF OwnIno
    <3>5. nlookup'[j] + given = nlookup[j]
      <4>1. CASE i = j
        <5>1. nlookup'[j] = 0 /\ given = nlookup[j]
          BY Zenon, <1>4, <2>2, <3>4, <4>1
        <5>2. \A a \in Nat : 0 + a = a
          OBVIOUS
        <5> HIDE DEF given
        <5> QED BY Zenon, <1>4, <5>1, <5>2
      <4>2. CASE i # j
        <5>1. nlookup'[j] = nlookup[j] /\ given = 0
          BY Zenon, <1>4, <2>2, <3>4, <4>2
        <5>2. \A a \in Nat : a + 0 = a
          OBVIOUS
        <5> HIDE DEF given
        <5> QED BY Zenon, <1>4, <5>1, <5>2
      <4> QED BY Zenon, <4>1, <4>2
    <3>6. given \in Nat /\ nlookup'[j] \in Nat
      BY Zenon, <1>1, <1>4, <3>1 DEF TypeOK
    <3> HIDE DEF given
    <3>7. granted[n] >= nlookup'[j] + Cardinality(Forgotten(n)') + Cardinality(InTransit(n))
      <4>1. Cardinality(Forgotten(n)') \in Nat
        BY Zenon, <3>3, FS_CardinalityType
      <4>2. \A a1, d \in Nat : a1 + d = nlookup[j] /\ Cardinality(Forgotten(n)') =
                                                       Cardinality(Forgotten(n)) + d
              => granted[n] >= a1 + Cardinality(Forgotten(n)') + Cardinality(InTransit(n))
        BY Zenon, <1>3, <1>4, <4>1, BalanceQueued
      <4> QED BY Zenon, <3>3, <3>5, <3>6, <4>2
    <3> QED BY Zenon, <1>1, <1>5, <3>3, <3>7 DEF NodeOk
  <2> QED BY Zenon, <2>1, <2>4, <2>5
<1> QED BY Zenon, <1>7, <1>8

(* Every step keeps the balance of lookups. *)
LEMMA NextLookups == IInv /\ IInv' /\ LookupInv /\ [Next]_vars => LookupInv'
<1> SUFFICES ASSUME IInv, IInv', LookupInv, [Next]_vars PROVE LookupInv'
  BY Zenon
<1>1. ASSUME NEW t \in Task, File(t) \/ SuperBlock(t) \/ Request(t) \/ Serve(t)
      PROVE  LookupInv'
  <2>1. CASE File(t) \/ SuperBlock(t)
    BY Zenon, <2>1, QuietCalls
  <2>2. CASE Request(t)
    BY Zenon, <2>2, QuietCalls, WakeLookups DEF Request
  <2>3. CASE Serve(t)
    BY Zenon, <2>3, ReadLookups, WriteLookups DEF Serve
  <2> QED BY Zenon, <1>1, <2>1, <2>2, <2>3
<1>2. ASSUME NEW i \in Ino, Iput(i) PROVE LookupInv'
  BY Zenon, <1>2, IputLookups
<1>3. CASE UNCHANGED vars
  BY Zenon, <1>3, QuietLookups DEF vars, reqVars
<1> QED BY Zenon, <1>1, <1>2, <1>3 DEF Next

(* No lookups are counted, forgotten or on their way on a new connection. *)
LEMMA InitLookups == Init => LookupInv
<1> SUFFICES ASSUME Init PROVE LookupInv
  BY Zenon
<1>1. \A i \in Ino : i_count[i] = 0 /\ nlookup[i] = 0
  BY Zenon DEF Init
<1>2. NumberInv
  <2>1. ~(0 > 0)
    OBVIOUS
  <2> QED BY Zenon, <1>1, <2>1 DEF NumberInv
<1>3. ASSUME NEW n \in Node PROVE NodeOk(n)
  <2>1. 1 .. Len(<<>>) = {}
    OBVIOUS
  <2>2. Forgotten(n) = {}
    BY Zenon, <2>1 DEF Init, Forgotten, Lookups
  <2>3. InTransit(n) = {}
    <3>1. \A u \in Unique : state[u] # "finished"
      BY DEF Init
    <3> QED BY Zenon, <3>1 DEF InTransit
  <2>4. IsFiniteSet({}) /\ Cardinality({}) = 0
    BY Zenon, FS_EmptySet
  <2>5. granted[n] = 0 /\ nlookup[InoOf[n]] = 0
    BY Zenon, <1>1 DEF Init, Ino
  <2>6. granted[n] >= nlookup[InoOf[n]] + Cardinality({}) + Cardinality({})
    BY <2>4, <2>5
  <2> QED BY Zenon, <2>2, <2>3, <2>4, <2>6 DEF NodeOk
<1> QED BY Zenon, <1>2, <1>3 DEF LookupInv

(* The kernel gives back no more lookups of a node than the daemon granted. *)
THEOREM LookupsCorrect == Spec => []LookupBalance
<1>1. LookupInv => LookupBalance
  BY Zenon DEF LookupInv, NodeOk, LookupBalance
<1>2. Spec => []LookupInv
  BY InitLookups, NextLookups, Invariance, PTL DEF Spec
<1> QED BY <1>1, <1>2, PTL
===============================================================================
