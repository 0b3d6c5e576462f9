----------------------------- MODULE BinderProofs ------------------------------
(***************************************************************************)
(* Proofs about the /dev/binder driver for any number of tasks, process    *)
(* slots, services, transactions and uevents: the inductive invariant and  *)
(* the steps that keep it, the ring of uevents, and that the driver        *)
(* implements the abstract call service BinderRpc.                         *)
(***************************************************************************)
EXTENDS Binder, Integers, TLAPS

(* The inductive invariant.  No conjunct is inductive alone: that a sender's
   transaction is held by its target (SenderInv) survives a reply only because
   no two senders share a transaction, survives a release only because what is
   held is not done, and so on. *)
TxnInv == ListsInv /\ SenderInv /\ OneSender /\ NoLeak /\ FreshIds /\ FifoDelivery
IInv == TypeOK /\ FilesInv /\ TxnInv /\ NoLostWakeup /\ RegistryInv

-------------------------------------------------------------------------------
(* Sequences. *)

(* Append adds one element at the end and keeps the others in place. *)
LEMMA AppendFacts ==
  ASSUME NEW S, NEW s \in Seq(S), NEW x \in S
  PROVE  /\ Append(s, x) \in Seq(S)
         /\ Len(s) \in Nat
         /\ Len(Append(s, x)) = Len(s) + 1
         /\ \A k \in 1 .. Len(s) : Append(s, x)[k] = s[k]
         /\ Append(s, x)[Len(s) + 1] = x
OBVIOUS

(* The indices of a sequence whose head is taken, in the sequence it had. *)
LEMMA Shifted ==
  ASSUME NEW n \in Nat, NEW m, m = n - 1, NEW k \in 1 .. m
  PROVE  /\ k + 1 \in 1 .. n /\ 1 \in 1 .. n /\ 1 < k + 1
         /\ \A l \in 1 .. m : k < l => k + 1 < l + 1
OBVIOUS

(* Head is the first element, Tail the rest shifted by one. *)
LEMMA TailFacts ==
  ASSUME NEW S, NEW s \in Seq(S), s # <<>>
  PROVE  /\ Tail(s) \in Seq(S)
         /\ Len(s) \in Nat \ {0}
         /\ Len(Tail(s)) = Len(s) - 1
         /\ \A k \in 1 .. Len(s) - 1 : Tail(s)[k] = s[k + 1]
         /\ Head(s) = s[1]
         /\ Head(s) \in S
OBVIOUS

(* The invariant holds when binder_init has run and nobody has opened the device. *)
THEOREM InitIInv == Init => IInv
<1> SUFFICES ASSUME Init PROVE IInv
  BY Zenon
<1> USE ConstantsAssumption DEF Init
<1>1. TypeOK
  <2>1. txn \in [TxnId -> Txn]
    BY Zenon DEF Txn, FreeTxn
  <2>2. svcs \in [SvcSlot -> Svc]
    BY Zenon DEF Svc, FreeSvc
  <2>3. uevent_ring \in [0 .. RingSize - 1 -> [seqnum : Nat, online : BOOLEAN]]
    BY Zenon
  <2>4. todo \in [Slot -> Seq(TxnId)]
    OBVIOUS
  <2>5. /\ file \in [Task -> Slot \cup {None}]
        /\ cur \in [Task -> TxnId \cup {None}]
        /\ context_mgr \in Slot \cup {None}
    BY Zenon
  <2>6. /\ pc \in [Task -> {"user", "transact"} \cup ReadCall]
        /\ run \in [Task -> {"running", "asleep", "signalled"}]
    BY Zenon
  <2>7. /\ in_use \in [Slot -> BOOLEAN]
        /\ in_flight \in [Slot -> SUBSET TxnId]
        /\ last_uevent_seq \in [Slot -> Nat]
    BY Zenon
  <2>8. /\ next_txn_id \in Nat \ {0} /\ next_svc_handle \in Nat \ {0}
        /\ global_uevent_seq \in Nat
    OBVIOUS
  <2>9. usb_online \in BOOLEAN
    BY Zenon
  <2>10. QED
    BY Zenon, <2>1, <2>2, <2>3, <2>4, <2>5, <2>6, <2>7, <2>8, <2>9 DEF TypeOK
<1>2. FilesInv
  BY DEF FilesInv, Slot, None
<1>3. TxnInv
  BY DEF TxnInv, ListsInv, SenderInv, OneSender, NoLeak, FreshIds, FifoDelivery, HeldBy,
         OnTodo, Allocated, FreeTxn, None
<1>4. NoLostWakeup
  BY Zenon DEF NoLostWakeup
<1>5. RegistryInv
  BY Zenon DEF RegistryInv, FreeSvc
<1>6. QED
  BY Zenon, <1>1, <1>2, <1>3, <1>4, <1>5 DEF IInv

-------------------------------------------------------------------------------
(* Steps that leave the variables of a part alone keep that part. *)

(* Slots and transaction ids are numbers other than None. *)
LEMMA NumberFacts ==
  /\ None \notin Slot /\ None \notin TxnId
  /\ \A i \in TxnId : i \in Int /\ i >= i /\ ~(i < i)
BY ConstantsAssumption DEF Slot, TxnId, None

(* The id of a new transaction. *)
LEMMA FreshId ==
  ASSUME TypeOK, NEW t, NEW p, NEW oneway, Enqueue(t, p, oneway)
  PROVE  next_txn_id \in TxnId
<1>1. next_txn_id \in Nat \ {0} /\ next_txn_id <= MaxTxns
  BY Zenon DEF TypeOK, Enqueue
<1> QED BY <1>1, ConstantsAssumption DEF TxnId

(* FilesInv reads in_use, file and pc only. *)
LEMMA FilesFrame ==
  ASSUME FilesInv, UNCHANGED <<file, pc, in_use>>
  PROVE  FilesInv'
BY Zenon DEF FilesInv

(* The transactions are as sound as before when no list and no id changes and the
   same tasks wait for a reply. *)
LEMMA WaitersFrame ==
  ASSUME TxnInv, UNCHANGED <<cur, in_use, todo, in_flight, txnVars>>,
         \A u \in Task : pc'[u] = "transact" <=> pc[u] = "transact"
  PROVE  TxnInv'
<1>1. /\ \A q \in Slot : HeldBy(q)' = HeldBy(q)
      /\ \A q \in Slot : \A i : OnTodo(q, i)' <=> OnTodo(q, i)
      /\ \A i : Allocated(i)' <=> Allocated(i)
  BY Zenon DEF HeldBy, OnTodo, Allocated, txnVars
<1>2. ListsInv' /\ OneSender' /\ FreshIds' /\ FifoDelivery'
  BY SMTT(30) DEF TxnInv, ListsInv, OneSender, FreshIds, FifoDelivery, HeldBy, OnTodo, Allocated, txnVars
<1>3. SenderInv' /\ NoLeak'
  <2>1. UNCHANGED <<cur, txn>> /\ \A q : HeldBy(q)' = HeldBy(q)
    BY Zenon DEF HeldBy, OnTodo, txnVars
  <2>2. SenderInv'
    BY Zenon, <2>1, <1>1 DEF TxnInv, SenderInv, Allocated
  <2>3. NoLeak'
    BY Zenon, <2>1 DEF TxnInv, NoLeak, Allocated
  <2> QED BY Zenon, <2>2, <2>3
<1>4. QED
  BY Zenon, <1>2, <1>3 DEF TxnInv

(* The transactions are as sound as before when no list, id or sender changes. *)
LEMMA TxnFrame ==
  ASSUME TxnInv, UNCHANGED <<pc, cur, in_use, todo, in_flight, txnVars>>
  PROVE  TxnInv'
BY Zenon, WaitersFrame

(* RegistryInv reads the registry and in_use only. *)
LEMMA RegistryFrame ==
  ASSUME RegistryInv, UNCHANGED <<svcVars, in_use>>
  PROVE  RegistryInv'
BY Zenon DEF RegistryInv, svcVars

-------------------------------------------------------------------------------
(* The actions, one lemma each. *)

(* binder_register_service_internal keeps names and handles unique and gives every
   entry a living owner. *)
LEMMA RegisterInv ==
  ASSUME IInv, NEW p \in Slot, in_use[p], NEW n \in Name, RegisterService(p, n),
         UNCHANGED <<context_mgr, in_use>>
  PROVE  /\ svcs' \in [SvcSlot -> Svc]
         /\ next_svc_handle' \in Nat \ {0}
         /\ RegistryInv'
<1>0. /\ svcs \in [SvcSlot -> Svc] /\ next_svc_handle \in Nat \ {0} /\ RegistryInv
      /\ p # None
  BY DEF IInv, TypeOK, Slot, None
<1>1. CASE \E k \in SvcSlot :
             /\ First(k, FindByName(n))
             /\ svcs' = [svcs EXCEPT ![k].owner = p]
             /\ UNCHANGED next_svc_handle
  <2>1. PICK k \in SvcSlot : k \in FindByName(n) /\ svcs' = [svcs EXCEPT ![k].owner = p]
    BY Zenon, <1>1 DEF First
  <2>2. svcs' \in [SvcSlot -> Svc]
    BY <1>0, <2>1 DEF Svc
  <2>3. \A l \in SvcSlot :
          /\ svcs'[l].in_use = svcs[l].in_use /\ svcs'[l].handle = svcs[l].handle
          /\ svcs'[l].name = svcs[l].name
          /\ svcs'[l].owner = IF l = k THEN p ELSE svcs[l].owner
    BY Zenon, <1>0, <2>1 DEF Svc
  <2>4. QED
    BY <1>0, <1>1, <2>2, <2>3 DEF RegistryInv
<1>2. CASE /\ FindByName(n) = {}
           /\ \E k \in SvcSlot :
                svcs' = [svcs EXCEPT ![k] =
                           [in_use |-> TRUE, handle |-> next_svc_handle, owner |-> p,
                            name |-> Stored[n]]]
           /\ next_svc_handle' = next_svc_handle + 1
  <2>1. PICK k \in SvcSlot :
          svcs' = [svcs EXCEPT ![k] = [in_use |-> TRUE, handle |-> next_svc_handle,
                                       owner |-> p, name |-> Stored[n]]]
    BY Zenon, <1>2
  <2>2. svcs' \in [SvcSlot -> Svc] /\ next_svc_handle' \in Nat \ {0}
    BY <1>0, <1>2, <2>1, StoredAssumption DEF Svc
  <2>3. /\ svcs'[k].in_use /\ svcs'[k].handle = next_svc_handle
        /\ svcs'[k].owner = p /\ svcs'[k].name = Stored[n]
        /\ \A l \in SvcSlot \ {k} : svcs'[l] = svcs[l]
    BY Zenon, <1>0, <2>1
  <2>4. \A l \in SvcSlot : svcs[l].in_use => svcs[l].name # n
                                          /\ svcs[l].handle < next_svc_handle
                                          /\ svcs[l].handle \in Nat
    BY <1>0, <1>2 DEF FindByName, RegistryInv, Svc
  <2>5. \A l \in SvcSlot : svcs'[l].in_use =>
          /\ svcs'[l].owner # None /\ in_use[svcs'[l].owner]
          /\ svcs'[l].handle \in 1 .. next_svc_handle' - 1
    <3> SUFFICES ASSUME NEW l \in SvcSlot, svcs'[l].in_use
                 PROVE  /\ svcs'[l].owner # None /\ in_use[svcs'[l].owner]
                        /\ svcs'[l].handle \in 1 .. next_svc_handle' - 1
      BY Zenon
    <3>1. CASE l = k
      BY <1>0, <1>2, <2>3, <3>1
    <3>2. CASE l # k
      BY <1>0, <1>2, <2>3, <3>2 DEF RegistryInv
    <3>3. QED
      BY Zenon, <3>1, <3>2
  <2>6. \A l, m \in SvcSlot : svcs'[l].in_use /\ svcs'[m].in_use /\ l # m =>
          /\ svcs'[l].handle # svcs'[m].handle
          /\ svcs'[l].name = svcs'[m].name =>
               \E a \in Name : a # svcs'[l].name /\ Stored[a] = svcs'[l].name
    <3> SUFFICES ASSUME NEW l \in SvcSlot, NEW m \in SvcSlot, l # m,
                        svcs'[l].in_use, svcs'[m].in_use
                 PROVE  /\ svcs'[l].handle # svcs'[m].handle
                        /\ svcs'[l].name = svcs'[m].name =>
                             \E a \in Name : a # svcs'[l].name /\ Stored[a] = svcs'[l].name
      BY Zenon
    <3>1. CASE l # k /\ m # k
      BY <1>0, <2>3, <3>1 DEF RegistryInv
    <3>2. CASE l = k /\ m # k
      BY <2>3, <2>4, <3>2
    <3>3. CASE l # k /\ m = k
      BY <2>3, <2>4, <3>3
    <3>4. QED
      BY Zenon, <3>1, <3>2, <3>3
  <2>7. QED
    BY Zenon, <1>0, <2>2, <2>5, <2>6 DEF RegistryInv
<1>3. CASE UNCHANGED <<svcs, next_svc_handle>>
  BY Zenon, <1>0, <1>3 DEF RegistryInv
<1>4. QED
  BY Zenon, <1>1, <1>2, <1>3 DEF RegisterService

(* BINDER_SET_CONTEXT_MGR and BINDER_IOC_REGISTER_SVC keep the invariant. *)
LEMMA RegistryStep ==
  ASSUME IInv, NEW t \in Task, Registry(t)
  PROVE  IInv'
<1>1. UNCHANGED <<taskVars, procVars, txnVars, ueventVars>>
  BY Zenon DEF Registry, SetContextMgr, RegisterSvc
<1>2. file[t] \in Slot /\ in_use[file[t]]
  BY DEF IInv, TypeOK, FilesInv, Registry, SetContextMgr, RegisterSvc, None
<1>3. context_mgr' \in Slot \cup {None} /\ svcs' \in [SvcSlot -> Svc]
      /\ next_svc_handle' \in Nat \ {0} /\ RegistryInv'
  <2>1. CASE SetContextMgr(t)
    BY <1>2, <2>1 DEF SetContextMgr, IInv, TypeOK, RegistryInv, procVars, None
  <2>2. CASE \E n \in Name : RegisterSvc(t, n)
    BY Zenon, <1>2, <2>2, RegisterInv DEF RegisterSvc, procVars, IInv, TypeOK
  <2>3. QED
    BY Zenon, <2>1, <2>2 DEF Registry
<1>4. TypeOK'
  BY Zenon, <1>1, <1>3 DEF IInv, TypeOK, taskVars, procVars, txnVars, ueventVars
<1>5. FilesInv' /\ TxnInv'
  BY Zenon, <1>1, FilesFrame, TxnFrame DEF IInv, taskVars, procVars
<1>6. NoLostWakeup'
  BY Zenon, <1>1 DEF IInv, NoLostWakeup, Ready, UeventPending, taskVars, procVars, txnVars, ueventVars
<1>7. QED
  BY Zenon, <1>3, <1>4, <1>5, <1>6 DEF IInv

(* Nothing is queued at or awaited from a process that is not in use. *)
LEMMA FreeSlotEmpty ==
  ASSUME IInv, NEW p \in Slot, ~in_use[p]
  PROVE  HeldBy(p) = {} /\ todo[p] = <<>> /\ in_flight[p] = {}
         /\ \A u \in Task : file[u] # p
<1>1. HeldBy(p) = {}
  BY Zenon DEF IInv, TxnInv, ListsInv
<1>2. todo[p] \in Seq(TxnId) /\ in_flight[p] \subseteq TxnId
  BY Zenon DEF IInv, TypeOK
<1>3. in_flight[p] = {}
  BY Zenon, <1>1, <1>2 DEF HeldBy
<1>4. todo[p] = <<>>
  <2> SUFFICES ASSUME todo[p] # <<>> PROVE FALSE
    BY Zenon
  <2>1. Len(todo[p]) \in Nat \ {0} /\ todo[p][1] \in TxnId
    BY <1>2, TailFacts
  <2>2. todo[p][1] \in HeldBy(p)
    BY <2>1 DEF HeldBy, OnTodo
  <2>3. QED
    BY Zenon, <1>1, <2>2
<1>5. QED
  BY Zenon, <1>1, <1>3, <1>4 DEF IInv, FilesInv

(* binder_open keeps the invariant: the slot that memset clears held nothing. *)
LEMMA OpenStep ==
  ASSUME IInv, NEW t \in Task, BinderOpen(t)
  PROVE  IInv'
<1>1. PICK p \in Slot :
        /\ ~in_use[p]
        /\ file' = [file EXCEPT ![t] = p]
        /\ in_use' = [in_use EXCEPT ![p] = TRUE]
        /\ todo' = [todo EXCEPT ![p] = <<>>]
        /\ in_flight' = [in_flight EXCEPT ![p] = {}]
        /\ last_uevent_seq' = [last_uevent_seq EXCEPT ![p] = global_uevent_seq]
  BY Zenon DEF BinderOpen, First, FreeSlots
<1>2. /\ UNCHANGED <<pc, run, cur, txn, next_txn_id, context_mgr, svcs, next_svc_handle,
                     global_uevent_seq, uevent_ring, usb_online>>
      /\ pc[t] = "user" /\ file[t] = None
  BY Zenon DEF BinderOpen, txnVars, svcVars
<1>3. TypeOK
  BY Zenon DEF IInv
<1>4. todo' = todo /\ in_flight' = in_flight /\ p # None
  BY <1>1, <1>3, FreeSlotEmpty DEF TypeOK, Slot, None
<1>5. TypeOK'
  BY Zenon, <1>1, <1>2, <1>3, <1>4 DEF TypeOK
<1>6. FilesInv'
  <2>1. \A q \in Slot \ {p} : (\E u \in Task : file'[u] = q) <=> \E u \in Task : file[u] = q
    BY <1>1, <1>2, <1>3 DEF TypeOK, Slot, None
  <2>2. \E u \in Task : file'[u] = p
    BY Zenon, <1>1, <1>3 DEF TypeOK
  <2>3. in_use'[p] /\ \A q \in Slot \ {p} : in_use'[q] <=> in_use[q]
    BY Zenon, <1>1, <1>3 DEF TypeOK
  <2>4. \A q \in Slot : in_use'[q] <=> \E u \in Task : file'[u] = q
    BY Zenon, <2>1, <2>2, <2>3 DEF IInv, FilesInv
  <2>5. \A u \in Task : pc'[u] # "user" => file'[u] # None
    BY Zenon, <1>1, <1>2, <1>3, <1>4 DEF IInv, FilesInv, TypeOK
  <2>6. QED
    BY Zenon, <2>4, <2>5 DEF FilesInv
<1>7. \A q \in Slot : HeldBy(q)' = HeldBy(q)
  BY Zenon, <1>4 DEF HeldBy, OnTodo
<1>8. TxnInv'
  <2>1. ListsInv'
    <3> SUFFICES ASSUME NEW q \in Slot, NEW i \in HeldBy(q)'
                 PROVE (in_use[q] /\ txn[i].target = q /\ ~txn[i].done
                        /\ (i \in in_flight[q] => ~txn[i].oneway))'
      BY Zenon DEF ListsInv
    <3>1. i \in HeldBy(q)
      BY Zenon, <1>7
    <3>2. in_use[q] /\ txn[i].target = q /\ ~txn[i].done /\ (i \in in_flight[q] => ~txn[i].oneway)
      BY Zenon, <3>1 DEF IInv, TxnInv, ListsInv
    <3>3. in_use'[q]
      BY Zenon, <1>1, <1>3, <3>2 DEF TypeOK
    <3>4. QED
      BY Zenon, <1>2, <1>4, <3>2, <3>3
  <2>2. SenderInv' /\ OneSender' /\ NoLeak' /\ FreshIds' /\ FifoDelivery'
    <3>1. OneSender' /\ FreshIds' /\ FifoDelivery'
      BY Zenon, <1>2, <1>4 DEF IInv, TxnInv, OneSender, FreshIds, FifoDelivery, Allocated
    <3>2. SenderInv'
      BY Zenon, <1>2, <1>4 DEF IInv, TxnInv, SenderInv, Allocated, HeldBy, OnTodo
    <3>3. NoLeak'
      BY Zenon, <1>2, <1>4 DEF IInv, TxnInv, NoLeak, Allocated, HeldBy, OnTodo
    <3>4. QED
      BY Zenon, <3>1, <3>2, <3>3
  <2>3. QED
    BY Zenon, <2>1, <2>2 DEF TxnInv
<1>9. NoLostWakeup'
  <2> SUFFICES ASSUME NEW u \in Task, run[u] = "asleep"
               PROVE  \/ pc[u] = "transact" /\ ~txn[cur[u]].done
                      \/ pc[u] \in ReadCall /\ ~Ready(file[u], pc[u])'
    BY Zenon, <1>2 DEF NoLostWakeup, Ready
  <2>1. CASE pc[u] = "transact" /\ ~txn[cur[u]].done
    BY Zenon, <2>1
  <2>2. CASE pc[u] \in ReadCall /\ ~Ready(file[u], pc[u])
    <3>1. u # t /\ file'[u] = file[u] /\ file[u] \in Slot /\ file[u] # p
      <4>1. pc[u] # "user" /\ u # t
        BY Zenon, <1>2, <2>2, ConstantsAssumption
      <4>2. file'[u] = file[u]
        BY Zenon, <1>1, <1>3, <4>1 DEF TypeOK
      <4>3. file[u] \in Slot
        <5>1. file[u] # None
          BY Zenon, <4>1 DEF IInv, FilesInv
        <5>2. QED
          BY Zenon, <1>3, <5>1 DEF TypeOK
      <4>4. file[u] # p
        BY Zenon, <1>1, FreeSlotEmpty
      <4>5. QED
        BY Zenon, <4>1, <4>2, <4>3, <4>4
    <3>2. QED
      BY Zenon, <1>1, <1>2, <1>3, <1>4, <2>2, <3>1 DEF Ready, UeventPending, TypeOK
  <2>3. QED
    BY Zenon, <2>1, <2>2 DEF IInv, NoLostWakeup
<1>10. RegistryInv'
  <2>1. UNCHANGED <<svcs, context_mgr, next_svc_handle>>
    BY Zenon, <1>2 DEF svcVars
  <2>2. \A q \in Slot : in_use[q] => in_use'[q]
    BY Zenon, <1>1, <1>3 DEF TypeOK
  <2>3. context_mgr # None => context_mgr \in Slot
    BY Zenon, <1>3 DEF TypeOK
  <2>4. \A k \in SvcSlot : svcs[k].owner # None => svcs[k].owner \in Slot
    BY Zenon, <1>3 DEF TypeOK, Svc
  <2> QED BY Zenon, <2>1, <2>2, <2>3, <2>4 DEF IInv, RegistryInv
<1>11. QED
  BY Zenon, <1>5, <1>6, <1>8, <1>9, <1>10 DEF IInv

(* Share and CloseShared change who holds a file, not whether it is held. *)
LEMMA ShareStep ==
  ASSUME IInv, NEW t \in Task, NEW u \in Task, Share(t, u) \/ (CloseShared(t) /\ u = t)
  PROVE  IInv'
<1>1. /\ UNCHANGED <<pc, run, cur, procVars, txnVars, svcVars, ueventVars>>
      /\ pc[u] = "user"
      /\ \E q \in Slot \cup {None} : file' = [file EXCEPT ![u] = q]
  BY Zenon DEF IInv, TypeOK, Share, CloseShared, None
<1>2. TypeOK /\ TypeOK'
  BY <1>1 DEF IInv, TypeOK, procVars, txnVars, svcVars, ueventVars
<1>3. FilesInv'
  <2>1. \A p \in Slot : (\E v \in Task : file'[v] = p) <=> \E v \in Task : file[v] = p
    <3>1. CASE Share(t, u)
      BY <1>2, <3>1 DEF TypeOK, Share, Slot, None
    <3>2. CASE CloseShared(t) /\ u = t
      BY SMTT(30), <1>2, <3>2 DEF TypeOK, CloseShared, Slot, None
    <3>3. QED
      BY Zenon, <3>1, <3>2
  <2>2. \A v \in Task : pc'[v] # "user" => file'[v] # None
    BY <1>1, <1>2 DEF IInv, FilesInv, TypeOK
  <2>3. QED
    BY Zenon, <1>1, <2>1, <2>2 DEF IInv, FilesInv, procVars
<1>4. TxnInv' /\ RegistryInv'
  BY Zenon, <1>1, TxnFrame, RegistryFrame DEF IInv, procVars
<1>5. NoLostWakeup'
  <2>1. "user" \notin ReadCall
    BY Zenon, ConstantsAssumption
  <2>2. QED
    <3>1. UNCHANGED <<todo, last_uevent_seq, global_uevent_seq, txn, cur, pc, run>>
      BY Zenon, <1>1 DEF procVars, txnVars, ueventVars
    <3>2. \A v \in Task : pc[v] \in ReadCall => file'[v] = file[v]
      <4>1. PICK q \in Slot \cup {None} : file' = [file EXCEPT ![u] = q]
        BY Zenon, <1>1
      <4>2. \A v \in Task : v # u => file'[v] = file[v]
        BY Zenon, <1>2, <4>1 DEF TypeOK
      <4> QED BY Zenon, <1>1, <2>1, <4>2
    <3> QED BY Zenon, <3>1, <3>2 DEF IInv, NoLostWakeup, Ready, UeventPending
<1>6. QED
  BY Zenon, <1>2, <1>3, <1>4, <1>5 DEF IInv

(* binder_release keeps the invariant: everything the process held is freed or
   done, its senders are awake and its services are gone. *)
LEMMA ReleaseStep ==
  ASSUME IInv, NEW t \in Task, BinderRelease(t)
  PROVE  IInv'
<1>0. PICK p \in Slot : p = file[t]
  BY Zenon DEF BinderRelease, IInv, TypeOK
<1>1. /\ p # None /\ pc[t] = "user"
      /\ \A u \in Task \ {t} : file[u] # p
      /\ TypeOK
  BY Zenon, <1>0 DEF BinderRelease, IInv, Slot, None
<1>2. /\ file' = [file EXCEPT ![t] = None]
      /\ in_use' = [in_use EXCEPT ![p] = FALSE]
      /\ todo' = [todo EXCEPT ![p] = <<>>]
      /\ in_flight' = [in_flight EXCEPT ![p] = {}]
      /\ run' = WakeSenders(HeldBy(p))
      /\ UNCHANGED <<pc, cur, next_txn_id, next_svc_handle, global_uevent_seq, uevent_ring,
                     last_uevent_seq, usb_online>>
  BY Zenon, <1>0 DEF BinderRelease, ueventVars
<1>3. txn' = [i \in TxnId |->
                IF i \notin HeldBy(p) THEN txn[i]
                ELSE IF txn[i].oneway THEN FreeTxn
                ELSE Finished(txn[i], "EPIPE")]
  BY Zenon, <1>0 DEF BinderRelease
<1>4. /\ context_mgr' = IF context_mgr = p THEN None ELSE context_mgr
      /\ svcs' = [k \in SvcSlot |->
                    IF svcs[k].in_use /\ svcs[k].owner = p THEN FreeSvc ELSE svcs[k]]
  BY Zenon, <1>0 DEF BinderRelease
<1>5. TypeOK'
  <2>1. txn' \in [TxnId -> Txn]
    <3>1. \A i \in TxnId : /\ txn[i] \in Txn /\ FreeTxn \in Txn
                           /\ Finished(txn[i], "EPIPE") \in Txn
      BY Zenon, <1>1 DEF TypeOK, Txn, FreeTxn, Finished
    <3>2. QED
      BY Zenon, <1>3, <3>1
  <2>2. svcs' \in [SvcSlot -> Svc] /\ context_mgr' \in Slot \cup {None}
    BY Zenon, <1>1, <1>4 DEF TypeOK, Svc, FreeSvc
  <2>3. run' \in [Task -> {"running", "asleep", "signalled"}]
    BY Zenon, <1>1, <1>2 DEF TypeOK, WakeSenders
  <2>4. /\ file' \in [Task -> Slot \cup {None}] /\ in_use' \in [Slot -> BOOLEAN]
        /\ todo' \in [Slot -> Seq(TxnId)] /\ in_flight' \in [Slot -> SUBSET TxnId]
    BY <1>1, <1>2 DEF TypeOK
  <2>5. QED
    BY Zenon, <1>1, <1>2, <2>1, <2>2, <2>3, <2>4 DEF TypeOK
<1>6. ~in_use'[p] /\ \A q \in Slot \ {p} : in_use'[q] <=> in_use[q]
  BY Zenon, <1>1, <1>2 DEF TypeOK
<1>7. FilesInv'
  <2>1. \A q \in Slot \ {p} : (\E u \in Task : file'[u] = q) <=> \E u \in Task : file[u] = q
    BY <1>0, <1>1, <1>2 DEF TypeOK, Slot, None
  <2>2. \A u \in Task : file'[u] # p
    BY Zenon, <1>0, <1>1, <1>2 DEF TypeOK
  <2>3. \A q \in Slot : in_use'[q] <=> \E u \in Task : file'[u] = q
    BY Zenon, <1>6, <2>1, <2>2 DEF IInv, FilesInv
  <2>4. \A u \in Task : pc'[u] # "user" => file'[u] # None
    BY Zenon, <1>1, <1>2 DEF IInv, FilesInv, TypeOK
  <2>5. QED
    BY Zenon, <2>3, <2>4 DEF FilesInv
<1>8. HeldBy(p)' = {} /\ \A q \in Slot \ {p} : HeldBy(q)' = HeldBy(q)
  <2>1. todo'[p] = <<>> /\ in_flight'[p] = {}
    BY Zenon, <1>1, <1>2 DEF TypeOK
  <2>2. \A q \in Slot \ {p} : todo'[q] = todo[q] /\ in_flight'[q] = in_flight[q]
    BY Zenon, <1>1, <1>2 DEF TypeOK
  <2>3. QED
    BY <2>1, <2>2 DEF HeldBy, OnTodo
<1>9. \A i \in TxnId :
        /\ i \notin HeldBy(p) => txn'[i] = txn[i]
        /\ i \in HeldBy(p) /\ txn[i].oneway => ~Allocated(i)'
        /\ i \in HeldBy(p) /\ ~txn[i].oneway =>
             txn'[i].done /\ txn'[i].target = txn[i].target /\ txn'[i].oneway = txn[i].oneway
        /\ Allocated(i)' => Allocated(i)
  BY Zenon, <1>1, <1>3 DEF TypeOK, Txn, FreeTxn, Finished, Allocated
<1>10. \A q \in Slot : HeldBy(q) \subseteq TxnId
  BY Zenon DEF HeldBy
<1>11. TxnInv'
  <2> USE <1>1, <1>2, <1>8, <1>9, <1>10
  <2>0. ListsInv /\ SenderInv /\ OneSender /\ NoLeak /\ FreshIds /\ FifoDelivery
    BY Zenon DEF IInv, TxnInv
  <2>1. ListsInv'
    <3> SUFFICES ASSUME NEW q \in Slot, NEW i \in HeldBy(q)'
                 PROVE (in_use[q] /\ txn[i].target = q /\ ~txn[i].done
                        /\ (i \in in_flight[q] => ~txn[i].oneway))'
      BY Zenon DEF ListsInv
    <3>1. q # p /\ i \in HeldBy(q) /\ i \in TxnId
      BY Zenon
    <3>2. i \notin HeldBy(p)
      <4>1. txn[i].target = q /\ (i \in HeldBy(p) => txn[i].target = p)
        BY Zenon, <2>0, <3>1 DEF ListsInv
      <4> QED BY Zenon, <3>1, <4>1
    <3>3. in_flight'[q] = in_flight[q] /\ txn'[i] = txn[i]
      BY Zenon, <3>1, <3>2 DEF TypeOK
    <3>4. /\ in_use[q] /\ txn[i].target = q /\ ~txn[i].done
          /\ i \in in_flight[q] => ~txn[i].oneway
      BY Zenon, <2>0, <3>1 DEF ListsInv
    <3>5. in_use'[q]
      BY Zenon, <1>6, <3>1, <3>4
    <3>6. QED
      BY Zenon, <3>3, <3>4, <3>5
  <2>2. SenderInv'
    <3> SUFFICES ASSUME NEW u \in Task
                 PROVE (IF pc[u] = "transact"
                          THEN /\ cur[u] # None /\ Allocated(cur[u]) /\ ~txn[cur[u]].oneway
                               /\ txn[cur[u]].done \/ cur[u] \in HeldBy(txn[cur[u]].target)
                          ELSE cur[u] = None)'
      BY Zenon DEF SenderInv
    <3>1. CASE pc[u] # "transact"
      BY Zenon, <2>0, <3>1 DEF SenderInv
    <3>2. CASE pc[u] = "transact"
      <4>1. cur[u] \in TxnId /\ Allocated(cur[u]) /\ ~txn[cur[u]].oneway
            /\ (txn[cur[u]].done \/ cur[u] \in HeldBy(txn[cur[u]].target))
            /\ txn[cur[u]].target \in Slot
        <5>1. cur[u] \in TxnId /\ Allocated(cur[u]) /\ ~txn[cur[u]].oneway
              /\ (txn[cur[u]].done \/ cur[u] \in HeldBy(txn[cur[u]].target))
          BY Zenon, <2>0, <3>2 DEF SenderInv, TypeOK
        <5>2. txn[cur[u]].target \in Slot
          BY Zenon, <5>1 DEF TypeOK, Txn, Allocated
        <5>3. QED
          BY Zenon, <5>1, <5>2
      <4>2. CASE cur[u] \in HeldBy(p)
        <5>1. cur'[u] = cur[u] /\ pc'[u] = pc[u] /\ cur[u] # None
          BY Zenon, <2>0, <3>2 DEF SenderInv
        <5>2. /\ txn'[cur[u]].done /\ txn'[cur[u]].target = txn[cur[u]].target
              /\ txn'[cur[u]].oneway = txn[cur[u]].oneway
          BY Zenon, <4>1, <4>2
        <5>3. QED
          BY Zenon, <3>2, <4>1, <5>1, <5>2 DEF Allocated
      <4>3. CASE cur[u] \notin HeldBy(p)
        <5>1. cur'[u] = cur[u] /\ pc'[u] = pc[u] /\ txn'[cur[u]] = txn[cur[u]]
          BY Zenon, <4>1, <4>3
        <5>2. PICK q \in Slot : q = txn[cur[u]].target
          BY Zenon, <4>1
        <5>3. PICK i \in TxnId : i = cur[u]
          BY Zenon, <4>1
        <5>4. txn[i].done \/ i \in HeldBy(q)'
          BY Zenon, <4>1, <4>3, <5>2, <5>3
        <5>5. i # None
          BY Zenon, <2>0, <3>2, <5>3 DEF SenderInv
        <5>6. Allocated(i)' /\ ~txn'[i].oneway /\ txn'[i] = txn[i] /\ txn'[i].target = q
          BY Zenon, <4>1, <5>1, <5>2, <5>3 DEF Allocated
        <5>7. pc'[u] = "transact" /\ cur'[u] = i
          BY Zenon, <3>2, <5>1, <5>3
        <5>8. (txn[cur[u]].done \/ cur[u] \in HeldBy(txn[cur[u]].target))'
          <6>1. CASE txn[i].done
            BY Zenon, <5>6, <5>7, <6>1
          <6>2. CASE i \in HeldBy(q)'
            BY <5>6, <5>7, <6>2
          <6>3. QED
            BY Zenon, <5>4, <6>1, <6>2
        <5>9. QED
          BY Zenon, <5>5, <5>6, <5>7, <5>8 DEF Allocated
      <4>4. QED
        BY Zenon, <4>2, <4>3
    <3>3. QED
      BY Zenon, <3>1, <3>2
  <2>3. NoLeak'
    <3> SUFFICES ASSUME NEW i \in TxnId, Allocated(i)'
                 PROVE (IF txn[i].oneway THEN i \in HeldBy(txn[i].target)
                        ELSE \E u \in Task : cur[u] = i)'
      BY Zenon DEF NoLeak
    <3>1. IF txn[i].oneway THEN i \in HeldBy(txn[i].target) ELSE \E u \in Task : cur[u] = i
      BY Zenon, <2>0 DEF NoLeak
    <3>2. CASE i \in HeldBy(p)
      BY Zenon, <3>1, <3>2
    <3>3. CASE i \notin HeldBy(p)
      <4>1. txn[i].target \in Slot
        BY Zenon, <3>3 DEF TypeOK, Txn, Allocated
      <4>2. QED
        BY Zenon, <3>1, <3>3, <4>1
    <3>4. QED
      BY Zenon, <3>2, <3>3
  <2>4. OneSender' /\ FreshIds'
    BY Zenon, <2>0 DEF OneSender, FreshIds
  <2>5. FifoDelivery'
    <3>1. todo'[p] = <<>> /\ in_flight'[p] = {}
          /\ \A q \in Slot \ {p} : todo'[q] = todo[q] /\ in_flight'[q] = in_flight[q]
      BY Zenon DEF TypeOK
    <3>2. QED
      BY <2>0, <3>1 DEF FifoDelivery
  <2>6. QED
    BY Zenon, <2>1, <2>2, <2>3, <2>4, <2>5 DEF TxnInv
<1>12. NoLostWakeup'
  <2> SUFFICES ASSUME NEW u \in Task, run'[u] = "asleep"
               PROVE  (\/ pc[u] = "transact" /\ ~txn[cur[u]].done
                       \/ pc[u] \in ReadCall /\ ~Ready(file[u], pc[u]))'
    BY Zenon DEF NoLostWakeup
  <2>1. run[u] = "asleep" /\ ~(pc[u] = "transact" /\ cur[u] \in HeldBy(p))
    BY Zenon, <1>1, <1>2 DEF WakeSenders, TypeOK
  <2>2. \/ pc[u] = "transact" /\ ~txn[cur[u]].done
        \/ pc[u] \in ReadCall /\ ~Ready(file[u], pc[u])
    BY Zenon, <2>1 DEF IInv, NoLostWakeup
  <2>3. CASE pc[u] = "transact" /\ ~txn[cur[u]].done
    <3>1. cur[u] \in TxnId
      BY Zenon, <1>1, <2>3 DEF IInv, TxnInv, SenderInv, TypeOK
    <3>2. QED
      BY Zenon, <1>2, <1>9, <2>1, <2>3, <3>1
  <2>4. CASE pc[u] \in ReadCall /\ ~Ready(file[u], pc[u])
    <3>1. u # t /\ file'[u] = file[u] /\ file[u] \in Slot /\ file[u] # p
      BY <1>1, <1>2, <2>4, ConstantsAssumption DEF TypeOK, IInv, FilesInv
    <3>2. QED
      BY Zenon, <1>1, <1>2, <2>4, <3>1 DEF Ready, UeventPending, TypeOK
  <2>5. QED
    BY Zenon, <2>2, <2>3, <2>4
<1>13. RegistryInv'
  <2>1. \A k \in SvcSlot : svcs'[k].in_use =>
          svcs'[k] = svcs[k] /\ svcs[k].in_use /\ svcs[k].owner # p
    BY Zenon, <1>1, <1>4 DEF TypeOK, FreeSvc
  <2>2. context_mgr' # None => context_mgr' = context_mgr /\ context_mgr # p
    BY Zenon, <1>4
  <2>3. context_mgr' # None => in_use'[context_mgr']
    <3> SUFFICES ASSUME context_mgr' # None PROVE in_use'[context_mgr']
      BY Zenon
    <3>1. PICK c \in Slot : c = context_mgr /\ c = context_mgr' /\ c # p
      BY Zenon, <1>1, <2>2 DEF TypeOK
    <3>2. in_use[c]
      BY Zenon, <1>1, <2>2, <3>1 DEF IInv, RegistryInv
    <3>3. in_use'[c] = in_use[c]
      BY Zenon, <1>1, <1>2, <3>1 DEF TypeOK
    <3>4. QED
      BY Zenon, <3>1, <3>2, <3>3
  <2>4. \A k \in SvcSlot : svcs'[k].in_use =>
          /\ svcs'[k].owner # None /\ in_use'[svcs'[k].owner]
          /\ svcs'[k].handle \in 1 .. next_svc_handle' - 1
    <3> SUFFICES ASSUME NEW k \in SvcSlot, svcs'[k].in_use
                 PROVE  /\ svcs'[k].owner # None /\ in_use'[svcs'[k].owner]
                        /\ svcs'[k].handle \in 1 .. next_svc_handle' - 1
      BY Zenon
    <3>1. svcs'[k] = svcs[k] /\ svcs[k].in_use /\ svcs[k].owner # p
      BY Zenon, <2>1
    <3>2. /\ svcs[k].owner # None /\ in_use[svcs[k].owner]
          /\ svcs[k].handle \in 1 .. next_svc_handle - 1
      BY Zenon, <3>1 DEF IInv, RegistryInv
    <3>3. PICK q \in Slot : q = svcs[k].owner
      BY Zenon, <1>1, <3>2 DEF TypeOK, Svc
    <3>4. in_use'[q]
      BY Zenon, <1>1, <1>2, <3>1, <3>2, <3>3 DEF TypeOK
    <3>5. next_svc_handle' = next_svc_handle
      BY Zenon, <1>2, <1>4
    <3>6. QED
      BY Zenon, <3>1, <3>2, <3>3, <3>4, <3>5
  <2>5. \A k, l \in SvcSlot : svcs'[k].in_use /\ svcs'[l].in_use /\ k # l =>
          /\ svcs'[k].handle # svcs'[l].handle
          /\ svcs'[k].name = svcs'[l].name =>
               \E n \in Name : n # svcs'[k].name /\ Stored[n] = svcs'[k].name
    <3>1. \A k, l \in SvcSlot : svcs[k].in_use /\ svcs[l].in_use /\ k # l =>
            /\ svcs[k].handle # svcs[l].handle
            /\ svcs[k].name = svcs[l].name =>
                 \E n \in Name : n # svcs[k].name /\ Stored[n] = svcs[k].name
      BY Zenon DEF IInv, RegistryInv
    <3> SUFFICES ASSUME NEW k \in SvcSlot, NEW l \in SvcSlot,
                        svcs'[k].in_use, svcs'[l].in_use, k # l
                 PROVE  /\ svcs'[k].handle # svcs'[l].handle
                        /\ svcs'[k].name = svcs'[l].name =>
                             \E n \in Name : n # svcs'[k].name /\ Stored[n] = svcs'[k].name
      BY Zenon
    <3>2. svcs'[k] = svcs[k] /\ svcs'[l] = svcs[l] /\ svcs[k].in_use /\ svcs[l].in_use
      BY Zenon, <2>1
    <3>3. /\ svcs[k].handle # svcs[l].handle
          /\ svcs[k].name = svcs[l].name =>
               \E n \in Name : n # svcs[k].name /\ Stored[n] = svcs[k].name
      BY Zenon, <3>1, <3>2
    <3> QED BY Zenon, <3>2, <3>3
  <2>6. QED
    BY Zenon, <2>3, <2>4, <2>5 DEF RegistryInv
<1>14. QED
  BY Zenon, <1>5, <1>7, <1>11, <1>12, <1>13 DEF IInv

(* Every transaction on a list is allocated and older than the next id. *)
LEMMA HeldFacts ==
  ASSUME IInv, NEW p \in Slot, NEW i \in HeldBy(p)
  PROVE  /\ i \in TxnId /\ i < next_txn_id
         /\ in_use[p] /\ txn[i].target = p /\ Allocated(i) /\ ~txn[i].done
<1>1. i \in TxnId /\ in_use[p] /\ txn[i].target = p /\ ~txn[i].done
  BY Zenon DEF IInv, TxnInv, ListsInv, HeldBy
<1>2. Allocated(i)
  BY <1>1 DEF Allocated, Slot, None
<1>3. i < next_txn_id
  BY <1>1, <1>2 DEF IInv, TxnInv, FreshIds, TypeOK, TxnId
<1>4. QED
  BY Zenon, <1>1, <1>2, <1>3

(* The entries of todo are held. *)
LEMMA TodoHeld ==
  ASSUME IInv, NEW p \in Slot, NEW k \in 1 .. Len(todo[p])
  PROVE  todo[p][k] \in HeldBy(p)
<1>1. todo[p] \in Seq(TxnId)
  BY Zenon DEF IInv, TypeOK
<1>2. todo[p][k] \in TxnId
  BY <1>1
<1>3. QED
  BY Zenon, <1>2 DEF HeldBy, OnTodo

(* The queueing part of binder_do_transact keeps the invariant: the id is fresh,
   the tail of todo is the newest, and the readers of the target are awake. *)
LEMMA EnqueueInv ==
  ASSUME IInv, NEW t \in Task, NEW p \in Slot, NEW oneway \in BOOLEAN,
         pc[t] = "user", file[t] # None, in_use[p], Enqueue(t, p, oneway),
         UNCHANGED ueventVars
  PROVE  /\ pc' \in [Task -> {"user", "transact"} \cup ReadCall]
         /\ run' \in [Task -> {"running", "asleep", "signalled"}]
         /\ cur' \in [Task -> TxnId \cup {None}]
         /\ todo' \in [Slot -> Seq(TxnId)]
         /\ txn' \in [TxnId -> Txn]
         /\ next_txn_id' \in Nat \ {0}
         /\ FilesInv' /\ TxnInv' /\ NoLostWakeup'
<1>0. PICK n \in TxnId : n = next_txn_id
  BY ConstantsAssumption DEF Enqueue, IInv, TypeOK, TxnId
<1>1. /\ txn' = [txn EXCEPT ![n] = NewTxn(p, oneway)]
      /\ next_txn_id' = n + 1
      /\ todo' = [todo EXCEPT ![p] = Append(@, n)]
      /\ pc' = [pc EXCEPT ![t] = IF oneway THEN "user" ELSE "transact"]
      /\ cur' = [cur EXCEPT ![t] = IF oneway THEN None ELSE n]
      /\ run' = [WakeReaders(p) EXCEPT ![t] = IF oneway THEN "running" ELSE "asleep"]
      /\ UNCHANGED <<file, in_use, in_flight>>
  BY Zenon, <1>0 DEF Enqueue
<1>2. TypeOK /\ n # None /\ p # None
  BY DEF IInv, TxnId, Slot, None
<1>3. todo[p] \in Seq(TxnId)
  BY Zenon, <1>2 DEF TypeOK
<1>4. /\ pc' \in [Task -> {"user", "transact"} \cup ReadCall]
      /\ cur' \in [Task -> TxnId \cup {None}]
      /\ next_txn_id' \in Nat \ {0}
  BY <1>1, <1>2 DEF TypeOK, TxnId
<1>5. run' \in [Task -> {"running", "asleep", "signalled"}]
  BY Zenon, <1>1, <1>2 DEF TypeOK, WakeReaders
<1>6. todo' \in [Slot -> Seq(TxnId)]
  BY Zenon, <1>1, <1>2, <1>3, AppendFacts DEF TypeOK
<1>7. /\ txn' \in [TxnId -> Txn]
      /\ txn'[n] = NewTxn(p, oneway)
      /\ \A i \in TxnId \ {n} : txn'[i] = txn[i]
  <2>1. NewTxn(p, oneway) \in Txn
    BY Zenon DEF NewTxn, Txn
  <2>2. QED
    BY Zenon, <1>1, <1>2, <2>1 DEF TypeOK
<1>8. FilesInv'
  BY Zenon, <1>1, <1>2 DEF IInv, FilesInv, TypeOK
<1>9. ~Allocated(n) /\ \A q \in Slot : n \notin HeldBy(q)
  <2>1. ~Allocated(n)
    BY <1>0, <1>2 DEF IInv, TxnInv, FreshIds, TypeOK, TxnId
  <2>2. QED
    BY Zenon, <2>1, HeldFacts
<1>10. /\ \A q \in Slot \ {p} : todo'[q] = todo[q]
       /\ todo'[p] = Append(todo[p], n)
       /\ Len(todo[p]) \in Nat
       /\ Len(todo'[p]) = Len(todo[p]) + 1
       /\ \A k \in 1 .. Len(todo[p]) : todo'[p][k] = todo[p][k]
       /\ todo'[p][Len(todo[p]) + 1] = n
  BY SMTT(30), <1>1, <1>2, <1>3, AppendFacts DEF TypeOK
<1>11. HeldBy(p)' = HeldBy(p) \cup {n} /\ \A q \in Slot \ {p} : HeldBy(q)' = HeldBy(q)
  <2>1. \A i : OnTodo(p, i)' <=> OnTodo(p, i) \/ i = n
    <3>1. \A k : k \in 1 .. Len(todo'[p]) <=> k \in 1 .. Len(todo[p]) \/ k = Len(todo[p]) + 1
      BY <1>10
    <3>2. QED
      BY Zenon, <1>10, <3>1 DEF OnTodo
  <2>2. HeldBy(p)' = HeldBy(p) \cup {n}
    BY Zenon, <1>1, <2>1 DEF HeldBy
  <2>3. \A q \in Slot \ {p} : HeldBy(q)' = HeldBy(q)
    BY <1>1, <1>10 DEF HeldBy, OnTodo
  <2>4. QED
    BY Zenon, <2>2, <2>3
<1>12. TxnInv'
  <2>0. ListsInv /\ SenderInv /\ OneSender /\ NoLeak /\ FreshIds /\ FifoDelivery
    BY Zenon DEF IInv, TxnInv
  <2>00. /\ cur[t] = None /\ (oneway => cur'[t] = None /\ pc'[t] = "user")
         /\ (~oneway => cur'[t] = n /\ pc'[t] = "transact")
         /\ \A u \in Task \ {t} : cur'[u] = cur[u] /\ pc'[u] = pc[u]
    BY Zenon, <1>1, <1>2, <2>0 DEF TypeOK, SenderInv
  <2>1. ListsInv'
    <3> SUFFICES ASSUME NEW q \in Slot, NEW i \in HeldBy(q)'
                 PROVE (in_use[q] /\ txn[i].target = q /\ ~txn[i].done
                        /\ (i \in in_flight[q] => ~txn[i].oneway))'
      BY Zenon DEF ListsInv
    <3>1. CASE i = n
      <4>1. q = p /\ i \notin in_flight[q]
        BY Zenon, <1>9, <1>11, <3>1 DEF HeldBy
      <4>2. QED
        BY Zenon, <1>1, <1>7, <3>1, <4>1 DEF NewTxn
    <3>2. CASE i # n
      <4>1. i \in HeldBy(q)
        BY Zenon, <1>11, <3>2
      <4>2. QED
        BY Zenon, <1>1, <1>7, <2>0, <3>2, <4>1, HeldFacts DEF ListsInv
    <3>3. QED
      BY Zenon, <3>1, <3>2
  <2>2. SenderInv'
    <3> SUFFICES ASSUME NEW u \in Task
                 PROVE (IF pc[u] = "transact"
                          THEN /\ cur[u] # None /\ Allocated(cur[u]) /\ ~txn[cur[u]].oneway
                               /\ txn[cur[u]].done \/ cur[u] \in HeldBy(txn[cur[u]].target)
                          ELSE cur[u] = None)'
      BY Zenon DEF SenderInv
    <3>1. CASE u = t
      <4>1. CASE oneway
        BY Zenon, <2>00, <3>1, <4>1
      <4>2. CASE ~oneway
        <5>1. cur'[u] = n /\ pc'[u] = "transact" /\ n # None
          BY Zenon, <2>00, <3>1, <4>2, NumberFacts
        <5>2. txn'[n].target = p /\ ~txn'[n].oneway
          <6>1. NewTxn(p, oneway).target = p /\ NewTxn(p, oneway).oneway = oneway
            BY Zenon DEF NewTxn
          <6> QED BY Zenon, <1>7, <4>2, <6>1
        <5>3. p # None /\ n \in HeldBy(p)'
          BY Zenon, <1>11, NumberFacts
        <5> QED BY Zenon, <5>1, <5>2, <5>3 DEF Allocated
      <4> QED BY Zenon, <4>1, <4>2
    <3>2. CASE u # t
      <4>1. CASE pc[u] # "transact"
        BY Zenon, <2>0, <2>00, <3>2, <4>1 DEF SenderInv
      <4>2. CASE pc[u] = "transact"
        <5>1. cur[u] \in TxnId \ {n} /\ cur[u] # None /\ Allocated(cur[u])
              /\ ~txn[cur[u]].oneway /\ txn[cur[u]].target \in Slot
              /\ (txn[cur[u]].done \/ cur[u] \in HeldBy(txn[cur[u]].target))
          BY Zenon, <1>2, <1>9, <2>0, <4>2 DEF SenderInv, TypeOK, Txn, Allocated
        <5>2. cur'[u] = cur[u] /\ pc'[u] = "transact" /\ txn'[cur[u]] = txn[cur[u]]
          BY Zenon, <1>7, <2>00, <3>2, <4>2, <5>1
        <5>3. (txn[cur[u]].done \/ cur[u] \in HeldBy(txn[cur[u]].target))'
          BY Zenon, <1>11, <5>1, <5>2
        <5>4. QED
          BY Zenon, <5>1, <5>2, <5>3 DEF Allocated
      <4>3. QED
        BY Zenon, <4>1, <4>2
    <3>3. QED
      BY Zenon, <3>1, <3>2
  <2>3. OneSender'
    <3>1. \A u \in Task : cur[u] # n
      BY Zenon, <1>2, <1>9, <2>0 DEF SenderInv
    <3> SUFFICES ASSUME NEW u \in Task, NEW v \in Task, cur'[u] = cur'[v], cur'[u] # None
                 PROVE  u = v
      BY Zenon DEF OneSender
    <3>2. cur'[t] \in {None, n}
      BY Zenon, <2>00
    <3>3. CASE u # t /\ v # t
      BY Zenon, <2>0, <2>00, <3>3 DEF OneSender
    <3>4. CASE u = t /\ v # t
      BY Zenon, <2>00, <3>1, <3>2, <3>4
    <3>5. CASE u # t /\ v = t
      BY Zenon, <2>00, <3>1, <3>2, <3>5
    <3> QED BY Zenon, <3>3, <3>4, <3>5
  <2>4. NoLeak'
    <3> SUFFICES ASSUME NEW i \in TxnId, Allocated(i)'
                 PROVE (IF txn[i].oneway THEN i \in HeldBy(txn[i].target)
                        ELSE \E u \in Task : cur[u] = i)'
      BY Zenon DEF NoLeak
    <3>1. CASE i = n
      <4>1. txn'[i].target = p /\ txn'[i].oneway = oneway
        <5>1. NewTxn(p, oneway).target = p /\ NewTxn(p, oneway).oneway = oneway
          BY Zenon DEF NewTxn
        <5> QED BY Zenon, <1>7, <3>1, <5>1
      <4> QED BY Zenon, <1>11, <2>00, <3>1, <4>1
    <3>2. CASE i # n
      <4>1. txn'[i] = txn[i] /\ Allocated(i) /\ txn[i].target \in Slot
        BY SMTT(30), <1>2, <1>7, <3>2 DEF Allocated, TypeOK, Txn
      <4>2. CASE txn[i].oneway
        BY <1>11, <2>0, <4>1, <4>2 DEF NoLeak
      <4>3. CASE ~txn[i].oneway
        <5>1. PICK u \in Task : cur[u] = i
          BY Zenon, <2>0, <4>1, <4>3 DEF NoLeak
        <5>2. cur'[u] = i
          BY SMTT(30), <2>00, <5>1 DEF TxnId, None
        <5>3. QED
          BY Zenon, <4>1, <4>3, <5>2
      <4>4. QED
        BY Zenon, <4>2, <4>3
    <3>3. QED
      BY Zenon, <3>1, <3>2
  <2>5. FreshIds'
    <3> SUFFICES ASSUME NEW i \in TxnId, i >= next_txn_id' PROVE ~Allocated(i)'
      BY Zenon DEF FreshIds
    <3>1. i # n /\ i >= next_txn_id
      BY <1>0, <1>1 DEF TxnId
    <3>2. QED
      BY Zenon, <1>7, <2>0, <3>1 DEF FreshIds, Allocated
  <2>6. FifoDelivery'
    <3>1. \A i \in HeldBy(p) : i < n /\ i \in TxnId
      BY Zenon, <1>0, HeldFacts
    <3>2. \A k \in 1 .. Len(todo[p]) : todo[p][k] < n
      BY Zenon, <3>1, TodoHeld
    <3>3. \A i \in in_flight[p] : i < n
      BY Zenon, <1>2, <3>1 DEF HeldBy, TypeOK
    <3>4. \A k, l \in 1 .. Len(todo'[p]) : k < l => todo'[p][k] < todo'[p][l]
      BY <1>10, <2>0, <3>2 DEF FifoDelivery
    <3>5. \A i \in in_flight[p], k \in 1 .. Len(todo'[p]) : i < todo'[p][k]
      BY <1>10, <2>0, <3>3 DEF FifoDelivery
    <3>6. QED
      <4>1. \A q \in Slot \ {p} : todo'[q] = todo[q] /\ in_flight'[q] = in_flight[q]
        BY Zenon, <1>1, <1>10
      <4>2. in_flight'[p] = in_flight[p]
        BY Zenon, <1>1
      <4>3. ASSUME NEW q \in Slot
            PROVE  /\ \A k, l \in 1 .. Len(todo'[q]) : k < l => todo'[q][k] < todo'[q][l]
                   /\ \A j \in in_flight'[q], k \in 1 .. Len(todo'[q]) : j < todo'[q][k]
        <5>1. CASE q = p
          BY Zenon, <3>4, <3>5, <4>2, <5>1
        <5>2. CASE q # p
          BY Zenon, <2>0, <4>1, <5>2 DEF FifoDelivery
        <5>3. QED
          BY Zenon, <5>1, <5>2
      <4>4. QED
        BY Zenon, <4>3 DEF FifoDelivery
  <2>7. QED
    BY Zenon, <2>1, <2>2, <2>3, <2>4, <2>5, <2>6 DEF TxnInv
<1>13. NoLostWakeup'
  <2> SUFFICES ASSUME NEW u \in Task, run'[u] = "asleep"
               PROVE  (\/ pc[u] = "transact" /\ ~txn[cur[u]].done
                       \/ pc[u] \in ReadCall /\ ~Ready(file[u], pc[u]))'
    BY Zenon DEF NoLostWakeup
  <2>1. CASE u = t
    BY Zenon, <1>1, <1>2, <1>7, <2>1 DEF NewTxn, TypeOK, WakeReaders
  <2>2. CASE u # t
    <3>1. run[u] = "asleep" /\ pc'[u] = pc[u] /\ cur'[u] = cur[u]
          /\ ~SleepsOnProc(u, p)
      BY Zenon, <1>1, <1>2, <2>2 DEF TypeOK, WakeReaders
    <3>2. CASE pc[u] = "transact" /\ ~txn[cur[u]].done
      <4>1. cur[u] \in TxnId \ {n}
        BY Zenon, <1>2, <1>9, <3>2 DEF IInv, TxnInv, SenderInv, TypeOK
      <4>2. QED
        BY Zenon, <1>7, <3>1, <3>2, <4>1
    <3>3. CASE pc[u] \in ReadCall /\ ~Ready(file[u], pc[u])
      <4>0. file[u] \in Slot \cup {None} /\ (pc[u] # "user" => file[u] # None)
        BY Zenon, <1>2 DEF IInv, FilesInv, TypeOK
      <4>1. file[u] # p /\ file[u] \in Slot
        <5>1. pc[u] # "user"
          BY Zenon, <3>3, ConstantsAssumption
        <5>2. file[u] # p
          BY Zenon, <3>1, <3>3 DEF SleepsOnProc
        <5> QED BY Zenon, <4>0, <5>1, <5>2
      <4>2. QED
        <5>1. todo'[file[u]] = todo[file[u]] /\ file'[u] = file[u]
          BY Zenon, <1>1, <1>10, <4>1
        <5>2. UNCHANGED <<last_uevent_seq, global_uevent_seq>>
          BY Zenon, <1>1 DEF ueventVars
        <5> QED BY Zenon, <3>1, <3>3, <5>1, <5>2 DEF Ready, UeventPending
    <3>4. QED
      BY Zenon, <3>1, <3>2, <3>3 DEF IInv, NoLostWakeup
  <2>3. QED
    BY Zenon, <2>1, <2>2
<1>14. QED
  BY Zenon, <1>4, <1>5, <1>6, <1>7, <1>8, <1>12, <1>13

(* BINDER_IOC_TRANSACT in its three forms keeps the invariant. *)
LEMMA TransactStep ==
  ASSUME IInv, NEW t \in Task, Transact(t)
  PROVE  IInv'
<1>1. /\ pc[t] = "user" /\ file[t] \in Slot /\ file[t] # None /\ in_use[file[t]]
      /\ UNCHANGED <<ueventVars, context_mgr>>
  <2>1. pc[t] = "user" /\ file[t] # None /\ UNCHANGED <<ueventVars, context_mgr>>
    BY Zenon DEF Transact, TransactManager, AddService, TransactService, svcVars
  <2>2. QED
    BY <2>1 DEF IInv, TypeOK, FilesInv
<1>2. PICK oneway \in BOOLEAN :
        \/ TransactManager(t, oneway)
        \/ \E n \in Name : AddService(t, n, oneway)
        \/ \E h \in 1 .. MaxHandles : TransactService(t, h, oneway)
  BY Zenon DEF Transact
<1>3. PICK p \in Slot : in_use[p] /\ Enqueue(t, p, oneway)
  <2>1. CASE TransactManager(t, oneway) \/ \E n \in Name : AddService(t, n, oneway)
    BY Zenon, <2>1 DEF TransactManager, AddService, Callable, IInv, TypeOK
  <2>2. CASE \E h \in 1 .. MaxHandles : TransactService(t, h, oneway)
    BY Zenon, <2>2 DEF TransactService, FindByHandle, Callable, IInv, TypeOK, Svc
  <2>3. QED
    BY Zenon, <1>2, <2>1, <2>2
<1>4. /\ pc' \in [Task -> {"user", "transact"} \cup ReadCall]
      /\ run' \in [Task -> {"running", "asleep", "signalled"}]
      /\ cur' \in [Task -> TxnId \cup {None}]
      /\ todo' \in [Slot -> Seq(TxnId)]
      /\ txn' \in [TxnId -> Txn]
      /\ next_txn_id' \in Nat \ {0}
      /\ FilesInv' /\ TxnInv' /\ NoLostWakeup'
  BY Zenon, <1>1, <1>3, EnqueueInv
<1>5. UNCHANGED <<file, in_use, in_flight>>
  BY Zenon, <1>3 DEF Enqueue
<1>6. svcs' \in [SvcSlot -> Svc] /\ next_svc_handle' \in Nat \ {0} /\ RegistryInv'
  <2>1. CASE UNCHANGED svcVars
    BY Zenon, <1>5, <2>1, RegistryFrame DEF IInv, TypeOK, svcVars
  <2>2. CASE \E n \in Name : RegisterService(file[t], n)
    BY Zenon, <1>1, <1>5, <2>2, RegisterInv
  <2>3. QED
    BY Zenon, <1>2, <2>1, <2>2 DEF TransactManager, AddService, TransactService
<1>7. TypeOK'
  BY Zenon, <1>1, <1>4, <1>5, <1>6 DEF IInv, TypeOK, ueventVars
<1>8. QED
  BY Zenon, <1>4, <1>6, <1>7 DEF IInv

-------------------------------------------------------------------------------
(* Transactions received, answered and waited for, and uevents. *)

(* A sender that wakes up sleeps again or returns because its transaction is
   done: it never has to take the transaction off a list. *)
LEMMA TransactWakeStep ==
  ASSUME IInv, NEW t \in Task, TransactWake(t)
  PROVE  IInv'
<1>0. TypeOK /\ ListsInv /\ SenderInv /\ OneSender /\ NoLeak /\ FreshIds /\ FifoDelivery
  BY Zenon DEF IInv, TxnInv
<1>1. PICK i \in TxnId : i = cur[t]
  BY Zenon, <1>0 DEF TransactWake, SenderInv, TypeOK
<1>2. PICK p \in Slot : p = txn[i].target
  BY Zenon, <1>0, <1>1 DEF TransactWake, SenderInv, TypeOK, Txn, Allocated
<1>3. pc[t] = "transact" /\ run[t] # "asleep" /\ i # None /\ ~txn[i].oneway
      /\ (txn[i].done \/ i \in HeldBy(p))
  BY Zenon, <1>0, <1>1, <1>2 DEF TransactWake, SenderInv
<1>4. UNCHANGED <<file, in_use, next_txn_id, svcVars, ueventVars>>
  BY Zenon DEF TransactWake
<1>5. CASE ~txn[i].done
  <2>1. in_use[p]
    BY Zenon, <1>3, <1>5, HeldFacts
  <2>2. run' = [run EXCEPT ![t] = "asleep"] /\ UNCHANGED <<pc, cur, todo, in_flight, txn>>
    BY Zenon, <1>1, <1>2, <1>5, <2>1 DEF TransactWake
  <2>3. TypeOK'
    BY Zenon, <1>0, <1>4, <2>2 DEF TypeOK, svcVars, ueventVars
  <2>4. FilesInv' /\ TxnInv' /\ RegistryInv'
    BY Zenon, <1>4, <2>2, FilesFrame, TxnFrame, RegistryFrame DEF IInv, txnVars
  <2>5. NoLostWakeup'
    <3> SUFFICES ASSUME NEW u \in Task, run'[u] = "asleep"
                 PROVE  (\/ pc[u] = "transact" /\ ~txn[cur[u]].done
                         \/ pc[u] \in ReadCall /\ ~Ready(file[u], pc[u]))'
      BY Zenon DEF NoLostWakeup
    <3>1. CASE u = t
      BY Zenon, <1>1, <1>3, <1>5, <2>2, <3>1
    <3>2. CASE u # t
      BY Zenon, <1>0, <1>4, <2>2, <3>2
         DEF IInv, NoLostWakeup, Ready, UeventPending, ueventVars, TypeOK
    <3>3. QED
      BY Zenon, <3>1, <3>2
  <2>6. QED
    BY Zenon, <2>3, <2>4, <2>5 DEF IInv
<1>6. CASE txn[i].done
  <2>1. /\ pc' = [pc EXCEPT ![t] = "user"]
        /\ run' = [run EXCEPT ![t] = "running"]
        /\ cur' = [cur EXCEPT ![t] = None]
        /\ UNCHANGED <<todo, in_flight>>
        /\ txn' = [txn EXCEPT ![i] = FreeTxn]
    BY Zenon, <1>1, <1>2, <1>6 DEF TransactWake
  <2>2. TypeOK'
    <3>1. txn' \in [TxnId -> Txn]
      BY Zenon, <1>0, <2>1 DEF TypeOK, Txn, FreeTxn
    <3>2. /\ pc' \in [Task -> {"user", "transact"} \cup ReadCall]
          /\ run' \in [Task -> {"running", "asleep", "signalled"}]
          /\ cur' \in [Task -> TxnId \cup {None}]
      BY Zenon, <1>0, <2>1 DEF TypeOK
    <3>3. QED
      BY Zenon, <1>0, <1>4, <2>1, <3>1, <3>2 DEF TypeOK, svcVars, ueventVars
  <2>3. FilesInv' /\ RegistryInv'
    BY Zenon, <1>0, <1>4, <2>1, RegistryFrame DEF IInv, FilesInv, TypeOK
  <2>4. \A q \in Slot : HeldBy(q)' = HeldBy(q) /\ i \notin HeldBy(q)
    BY Zenon, <1>6, <2>1, HeldFacts DEF HeldBy, OnTodo
  <2>5. ~Allocated(i)' /\ \A j \in TxnId \ {i} : txn'[j] = txn[j]
    BY Zenon, <1>0, <2>1 DEF TypeOK, Allocated, FreeTxn
  <2>6. /\ pc'[t] = "user" /\ cur'[t] = None /\ run'[t] = "running"
        /\ \A u \in Task \ {t} : /\ pc'[u] = pc[u] /\ cur'[u] = cur[u] /\ run'[u] = run[u]
                                 /\ cur[u] # i
    <3>1. \A u \in Task \ {t} : cur[u] # i
      BY Zenon, <1>0, <1>1, <1>3 DEF OneSender
    <3>2. QED
      BY Zenon, <1>0, <2>1, <3>1 DEF TypeOK
  <2>7. TxnInv'
    <3>1. ListsInv'
      <4> SUFFICES ASSUME NEW q \in Slot, NEW j \in HeldBy(q)'
                   PROVE (in_use[q] /\ txn[j].target = q /\ ~txn[j].done
                          /\ (j \in in_flight[q] => ~txn[j].oneway))'
        BY Zenon DEF ListsInv
      <4>0. j \in HeldBy(q) /\ j # i
        BY Zenon, <2>4
      <4>1. j \in HeldBy(q) /\ j \in TxnId \ {i}
        BY Zenon, <4>0, HeldFacts
      <4>2. /\ txn'[j] = txn[j] /\ in_use' = in_use /\ in_flight' = in_flight
            /\ in_use[q] /\ txn[j].target = q /\ ~txn[j].done
            /\ (j \in in_flight[q] => ~txn[j].oneway)
        BY Zenon, <1>0, <1>4, <2>1, <2>5, <4>1 DEF ListsInv
      <4>3. QED
        BY Zenon, <4>2
    <3>2. SenderInv'
      <4> SUFFICES ASSUME NEW u \in Task
                   PROVE (IF pc[u] = "transact"
                            THEN /\ cur[u] # None /\ Allocated(cur[u]) /\ ~txn[cur[u]].oneway
                                 /\ txn[cur[u]].done \/ cur[u] \in HeldBy(txn[cur[u]].target)
                            ELSE cur[u] = None)'
        BY Zenon DEF SenderInv
      <4>1. CASE u = t \/ pc[u] # "transact"
        BY Zenon, <1>0, <2>6, <4>1 DEF SenderInv
      <4>2. CASE u # t /\ pc[u] = "transact"
        <5>1. cur[u] \in TxnId \ {i} /\ cur[u] # None /\ Allocated(cur[u])
              /\ ~txn[cur[u]].oneway /\ txn[cur[u]].target \in Slot
              /\ (txn[cur[u]].done \/ cur[u] \in HeldBy(txn[cur[u]].target))
          BY Zenon, <1>0, <2>6, <4>2 DEF SenderInv, TypeOK, Txn, Allocated
        <5>2. cur'[u] = cur[u] /\ pc'[u] = "transact" /\ txn'[cur[u]] = txn[cur[u]]
          BY Zenon, <2>5, <2>6, <4>2, <5>1
        <5>3. (txn[cur[u]].done \/ cur[u] \in HeldBy(txn[cur[u]].target))'
          BY Zenon, <2>4, <5>1, <5>2
        <5>4. QED
          BY Zenon, <5>1, <5>2, <5>3 DEF Allocated
      <4>3. QED
        BY Zenon, <4>1, <4>2
    <3>3. OneSender'
      BY <1>0, <2>6 DEF OneSender
    <3>4. NoLeak'
      <4> SUFFICES ASSUME NEW j \in TxnId, Allocated(j)'
                   PROVE (IF txn[j].oneway THEN j \in HeldBy(txn[j].target)
                          ELSE \E u \in Task : cur[u] = j)'
        BY Zenon DEF NoLeak
      <4>1. j # i /\ txn'[j] = txn[j] /\ Allocated(j) /\ txn[j].target \in Slot
        BY Zenon, <1>0, <2>5 DEF Allocated, TypeOK, Txn
      <4>2. CASE txn[j].oneway
        BY Zenon, <1>0, <2>4, <4>1, <4>2 DEF NoLeak
      <4>3. CASE ~txn[j].oneway
        <5>1. PICK u \in Task : cur[u] = j
          BY Zenon, <1>0, <4>1, <4>3 DEF NoLeak
        <5>2. cur'[u] = j
          BY Zenon, <1>1, <2>6, <4>1, <5>1
        <5>3. QED
          BY Zenon, <4>1, <4>3, <5>2
      <4>4. QED
        BY Zenon, <4>2, <4>3
    <3>5. FreshIds' /\ FifoDelivery'
      BY Zenon, <1>0, <1>4, <2>1, <2>5 DEF FreshIds, FifoDelivery, Allocated
    <3>6. QED
      BY Zenon, <3>1, <3>2, <3>3, <3>4, <3>5 DEF TxnInv
  <2>8. NoLostWakeup'
    <3> SUFFICES ASSUME NEW u \in Task, run'[u] = "asleep"
                 PROVE  (\/ pc[u] = "transact" /\ ~txn[cur[u]].done
                         \/ pc[u] \in ReadCall /\ ~Ready(file[u], pc[u]))'
      BY Zenon DEF NoLostWakeup
    <3>1. u # t /\ run[u] = "asleep"
      BY Zenon, <2>6
    <3>2. CASE pc[u] = "transact" /\ ~txn[cur[u]].done
      <4>1. cur[u] \in TxnId \ {i}
        BY Zenon, <1>0, <2>6, <3>1, <3>2 DEF SenderInv, TypeOK
      <4>2. QED
        BY Zenon, <2>5, <2>6, <3>1, <3>2, <4>1
    <3>3. CASE pc[u] \in ReadCall /\ ~Ready(file[u], pc[u])
      BY Zenon, <1>4, <2>1, <2>6, <3>1, <3>3 DEF Ready, UeventPending, ueventVars
    <3>4. QED
      BY Zenon, <3>1, <3>2, <3>3 DEF IInv, NoLostWakeup
  <2>9. QED
    BY Zenon, <2>2, <2>3, <2>7, <2>8 DEF IInv
<1>7. QED
  BY Zenon, <1>5, <1>6

(* binder_do_reply keeps the invariant: the transaction leaves in_flight as it
   becomes done, and its sender is awake. *)
LEMMA ReplyStep ==
  ASSUME IInv, NEW t \in Task, NEW i \in TxnId, DoReply(t, i)
  PROVE  IInv'
<1>0. TypeOK /\ ListsInv /\ SenderInv /\ OneSender /\ NoLeak /\ FreshIds /\ FifoDelivery
  BY Zenon DEF IInv, TxnInv
<1>1. PICK p \in Slot : p = file[t]
  BY Zenon, <1>0 DEF DoReply, TypeOK
<1>2. /\ i \in in_flight[p]
      /\ in_flight' = [in_flight EXCEPT ![p] = @ \ {i}]
      /\ txn' = [txn EXCEPT ![i] = Finished(@, "replied")]
      /\ run' = WakeSenders({i})
      /\ UNCHANGED <<file, pc, cur, in_use, todo, next_txn_id, svcVars, ueventVars>>
  BY Zenon, <1>1 DEF DoReply
<1>3. i \in HeldBy(p) /\ ~OnTodo(p, i)
  <2>1. \A k \in 1 .. Len(todo[p]) : i < todo[p][k] /\ todo[p][k] \in TxnId
    BY Zenon, <1>0, <1>2, TodoHeld DEF FifoDelivery, HeldBy
  <2>2. \A k \in 1 .. Len(todo[p]) : todo[p][k] # i
    BY <2>1 DEF TxnId
  <2>3. QED
    BY Zenon, <1>2, <2>2 DEF HeldBy, OnTodo
<1>4. /\ txn' \in [TxnId -> Txn]
      /\ txn'[i].done /\ txn'[i].target = txn[i].target /\ txn'[i].oneway = txn[i].oneway
      /\ \A j \in TxnId \ {i} : txn'[j] = txn[j]
  <2>1. Finished(txn[i], "replied") \in Txn
    BY Zenon, <1>0 DEF TypeOK, Txn, Finished
  <2>2. QED
    BY Zenon, <1>0, <1>2, <2>1 DEF TypeOK, Finished
<1>5. HeldBy(p)' = HeldBy(p) \ {i} /\ \A q \in Slot \ {p} : HeldBy(q)' = HeldBy(q)
  <2>1. in_flight'[p] = in_flight[p] \ {i}
        /\ \A q \in Slot \ {p} : in_flight'[q] = in_flight[q]
    BY Zenon, <1>0, <1>2 DEF TypeOK
  <2>2. QED
    BY Zenon, <1>2, <1>3, <2>1 DEF HeldBy, OnTodo
<1>6. TypeOK'
  <2>1. in_flight' \in [Slot -> SUBSET TxnId]
        /\ run' \in [Task -> {"running", "asleep", "signalled"}]
    BY Zenon, <1>0, <1>2 DEF TypeOK, WakeSenders
  <2>2. QED
    BY Zenon, <1>0, <1>2, <1>4, <2>1 DEF TypeOK, svcVars, ueventVars
<1>7. FilesInv' /\ RegistryInv'
  BY Zenon, <1>2, FilesFrame, RegistryFrame DEF IInv
<1>8. TxnInv'
  <2>1. ListsInv'
    <3> SUFFICES ASSUME NEW q \in Slot, NEW j \in HeldBy(q)'
                 PROVE (in_use[q] /\ txn[j].target = q /\ ~txn[j].done
                        /\ (j \in in_flight[q] => ~txn[j].oneway))'
      BY Zenon DEF ListsInv
    <3>1. j \in HeldBy(q) /\ j \in TxnId \ {i}
      <4>1. CASE q = p
        BY Zenon, <1>5, <4>1, HeldFacts
      <4>2. CASE q # p
        <5>1. j \in HeldBy(q)
          BY Zenon, <1>5, <4>2
        <5>2. txn[j].target = q /\ j \in TxnId
          BY Zenon, <5>1, HeldFacts
        <5>3. txn[i].target = p
          BY Zenon, <1>3, HeldFacts
        <5>4. QED
          BY Zenon, <4>2, <5>1, <5>2, <5>3
      <4>3. QED
        BY Zenon, <4>1, <4>2
    <3>2. in_flight'[q] \subseteq in_flight[q]
      BY Zenon, <1>0, <1>2 DEF TypeOK
    <3>3. in_use[q] /\ txn[j].target = q /\ ~txn[j].done /\ (j \in in_flight[q] => ~txn[j].oneway)
      BY Zenon, <1>0, <3>1 DEF ListsInv
    <3>4. txn'[j] = txn[j] /\ in_use' = in_use
      BY Zenon, <1>2, <1>4, <3>1
    <3>5. QED
      BY Zenon, <3>2, <3>3, <3>4
  <2>2. SenderInv'
    <3> SUFFICES ASSUME NEW u \in Task
                 PROVE (IF pc[u] = "transact"
                          THEN /\ cur[u] # None /\ Allocated(cur[u]) /\ ~txn[cur[u]].oneway
                               /\ txn[cur[u]].done \/ cur[u] \in HeldBy(txn[cur[u]].target)
                          ELSE cur[u] = None)'
      BY Zenon DEF SenderInv
    <3>1. CASE pc[u] # "transact"
      BY Zenon, <1>0, <1>2, <3>1 DEF SenderInv
    <3>2. CASE pc[u] = "transact"
      <4>1. cur[u] \in TxnId /\ cur[u] # None /\ Allocated(cur[u])
            /\ ~txn[cur[u]].oneway /\ txn[cur[u]].target \in Slot
            /\ (txn[cur[u]].done \/ cur[u] \in HeldBy(txn[cur[u]].target))
        BY Zenon, <1>0, <3>2 DEF SenderInv, TypeOK, Txn, Allocated
      <4>2. CASE cur[u] = i
        BY Zenon, <1>2, <1>4, <3>2, <4>1, <4>2 DEF Allocated
      <4>3. CASE cur[u] # i
        <5>1. cur'[u] = cur[u] /\ pc'[u] = "transact" /\ txn'[cur[u]] = txn[cur[u]]
          BY Zenon, <1>2, <1>4, <3>2, <4>1, <4>3
        <5>2. (txn[cur[u]].done \/ cur[u] \in HeldBy(txn[cur[u]].target))'
          BY Zenon, <1>5, <4>1, <4>3, <5>1
        <5>3. QED
          BY Zenon, <4>1, <5>1, <5>2 DEF Allocated
      <4>4. QED
        BY Zenon, <4>2, <4>3
    <3>3. QED
      BY Zenon, <3>1, <3>2
  <2>3. NoLeak'
    <3> SUFFICES ASSUME NEW j \in TxnId, Allocated(j)'
                 PROVE (IF txn[j].oneway THEN j \in HeldBy(txn[j].target)
                        ELSE \E u \in Task : cur[u] = j)'
      BY Zenon DEF NoLeak
    <3>1. Allocated(j) /\ txn'[j].oneway = txn[j].oneway /\ txn'[j].target = txn[j].target
          /\ txn[j].target \in Slot
      BY ZenonT(40), <1>0, <1>4 DEF Allocated, TypeOK, Txn
    <3>2. CASE txn[j].oneway
      <4>1. j # i
        BY Zenon, <1>0, <1>2, <1>3, <3>2 DEF ListsInv
      <4>2. PICK r \in Slot : r = txn[j].target
        BY Zenon, <3>1
      <4>3. j \in HeldBy(r)
        BY Zenon, <1>0, <3>1, <3>2, <4>2 DEF NoLeak
      <4>4. j \in HeldBy(r)'
        BY Zenon, <1>5, <4>1, <4>3
      <4>5. QED
        BY Zenon, <3>1, <3>2, <4>2, <4>4 DEF HeldBy, OnTodo
    <3>3. CASE ~txn[j].oneway
      BY Zenon, <1>0, <1>2, <3>1, <3>3 DEF NoLeak
    <3>4. QED
      BY Zenon, <3>2, <3>3
  <2>4. OneSender'
    BY Zenon, <1>0, <1>2 DEF OneSender
  <2>5. FreshIds'
    BY Zenon, <1>0, <1>2, <1>4 DEF FreshIds, Allocated
  <2>6. FifoDelivery'
    <3>1. \A q \in Slot : in_flight'[q] \subseteq in_flight[q]
      BY Zenon, <1>0, <1>2 DEF TypeOK
    <3>2. QED
      BY Zenon, <1>0, <1>2, <3>1 DEF FifoDelivery
  <2>7. QED
    BY Zenon, <2>1, <2>2, <2>3, <2>4, <2>5, <2>6 DEF TxnInv
<1>9. NoLostWakeup'
  <2> SUFFICES ASSUME NEW u \in Task, run'[u] = "asleep"
               PROVE  (\/ pc[u] = "transact" /\ ~txn[cur[u]].done
                       \/ pc[u] \in ReadCall /\ ~Ready(file[u], pc[u]))'
    BY Zenon DEF NoLostWakeup
  <2>1. run[u] = "asleep" /\ ~(pc[u] = "transact" /\ cur[u] = i)
    BY Zenon, <1>0, <1>2 DEF WakeSenders, TypeOK
  <2>2. CASE pc[u] = "transact" /\ ~txn[cur[u]].done
    <3>1. cur[u] \in TxnId \ {i}
      BY Zenon, <1>0, <2>1, <2>2 DEF SenderInv, TypeOK
    <3>2. QED
      BY Zenon, <1>2, <1>4, <2>2, <3>1
  <2>3. CASE pc[u] \in ReadCall /\ ~Ready(file[u], pc[u])
    BY Zenon, <1>2, <2>3 DEF Ready, UeventPending, ueventVars
  <2>4. QED
    BY Zenon, <2>1, <2>2, <2>3 DEF IInv, NoLostWakeup
<1>10. QED
  BY Zenon, <1>6, <1>7, <1>8, <1>9 DEF IInv

(* Taking the head of todo keeps the invariant: a one-way transaction is freed, any
   other one moves to in_flight, and the order of ids is kept. *)
LEMMA TakeTxnInv ==
  ASSUME IInv, NEW p \in Slot, todo[p] # <<>>, TakeTxn(p),
         UNCHANGED <<cur, in_use, next_txn_id>>,
         \A u \in Task : pc'[u] = "transact" <=> pc[u] = "transact"
  PROVE  /\ todo' \in [Slot -> Seq(TxnId)] /\ in_flight' \in [Slot -> SUBSET TxnId]
         /\ txn' \in [TxnId -> Txn]
         /\ TxnInv'
         /\ \A q \in Slot : todo'[q] # <<>> => todo[q] # <<>>
         /\ \A u \in Task : pc[u] = "transact" => txn'[cur[u]] = txn[cur[u]]
<1>0. TypeOK /\ ListsInv /\ SenderInv /\ OneSender /\ NoLeak /\ FreshIds /\ FifoDelivery
  BY Zenon DEF IInv, TxnInv
<1>1. todo[p] \in Seq(TxnId)
  BY Zenon, <1>0 DEF TypeOK
<1>2. PICK i \in TxnId : i = Head(todo[p])
  BY Zenon, <1>1, TailFacts
<1>3. /\ todo' = [todo EXCEPT ![p] = Tail(@)]
      /\ txn[i].oneway => txn' = [txn EXCEPT ![i] = FreeTxn] /\ in_flight' = in_flight
      /\ ~txn[i].oneway => /\ in_flight' = [in_flight EXCEPT ![p] = @ \cup {i}]
                           /\ txn' = txn
  BY Zenon, <1>2 DEF TakeTxn
<1>4. /\ Tail(todo[p]) \in Seq(TxnId)
      /\ Len(todo[p]) \in Nat \ {0}
      /\ Len(todo'[p]) = Len(todo[p]) - 1
      /\ \A k \in 1 .. Len(todo[p]) - 1 : todo'[p][k] = todo[p][k + 1]
      /\ todo[p][1] = i
      /\ \A q \in Slot \ {p} : todo'[q] = todo[q]
  BY SMTT(30), <1>0, <1>1, <1>2, <1>3, TailFacts DEF TypeOK
<1>5. todo' \in [Slot -> Seq(TxnId)] /\ in_flight' \in [Slot -> SUBSET TxnId]
      /\ txn' \in [TxnId -> Txn]
  <2>1. todo' \in [Slot -> Seq(TxnId)]
    BY Zenon, <1>0, <1>3, <1>4 DEF TypeOK
  <2>2. FreeTxn \in Txn
    BY Zenon DEF Txn, FreeTxn
  <2>3. CASE txn[i].oneway
    <3>1. txn' = [txn EXCEPT ![i] = FreeTxn] /\ in_flight' = in_flight
      BY Zenon, <1>3, <2>3
    <3>2. QED
      BY Zenon, <1>0, <2>1, <2>2, <3>1 DEF TypeOK
  <2>4. CASE ~txn[i].oneway
    <3>1. in_flight' = [in_flight EXCEPT ![p] = in_flight[p] \cup {i}] /\ txn' = txn
      BY Zenon, <1>3, <2>4
    <3>2. in_flight[p] \cup {i} \in SUBSET TxnId
      BY Zenon, <1>0 DEF TypeOK
    <3>3. QED
      BY Zenon, <1>0, <2>1, <3>1, <3>2 DEF TypeOK
  <2>5. QED
    BY Zenon, <2>3, <2>4
<1>6. i \in HeldBy(p) /\ txn[i].target = p /\ ~txn[i].done /\ i \notin in_flight[p]
  <2>1. i \in HeldBy(p)
    BY SMTT(30), <1>4, TodoHeld
  <2>2. i \notin in_flight[p]
    <3>1. 1 \in 1 .. Len(todo[p]) /\ ~(i < i)
      BY <1>4, NumberFacts
    <3> QED BY Zenon, <1>0, <1>4, <3>1 DEF FifoDelivery
  <2>3. QED
    BY Zenon, <2>1, <2>2, HeldFacts
<1>7. \A j : OnTodo(p, j)' <=> OnTodo(p, j) /\ j # i
  <2>1. ASSUME NEW j, OnTodo(p, j)'
        PROVE  OnTodo(p, j) /\ j # i
    <3>1. PICK k \in 1 .. Len(todo[p]) - 1 : todo[p][k + 1] = j
      BY Zenon, <1>4, <2>1 DEF OnTodo
    <3>2. k + 1 \in 1 .. Len(todo[p]) /\ 1 < k + 1 /\ 1 \in 1 .. Len(todo[p])
      BY <1>4
    <3>3. i < j
      BY Zenon, <1>0, <1>4, <3>1, <3>2 DEF FifoDelivery
    <3>4. j \in TxnId
      BY <3>1, <3>2, TodoHeld, HeldFacts
    <3>5. QED
      BY <3>1, <3>2, <3>3, <3>4 DEF OnTodo, TxnId
  <2>2. ASSUME NEW j, OnTodo(p, j), j # i
        PROVE  OnTodo(p, j)'
    <3>1. PICK k \in 1 .. Len(todo[p]) : todo[p][k] = j
      BY Zenon, <2>2 DEF OnTodo
    <3>2. k - 1 \in 1 .. Len(todo[p]) - 1 /\ (k - 1) + 1 = k
      BY <1>4, <2>2, <3>1
    <3>3. todo'[p][k - 1] = j
      BY Zenon, <1>4, <3>1, <3>2
    <3>4. QED
      BY Zenon, <1>4, <3>2, <3>3 DEF OnTodo
  <2>3. QED
    BY Zenon, <2>1, <2>2
<1>8. /\ txn[i].oneway => HeldBy(p)' = HeldBy(p) \ {i}
      /\ ~txn[i].oneway => HeldBy(p)' = HeldBy(p)
      /\ \A q \in Slot \ {p} : HeldBy(q)' = HeldBy(q)
  <2>1. CASE txn[i].oneway
    <3>1. HeldBy(p)' = HeldBy(p) \ {i}
      BY Zenon, <1>3, <1>6, <1>7, <2>1 DEF HeldBy
    <3>2. \A q \in Slot \ {p} : HeldBy(q)' = HeldBy(q)
      BY <1>3, <1>4, <2>1 DEF HeldBy, OnTodo
    <3>3. QED
      BY Zenon, <2>1, <3>1, <3>2
  <2>2. CASE ~txn[i].oneway
    <3>1. in_flight'[p] = in_flight[p] \cup {i}
          /\ \A q \in Slot \ {p} : in_flight'[q] = in_flight[q]
      BY Zenon, <1>0, <1>3, <2>2 DEF TypeOK
    <3>2. HeldBy(p)' = HeldBy(p)
      BY Zenon, <1>6, <1>7, <3>1 DEF HeldBy
    <3>3. \A q \in Slot \ {p} : HeldBy(q)' = HeldBy(q)
      <4> TAKE q \in Slot \ {p}
      <4>1. todo'[q] = todo[q] /\ in_flight'[q] = in_flight[q]
        BY Zenon, <1>4, <3>1
      <4>2. QED
        BY Zenon, <4>1 DEF HeldBy, OnTodo
    <3>4. QED
      BY Zenon, <2>2, <3>2, <3>3
  <2>3. QED
    BY Zenon, <2>1, <2>2
<1>9. /\ \A j \in TxnId \ {i} : txn'[j] = txn[j]
      /\ txn[i].oneway => ~Allocated(i)'
      /\ ~txn[i].oneway => txn'[i] = txn[i]
  BY SMTT(30), <1>0, <1>3 DEF TypeOK, Allocated, FreeTxn
<1>10. \A u \in Task : pc[u] = "transact" =>
         cur[u] \in TxnId /\ txn'[cur[u]] = txn[cur[u]]
  <2> SUFFICES ASSUME NEW u \in Task, pc[u] = "transact"
               PROVE  cur[u] \in TxnId /\ txn'[cur[u]] = txn[cur[u]]
    BY Zenon
  <2>1. cur[u] \in TxnId /\ ~txn[cur[u]].oneway
    BY Zenon, <1>0 DEF SenderInv, TypeOK
  <2>2. QED
    BY Zenon, <1>9, <2>1
<1>11. TxnInv'
  <2>1. ListsInv'
    <3> SUFFICES ASSUME NEW q \in Slot, NEW j \in HeldBy(q)'
                 PROVE (in_use[q] /\ txn[j].target = q /\ ~txn[j].done
                        /\ (j \in in_flight[q] => ~txn[j].oneway))'
      BY Zenon DEF ListsInv
    <3>1. j \in HeldBy(q) /\ j \in TxnId
      <4>1. j \in HeldBy(q)
        BY Zenon, <1>8
      <4>2. QED
        BY Zenon, <4>1, HeldFacts
    <3>2. txn'[j] = txn[j]
      <4>1. CASE j # i
        BY Zenon, <1>9, <3>1, <4>1
      <4>2. CASE j = i
        <5>1. q = p
          BY Zenon, <1>6, <3>1, <4>2, HeldFacts
        <5>2. ~txn[i].oneway
          BY Zenon, <1>8, <4>2, <5>1
        <5>3. QED
          BY Zenon, <1>9, <4>2, <5>2
      <4>3. QED
        BY Zenon, <4>1, <4>2
    <3>3. j \in in_flight'[q] => j \in in_flight[q] \/ (j = i /\ ~txn[i].oneway)
      <4>1. CASE txn[i].oneway
        BY Zenon, <1>3, <4>1
      <4>2. CASE ~txn[i].oneway
        <5>1. in_flight'[q] = IF q = p THEN in_flight[q] \cup {i} ELSE in_flight[q]
          BY Zenon, <1>0, <1>3, <4>2 DEF TypeOK
        <5>2. QED
          BY Zenon, <4>2, <5>1
      <4>3. QED
        BY Zenon, <4>1, <4>2
    <3>4. in_use[q] /\ txn[j].target = q /\ ~txn[j].done /\ (j \in in_flight[q] => ~txn[j].oneway)
      BY Zenon, <1>0, <3>1 DEF ListsInv
    <3>5. in_use' = in_use
      BY Zenon, <1>3
    <3>6. QED
      BY Zenon, <3>2, <3>3, <3>4, <3>5
  <2>2. SenderInv'
    <3> SUFFICES ASSUME NEW u \in Task
                 PROVE (IF pc[u] = "transact"
                          THEN /\ cur[u] # None /\ Allocated(cur[u]) /\ ~txn[cur[u]].oneway
                               /\ txn[cur[u]].done \/ cur[u] \in HeldBy(txn[cur[u]].target)
                          ELSE cur[u] = None)'
      BY Zenon DEF SenderInv
    <3>1. CASE pc[u] # "transact"
      BY Zenon, <1>0, <3>1 DEF SenderInv
    <3>2. CASE pc[u] = "transact"
      <4>1. cur[u] \in TxnId /\ cur[u] # None /\ Allocated(cur[u])
            /\ ~txn[cur[u]].oneway /\ txn[cur[u]].target \in Slot
            /\ (txn[cur[u]].done \/ cur[u] \in HeldBy(txn[cur[u]].target))
        BY Zenon, <1>0, <3>2 DEF SenderInv, TypeOK, Txn, Allocated
      <4>2. cur'[u] = cur[u] /\ pc'[u] = "transact" /\ txn'[cur[u]] = txn[cur[u]]
        BY Zenon, <1>10, <3>2
      <4>3. (txn[cur[u]].done \/ cur[u] \in HeldBy(txn[cur[u]].target))'
        BY Zenon, <1>6, <1>8, <4>1, <4>2
      <4>4. QED
        BY Zenon, <4>1, <4>2, <4>3 DEF Allocated
    <3>3. QED
      BY Zenon, <3>1, <3>2
  <2>3. NoLeak'
    <3> SUFFICES ASSUME NEW j \in TxnId, Allocated(j)'
                 PROVE (IF txn[j].oneway THEN j \in HeldBy(txn[j].target)
                        ELSE \E u \in Task : cur[u] = j)'
      BY Zenon DEF NoLeak
    <3>1. Allocated(j) /\ txn'[j] = txn[j] /\ txn[j].target \in Slot
          /\ (txn[j].oneway => j # i)
      BY Zenon, <1>0, <1>9 DEF Allocated, TypeOK, Txn
    <3>2. CASE txn[j].oneway
      <4>1. PICK q \in Slot : q = txn[j].target
        BY Zenon, <3>1
      <4>2. j \in HeldBy(q)
        BY Zenon, <1>0, <3>1, <3>2, <4>1 DEF NoLeak
      <4>3. j \in HeldBy(q)'
        BY Zenon, <1>8, <3>1, <3>2, <4>2
      <4>4. QED
        BY Zenon, <3>1, <3>2, <4>1, <4>3 DEF HeldBy, OnTodo
    <3>3. CASE ~txn[j].oneway
      BY Zenon, <1>0, <3>1, <3>3 DEF NoLeak
    <3>4. QED
      BY Zenon, <3>2, <3>3
  <2>4. OneSender'
    BY Zenon, <1>0 DEF OneSender
  <2>5. FreshIds'
    BY Zenon, <1>0, <1>9 DEF FreshIds, Allocated
  <2>6. FifoDelivery'
    <3>1. \A k, l \in 1 .. Len(todo'[p]) : k < l => todo'[p][k] < todo'[p][l]
      <4> SUFFICES ASSUME NEW k \in 1 .. Len(todo'[p]), NEW l \in 1 .. Len(todo'[p]), k < l
                   PROVE  todo'[p][k] < todo'[p][l]
        BY Zenon
      <4>1. k + 1 \in 1 .. Len(todo[p]) /\ l + 1 \in 1 .. Len(todo[p]) /\ k + 1 < l + 1
        <5>1. Len(todo[p]) \in Nat /\ Len(todo'[p]) = Len(todo[p]) - 1
          BY Zenon, <1>4
        <5>2. QED
          BY Zenon, <5>1, Shifted
      <4>2. QED
        BY Zenon, <1>0, <1>4, <4>1 DEF FifoDelivery
    <3>2. \A j \in in_flight'[p], k \in 1 .. Len(todo'[p]) : j < todo'[p][k]
      <4> SUFFICES ASSUME NEW j \in in_flight'[p], NEW k \in 1 .. Len(todo'[p])
                   PROVE  j < todo'[p][k]
        BY Zenon
      <4>0. todo'[p][k] = todo[p][k + 1]
        BY Zenon, <1>4
      <4>1. k + 1 \in 1 .. Len(todo[p]) /\ 1 \in 1 .. Len(todo[p]) /\ 1 < k + 1
        <5>1. Len(todo[p]) \in Nat /\ Len(todo'[p]) = Len(todo[p]) - 1
          BY Zenon, <1>4
        <5>2. QED
          BY Zenon, <5>1, Shifted
      <4>2. j \in in_flight[p] \/ j = i
        BY SMTT(30), <1>0, <1>3 DEF TypeOK
      <4>3. QED
        BY Zenon, <1>0, <1>4, <4>0, <4>1, <4>2 DEF FifoDelivery
    <3>3. \A q \in Slot \ {p} : todo'[q] = todo[q] /\ in_flight'[q] = in_flight[q]
      BY Zenon, <1>0, <1>3, <1>4 DEF TypeOK
    <3>4. QED
      BY Zenon, <1>0, <3>1, <3>2, <3>3 DEF FifoDelivery
  <2>7. QED
    BY Zenon, <2>1, <2>2, <2>3, <2>4, <2>5, <2>6 DEF TxnInv
<1>12. QED
  BY Zenon, <1>4, <1>5, <1>10, <1>11

(* A call that returns with something takes a transaction, an event or nothing. *)
LEMMA CompleteInv ==
  ASSUME IInv, NEW p \in Slot, NEW call \in ReadCall, Ready(p, call), Complete(p, call),
         UNCHANGED <<cur, in_use, next_txn_id, global_uevent_seq>>,
         \A u \in Task : pc'[u] = "transact" <=> pc[u] = "transact"
  PROVE  /\ todo' \in [Slot -> Seq(TxnId)] /\ in_flight' \in [Slot -> SUBSET TxnId]
         /\ txn' \in [TxnId -> Txn] /\ last_uevent_seq' \in [Slot -> Nat]
         /\ TxnInv'
         /\ \A q \in Slot : todo'[q] # <<>> => todo[q] # <<>>
         /\ \A q \in Slot : UeventPending(q)' => UeventPending(q)
         /\ \A u \in Task : pc[u] = "transact" => txn'[cur[u]] = txn[cur[u]]
<1>0. TypeOK
  BY Zenon DEF IInv
<1>1. CASE UNCHANGED <<todo, in_flight, txn>>
  <2>1. TxnInv'
    BY Zenon, <1>1, WaitersFrame DEF IInv, txnVars
  <2>2. CASE UNCHANGED last_uevent_seq
    BY Zenon, <1>0, <1>1, <2>1, <2>2 DEF TypeOK, UeventPending
  <2>3. CASE UeventPending(p) /\ TakeUevent(p)
    <3>1. NextUevent(p) \in Nat
      BY <1>0 DEF TypeOK, NextUevent
    <3>2. last_uevent_seq' \in [Slot -> Nat]
          /\ \A q \in Slot \ {p} : last_uevent_seq'[q] = last_uevent_seq[q]
      BY Zenon, <1>0, <2>3, <3>1 DEF TypeOK, TakeUevent
    <3>3. QED
      BY Zenon, <1>0, <1>1, <2>1, <2>3, <3>2 DEF TypeOK, UeventPending
  <2>4. QED
    <3>1. CASE call = "select"
      BY Zenon, <2>2, <3>1 DEF Complete
    <3>2. CASE call = "recv"
      BY Zenon, <1>0, <1>1, <2>2, <3>2 DEF Complete
    <3>3. CASE call = "wait_event"
      BY Zenon, <2>2, <2>3, <3>3 DEF Complete
    <3>4. QED
      BY Zenon, <3>1, <3>2, <3>3, ConstantsAssumption
<1>2. CASE todo[p] # <<>> /\ TakeTxn(p) /\ UNCHANGED last_uevent_seq
  BY Zenon, <1>0, <1>2, TakeTxnInv DEF TypeOK, UeventPending
<1>3. QED
  <2>1. CASE call = "select"
    BY Zenon, <1>1, <2>1 DEF Complete
  <2>2. CASE call = "recv"
    BY Zenon, <1>2, <2>2 DEF Complete, Ready
  <2>3. CASE call = "wait_event"
    BY Zenon, <1>1, <1>2, <2>3 DEF Complete, Ready
  <2>4. QED
    BY Zenon, <2>1, <2>2, <2>3, ConstantsAssumption

(* The calls that wait on proc->wait keep the invariant. *)
LEMMA ReadStep ==
  ASSUME IInv, NEW t \in Task,
         (\E call \in ReadCall : ReadNow(t, call) \/ ReadSleep(t, call)) \/ ReadWake(t)
  PROVE  IInv'
<1>0. TypeOK
  BY Zenon DEF IInv
<1>1. PICK call \in ReadCall : ReadNow(t, call) \/ ReadSleep(t, call)
                               \/ (ReadWake(t) /\ call = pc[t])
  BY Zenon DEF ReadWake
<1>2. "user" \notin ReadCall /\ "transact" \notin ReadCall
  BY Zenon, ConstantsAssumption
<1>3. PICK p \in Slot : p = file[t]
  <2>1. file[t] # None
    BY Zenon, <1>1, <1>2 DEF IInv, FilesInv, ReadNow, ReadSleep, ReadWake
  <2>2. QED
    BY Zenon, <1>0, <2>1 DEF TypeOK
<1>4. /\ UNCHANGED <<file, cur, in_use, next_txn_id, svcVars, global_uevent_seq, uevent_ring,
                     usb_online>>
      /\ pc[t] \in ReadCall \cup {"user"} /\ file[t] # None
  <2>1. file[t] # None
    BY <1>3 DEF Slot, None
  <2>2. UNCHANGED readUnchanged /\ pc[t] \in ReadCall \cup {"user"}
    BY Zenon, <1>1 DEF ReadNow, ReadSleep, ReadWake
  <2>3. QED
    BY Zenon, <2>1, <2>2 DEF readUnchanged
<1>5. /\ \E c \in ReadCall \cup {"user"} : pc' = [pc EXCEPT ![t] = c]
      /\ \E r \in {"running", "asleep", "signalled"} : run' = [run EXCEPT ![t] = r]
      /\ run'[t] = "asleep" => pc'[t] = call /\ ~Ready(p, call)
      /\ \/ Ready(p, call) /\ Complete(p, call) /\ run'[t] # "asleep"
         \/ UNCHANGED <<todo, in_flight, txn, last_uevent_seq>>
  <2>1. CASE ReadNow(t, call)
    <3>1. run[t] # "asleep"
      BY Zenon, <1>2, <2>1 DEF IInv, NoLostWakeup, ReadNow
    <3>2. pc' = [pc EXCEPT ![t] = "user"] /\ run' = [run EXCEPT ![t] = run[t]]
          /\ run[t] \in {"running", "asleep", "signalled"}
      BY Zenon, <1>0, <2>1 DEF ReadNow, TypeOK
    <3>3. QED
      BY Zenon, <1>0, <1>3, <2>1, <3>1, <3>2 DEF ReadNow, TypeOK
  <2>2. CASE ReadSleep(t, call)
    BY Zenon, <1>0, <1>3, <2>2 DEF ReadSleep, TypeOK
  <2>3. CASE ReadWake(t) /\ call = pc[t]
    <3>1. pc = [pc EXCEPT ![t] = call]
      BY Zenon, <1>0, <2>3 DEF TypeOK
    <3>2. CASE Ready(p, call)
      BY Zenon, <1>0, <1>3, <2>3, <3>2 DEF ReadWake, TypeOK
    <3>3. CASE ~Ready(p, call)
      BY Zenon, <1>0, <1>3, <2>3, <3>1, <3>3 DEF ReadWake, TypeOK
    <3>4. QED
      BY Zenon, <3>2, <3>3
  <2>4. QED
    BY Zenon, <1>1, <2>1, <2>2, <2>3
<1>6. /\ pc' \in [Task -> {"user", "transact"} \cup ReadCall]
      /\ run' \in [Task -> {"running", "asleep", "signalled"}]
      /\ \A u \in Task \ {t} : pc'[u] = pc[u] /\ run'[u] = run[u]
      /\ pc'[t] \in ReadCall \cup {"user"}
  BY <1>0, <1>5 DEF TypeOK
<1>7. \A u \in Task : pc'[u] = "transact" <=> pc[u] = "transact"
  BY Zenon, <1>2, <1>4, <1>6
<1>8. /\ todo' \in [Slot -> Seq(TxnId)] /\ in_flight' \in [Slot -> SUBSET TxnId]
      /\ txn' \in [TxnId -> Txn] /\ last_uevent_seq' \in [Slot -> Nat]
      /\ TxnInv'
      /\ \A q \in Slot : todo'[q] # <<>> => todo[q] # <<>>
      /\ \A q \in Slot : UeventPending(q)' => UeventPending(q)
      /\ \A u \in Task : pc[u] = "transact" => txn'[cur[u]] = txn[cur[u]]
  <2>1. CASE Ready(p, call) /\ Complete(p, call)
    BY Zenon, <1>4, <1>7, <2>1, CompleteInv
  <2>2. CASE UNCHANGED <<todo, in_flight, txn, last_uevent_seq>>
    <3>1. TxnInv'
      BY Zenon, <1>4, <1>7, <2>2, WaitersFrame DEF IInv, txnVars
    <3>2. QED
      BY Zenon, <1>0, <1>4, <2>2, <3>1 DEF TypeOK, UeventPending
  <2>3. QED
    BY Zenon, <1>5, <2>1, <2>2
<1>9. TypeOK'
  BY Zenon, <1>0, <1>4, <1>6, <1>8 DEF TypeOK, svcVars
<1>10. FilesInv' /\ RegistryInv'
  BY Zenon, <1>4, <1>6, RegistryFrame DEF IInv, FilesInv
<1>11. NoLostWakeup'
  <2> SUFFICES ASSUME NEW u \in Task, run'[u] = "asleep"
               PROVE  (\/ pc[u] = "transact" /\ ~txn[cur[u]].done
                       \/ pc[u] \in ReadCall /\ ~Ready(file[u], pc[u]))'
    BY Zenon DEF NoLostWakeup
  <2>1. CASE u = t
    <3>1. UNCHANGED <<todo, last_uevent_seq>> /\ pc'[t] = call /\ ~Ready(p, call)
      BY Zenon, <1>5, <2>1
    <3>2. QED
      BY Zenon, <1>3, <1>4, <2>1, <3>1 DEF Ready, UeventPending
  <2>2. CASE u # t
    <3>1. run[u] = "asleep" /\ pc'[u] = pc[u]
      BY Zenon, <1>6, <2>2
    <3>2. CASE pc[u] = "transact" /\ ~txn[cur[u]].done
      BY Zenon, <1>4, <1>8, <3>1, <3>2
    <3>3. CASE pc[u] \in ReadCall /\ ~Ready(file[u], pc[u])
      <4>1. file[u] \in Slot
        <5>1. pc[u] # "user"
          BY Zenon, <1>2, <3>3
        <5>2. file[u] # None
          BY Zenon, <5>1 DEF IInv, FilesInv
        <5>3. file[u] \in Slot \cup {None}
          BY Zenon, <1>0 DEF TypeOK
        <5> QED BY Zenon, <5>2, <5>3
      <4>2. todo[file[u]] = <<>> /\ ~(pc[u] = "wait_event" /\ UeventPending(file[u]))
        BY Zenon, <3>3 DEF Ready
      <4>3. todo'[file[u]] = <<>> /\ ~(pc[u] = "wait_event" /\ UeventPending(file[u])')
        BY Zenon, <1>4, <1>8, <4>1, <4>2 DEF UeventPending
      <4>4. QED
        BY Zenon, <1>4, <3>1, <3>3, <4>3 DEF Ready, UeventPending
    <3>4. QED
      BY Zenon, <3>1, <3>2, <3>3 DEF IInv, NoLostWakeup
  <2>3. QED
    BY Zenon, <2>1, <2>2
<1>12. QED
  BY Zenon, <1>8, <1>9, <1>10, <1>11 DEF IInv

(* A signal wakes a reader and changes nothing else. *)
LEMMA SignalStep ==
  ASSUME IInv, NEW t \in Task, Signal(t)
  PROVE  IInv'
<1>1. /\ run' = [run EXCEPT ![t] = "signalled"]
      /\ UNCHANGED <<file, pc, cur, procVars, txnVars, svcVars, ueventVars>>
  BY Zenon DEF Signal
<1>2. TypeOK /\ TypeOK'
  BY Zenon, <1>1 DEF IInv, TypeOK, procVars, txnVars, svcVars, ueventVars
<1>3. FilesInv' /\ TxnInv' /\ RegistryInv'
  BY Zenon, <1>1, FilesFrame, TxnFrame, RegistryFrame DEF IInv, procVars
<1>4. NoLostWakeup'
  BY <1>1, <1>2 DEF IInv, NoLostWakeup, Ready, UeventPending, TypeOK, procVars, txnVars,
                    ueventVars
<1>5. QED
  BY Zenon, <1>2, <1>3, <1>4 DEF IInv

(* The uevent ioctls keep the invariant: an event wakes every reader it concerns. *)
LEMMA UeventStep ==
  ASSUME IInv, NEW t \in Task, Uevent(t)
  PROVE  IInv'
<1>0. TypeOK /\ NoLostWakeup
  BY Zenon DEF IInv
<1>1. UNCHANGED <<file, pc, cur, procVars, txnVars, svcVars>>
  BY Zenon DEF Uevent, UeventPoll, UeventEmit, UeventPrepare, taskVars
<1>2. FilesInv' /\ TxnInv' /\ RegistryInv'
  BY Zenon, <1>1, FilesFrame, TxnFrame, RegistryFrame DEF IInv, procVars
<1>3. CASE UeventPoll(t)
  <2>1. PICK p \in Slot : p = file[t] /\ UeventPending(p) /\ TakeUevent(p)
    BY Zenon, <1>0, <1>3 DEF UeventPoll, TypeOK
  <2>2. NextUevent(p) \in Nat
    BY <1>0 DEF TypeOK, NextUevent
  <2>3. /\ last_uevent_seq' \in [Slot -> Nat]
        /\ \A q \in Slot \ {p} : last_uevent_seq'[q] = last_uevent_seq[q]
        /\ UNCHANGED <<run, global_uevent_seq, uevent_ring, usb_online>>
    BY <1>0, <1>3, <2>1, <2>2 DEF TypeOK, TakeUevent, UeventPoll, taskVars
  <2>4. TypeOK'
    BY Zenon, <1>0, <1>1, <2>3 DEF TypeOK, procVars, txnVars, svcVars
  <2>5. NoLostWakeup'
    <3> SUFFICES ASSUME NEW u \in Task, run[u] = "asleep"
                 PROVE  (\/ pc[u] = "transact" /\ ~txn[cur[u]].done
                         \/ pc[u] \in ReadCall /\ ~Ready(file[u], pc[u]))'
      BY Zenon, <2>3 DEF NoLostWakeup
    <3>1. CASE pc[u] = "transact" /\ ~txn[cur[u]].done
      BY Zenon, <1>1, <3>1 DEF txnVars
    <3>2. CASE pc[u] \in ReadCall /\ ~Ready(file[u], pc[u])
      <4>1. file[u] \in Slot
        BY <1>0, <3>2, ConstantsAssumption DEF IInv, FilesInv, TypeOK
      <4>2. QED
        BY Zenon, <1>1, <2>1, <2>3, <3>2, <4>1 DEF Ready, UeventPending, procVars
    <3>3. QED
      BY Zenon, <1>0, <3>1, <3>2 DEF NoLostWakeup
  <2>6. QED
    BY Zenon, <1>2, <2>4, <2>5 DEF IInv
<1>4. CASE \E action \in {"add", "remove", "change"} : UeventEmit(t, action)
  <2>1. PICK action \in {"add", "remove", "change"} : UeventEmit(t, action)
    BY Zenon, <1>4
  <2>2. /\ run' = [u \in Task |-> IF \E p \in Slot : in_use[p] /\ SleepsOnProc(u, p)
                                    THEN "running" ELSE run[u]]
        /\ global_uevent_seq' = global_uevent_seq + 1
        /\ UNCHANGED last_uevent_seq
    BY Zenon, <2>1 DEF UeventEmit
  <2>3. usb_online' \in BOOLEAN
    <3>1. usb_online \in BOOLEAN
      BY Zenon, <1>0 DEF TypeOK
    <3>2. CASE action = "add"
      BY Zenon, <2>1, <3>2 DEF UeventEmit, SetOnline
    <3>3. CASE action = "remove"
      BY <2>1, <3>3, Zenon DEF UeventEmit
    <3>4. CASE action = "change"
      BY Zenon, <2>1, <3>1, <3>4 DEF UeventEmit
    <3>5. QED
      BY Zenon, <3>2, <3>3, <3>4
  <2>4. uevent_ring' \in [0 .. RingSize - 1 -> [seqnum : Nat, online : BOOLEAN]]
    <3> DEFINE e == [seqnum |-> global_uevent_seq + 1,
                     online |-> action = "add" \/ (action = "change" /\ usb_online)]
    <3>1. e \in [seqnum : Nat, online : BOOLEAN]
      <4>1. global_uevent_seq \in Nat
        BY Zenon, <1>0 DEF TypeOK
      <4>2. global_uevent_seq + 1 \in Nat
        BY <4>1
      <4>3. (action = "add" \/ (action = "change" /\ usb_online)) \in BOOLEAN
        BY Zenon
      <4> QED BY Zenon, <4>2, <4>3
    <3>2. uevent_ring' = [uevent_ring EXCEPT ![(global_uevent_seq + 1) % RingSize] = e]
      BY Zenon, <2>1 DEF UeventEmit
    <3> HIDE DEF e
    <3>3. QED
      BY Zenon, <1>0, <3>1, <3>2 DEF TypeOK
  <2>5. run' \in [Task -> {"running", "asleep", "signalled"}]
    BY Zenon, <1>0, <2>2 DEF TypeOK
  <2>6. TypeOK'
    BY <1>0, <1>1, <2>2, <2>3, <2>4, <2>5 DEF TypeOK, procVars, txnVars, svcVars
  <2>7. NoLostWakeup'
    <3> SUFFICES ASSUME NEW u \in Task, run'[u] = "asleep"
                 PROVE  (\/ pc[u] = "transact" /\ ~txn[cur[u]].done
                         \/ pc[u] \in ReadCall /\ ~Ready(file[u], pc[u]))'
      BY Zenon DEF NoLostWakeup
    <3>1. run[u] = "asleep" /\ ~(\E p \in Slot : in_use[p] /\ SleepsOnProc(u, p))
      BY Zenon, <2>2
    <3>2. pc[u] \notin ReadCall
      <4> SUFFICES ASSUME pc[u] \in ReadCall PROVE FALSE
        BY Zenon
      <4>1. file[u] \in Slot /\ in_use[file[u]]
        <5>1. pc[u] # "user"
          BY Zenon, ConstantsAssumption
        <5>2. file[u] \in Slot
          <6>1. file[u] # None /\ file[u] \in Slot \cup {None}
            BY Zenon, <1>0, <5>1 DEF IInv, FilesInv, TypeOK
          <6> QED BY Zenon, <6>1
        <5> QED BY Zenon, <5>2 DEF IInv, FilesInv
      <4>2. QED
        BY Zenon, <3>1, <4>1 DEF SleepsOnProc
    <3>3. QED
      BY Zenon, <1>0, <1>1, <3>1, <3>2 DEF NoLostWakeup, txnVars
  <2>8. QED
    BY Zenon, <1>2, <2>6, <2>7 DEF IInv
<1>5. CASE UeventPrepare(t)
  <2>1. /\ usb_online' \in BOOLEAN
        /\ UNCHANGED <<run, global_uevent_seq, uevent_ring, last_uevent_seq>>
    BY Zenon, <1>5 DEF UeventPrepare, SetOnline, taskVars
  <2>2. TypeOK'
    BY Zenon, <1>0, <1>1, <2>1 DEF TypeOK, procVars, txnVars, svcVars
  <2>3. NoLostWakeup'
    BY Zenon, <1>0, <1>1, <2>1 DEF NoLostWakeup, Ready, UeventPending, procVars, txnVars
  <2>4. QED
    BY Zenon, <1>2, <2>2, <2>3 DEF IInv
<1>6. QED
  BY Zenon, <1>3, <1>4, <1>5 DEF Uevent

-------------------------------------------------------------------------------
(* The invariant. *)

(* Every step of the driver keeps the invariant. *)
LEMMA NextIInv == IInv /\ [Next]_vars => IInv'
<1> SUFFICES ASSUME IInv, [Next]_vars PROVE IInv'
  BY Zenon
<1>1. CASE UNCHANGED vars
  <2>1. /\ UNCHANGED <<file, pc, run, cur>> /\ UNCHANGED <<in_use, todo, in_flight>>
        /\ UNCHANGED <<txnVars, svcVars>> /\ UNCHANGED ueventVars
    BY Zenon, <1>1 DEF vars, taskVars, procVars
  <2>2. TypeOK'
    BY Zenon, <2>1 DEF IInv, TypeOK, txnVars, svcVars, ueventVars
  <2>3. FilesInv' /\ TxnInv' /\ RegistryInv'
    BY Zenon, <2>1, FilesFrame, TxnFrame, RegistryFrame DEF IInv
  <2>4. NoLostWakeup'
    BY Zenon, <2>1 DEF IInv, NoLostWakeup, Ready, UeventPending, txnVars, ueventVars
  <2>5. QED
    BY Zenon, <2>2, <2>3, <2>4 DEF IInv
<1>2. ASSUME NEW t \in Task, Files(t)
      PROVE  IInv'
  BY Zenon, <1>2, OpenStep, ShareStep, ReleaseStep DEF Files
<1>3. ASSUME NEW t \in Task, Read(t)
      PROVE  IInv'
  BY Zenon, <1>3, ReadStep, SignalStep DEF Read
<1>4. ASSUME NEW t \in Task, Reply(t)
      PROVE  IInv'
  BY Zenon, <1>4, ReplyStep DEF Reply
<1>5. QED
  BY Zenon, <1>1, <1>2, <1>3, <1>4, RegistryStep, TransactStep, TransactWakeStep, UeventStep DEF Next

(* The inductive invariant holds in every reachable state of the driver. *)
THEOREM Invariance == Spec => []IInv
BY InitIInv, NextIInv, PTL DEF Spec

(* Every variable keeps its type. *)
THEOREM TypeCorrect == Spec => []TypeOK
BY Invariance, PTL DEF IInv

(* A binder_proc is in use exactly while a task has it open (binder_open,
   binder_release). *)
THEOREM FilesSafe == Spec => []FilesInv
BY Invariance, PTL DEF IInv

(* No list of the driver reaches a freed transaction or a dead process. *)
THEOREM ListsSafe == Spec => []ListsInv
BY Invariance, PTL DEF IInv, TxnInv

(* A sender in binder_do_transact waits for something that is done or that a
   living target still holds. *)
THEOREM SenderSafe == Spec => []SenderInv
BY Invariance, PTL DEF IInv, TxnInv

(* No transaction is leaked. *)
THEOREM LeakFree == Spec => []NoLeak
BY Invariance, PTL DEF IInv, TxnInv

(* Transactions are delivered once and in the order they were sent. *)
THEOREM Fifo == Spec => []FifoDelivery
BY Invariance, PTL DEF IInv, TxnInv

(* No wake-up is lost, by a sender or by a reader. *)
THEOREM WakeupsKept == Spec => []NoLostWakeup
BY Invariance, PTL DEF IInv

(* The registry leads to living processes only, and names and handles are unique. *)
THEOREM RegistrySafe == Spec => []RegistryInv
BY Invariance, PTL DEF IInv

--------------------------------------------------------------------------------
(* The ring of uevents. *)

(* What div and mod are. *)
LEMMA DivMod ==
  ASSUME NEW R \in Nat \ {0}, NEW a \in Nat
  PROVE  a \div R \in Int /\ a % R \in 0 .. R - 1 /\ a = R * (a \div R) + (a % R)
<1>1. a \div R \in Int
  OBVIOUS
<1>2. a % R \in 0 .. R - 1
  OBVIOUS
<1>3. a = R * (a \div R) + (a % R)
  OBVIOUS
<1> QED BY <1>1, <1>2, <1>3

(* Two numbers that are RingSize apart have the same place in the ring. *)
LEMMA ModOff ==
  ASSUME NEW R \in Nat \ {0}, NEW a \in Nat
  PROVE  (a + R) % R = a % R
<1> DEFINE q == a \div R
<1> DEFINE r == a % R
<1> DEFINE q2 == (a + R) \div R
<1> DEFINE r2 == (a + R) % R
<1>1. q \in Int /\ r \in 0 .. R - 1 /\ a = R * q + r
  BY DivMod
<1>2. q2 \in Int /\ r2 \in 0 .. R - 1 /\ a + R = R * q2 + r2
  <2>1. a + R \in Nat
    OBVIOUS
  <2> QED BY Zenon, <2>1, DivMod
<1>3. r = r2
  <2> HIDE DEF q, r, q2, r2
  <2>1. R * (q2 - q) = R + (r - r2)
    BY <1>1, <1>2
  <2>2. CASE q2 - q <= 0
    <3>1. R * (q2 - q) <= 0
      BY <1>1, <1>2, <2>2
    <3> QED BY <1>1, <1>2, <2>1, <3>1
  <2>3. CASE q2 - q >= 2
    <3>1. R * (q2 - q) >= R + R
      BY <1>1, <1>2, <2>3
    <3> QED BY <1>1, <1>2, <2>1, <3>1
  <2>4. CASE q2 - q = 1
    BY <1>1, <1>2, <2>1, <2>4
  <2> QED BY <1>1, <1>2, <2>2, <2>3, <2>4
<1> QED BY <1>3

(* Two numbers that are less than RingSize apart have different places. *)
LEMMA ModApart ==
  ASSUME NEW R \in Nat \ {0}, NEW a \in Nat, NEW b \in Nat, a < b, b - a < R
  PROVE  a % R # b % R
<1> SUFFICES ASSUME a % R = b % R PROVE FALSE
  OBVIOUS
<1> DEFINE q == a \div R
<1> DEFINE p == b \div R
<1>1. q \in Int /\ a % R \in Int /\ a = R * q + (a % R)
  BY DivMod
<1>0. p \in Int /\ b % R \in Int /\ b = R * p + (b % R)
  BY DivMod
<1> HIDE DEF q, p
<1>2. R * (p - q) = b - a
  BY <1>0, <1>1
<1>3. CASE p - q >= 1
  <2>1. R * (p - q) >= R
    BY <1>0, <1>1, <1>3
  <2> QED BY <2>1, <1>0, <1>1, <1>2
<1>4. CASE p - q <= 0
  <2>1. R * (p - q) <= 0
    BY <1>0, <1>1, <1>4
  <2> QED BY <2>1, <1>0, <1>1, <1>2
<1> QED BY <1>0, <1>1, <1>3, <1>4

(* Every event that is RingSize or more behind the newest has lost its place: what
   LossOnlyOnOverrun needs besides RingInv, which is inductive given the types. *)
Overwritten ==
  \A s \in 1 .. global_uevent_seq :
    global_uevent_seq - s >= RingSize => uevent_ring[s % RingSize].seqnum # s

(* Both hold when no event has been emitted. *)
LEMMA InitRing == Init => RingInv /\ Overwritten
<1> SUFFICES ASSUME Init PROVE RingInv /\ Overwritten
  BY Zenon
<1>1. global_uevent_seq = 0 /\ \A p \in Slot : last_uevent_seq[p] = 0
  BY Zenon DEF Init
<1>2. RingInv
  BY <1>1 DEF RingInv
<1>3. Overwritten
  BY <1>1 DEF Overwritten
<1> QED BY Zenon, <1>2, <1>3

(* The next event of a reader with an event pending: the one after the last it
   saw, or the newest when the ring has overwritten that one. *)
LEMMA NextUeventFacts ==
  ASSUME TypeOK, Overwritten, NEW p \in Slot, UeventPending(p)
  PROVE  /\ NextUevent(p) <= global_uevent_seq
         /\ \/ NextUevent(p) = last_uevent_seq[p] + 1
            \/ /\ NextUevent(p) = global_uevent_seq
               /\ uevent_ring[(last_uevent_seq[p] + 1) % RingSize].seqnum
                    # last_uevent_seq[p] + 1
<1>1. /\ last_uevent_seq[p] \in Nat /\ global_uevent_seq \in Nat
      /\ last_uevent_seq[p] < global_uevent_seq
      /\ RingSize \in Nat \ {0}
  BY Zenon, ConstantsAssumption DEF TypeOK, UeventPending
<1>2. CASE global_uevent_seq - (last_uevent_seq[p] + 1) >= RingSize
  <2>1. NextUevent(p) = global_uevent_seq
    BY Zenon, <1>2 DEF NextUevent
  <2>2. last_uevent_seq[p] + 1 \in 1 .. global_uevent_seq
    BY <1>1
  <2>3. uevent_ring[(last_uevent_seq[p] + 1) % RingSize].seqnum # last_uevent_seq[p] + 1
    BY Zenon, <1>2, <2>2 DEF Overwritten
  <2>4. global_uevent_seq <= global_uevent_seq
    BY <1>1
  <2> QED BY Zenon, <2>1, <2>3, <2>4
<1>3. CASE ~(global_uevent_seq - (last_uevent_seq[p] + 1) >= RingSize)
  <2>1. NextUevent(p) = last_uevent_seq[p] + 1
    BY Zenon, <1>3 DEF NextUevent
  <2> QED BY <1>1, <2>1
<1> QED BY Zenon, <1>2, <1>3

(* A step that leaves the ring alone moves at most one reader, to its next event or,
   in binder_open, to the newest. *)
RingKept ==
  /\ UNCHANGED <<global_uevent_seq, uevent_ring>>
  /\ \/ UNCHANGED last_uevent_seq
     \/ \E p \in Slot : UeventPending(p) /\ TakeUevent(p)
     \/ \E p \in Slot :
          /\ ~in_use[p]
          /\ last_uevent_seq' = [last_uevent_seq EXCEPT ![p] = global_uevent_seq]

(* Every step keeps the ring, except the emission of an event. *)
LEMMA RingSteps ==
  ASSUME IInv, NEW t \in Task,
         Files(t) \/ Registry(t) \/ Transact(t) \/ TransactWake(t) \/ Read(t) \/ Reply(t)
           \/ UeventPoll(t) \/ UeventPrepare(t)
  PROVE  RingKept
<1>1. CASE BinderOpen(t)
  <2>1. PICK p \in Slot :
          /\ First(p, FreeSlots)
          /\ last_uevent_seq' = [last_uevent_seq EXCEPT ![p] = global_uevent_seq]
    BY Zenon, <1>1 DEF BinderOpen
  <2>2. ~in_use[p]
    BY Zenon, <2>1 DEF First, FreeSlots
  <2> QED BY Zenon, <1>1, <2>1, <2>2 DEF BinderOpen, RingKept
<1>2. ASSUME NEW p \in Slot, NEW call \in ReadCall, Ready(p, call), Complete(p, call)
      PROVE  \/ UNCHANGED last_uevent_seq
             \/ UeventPending(p) /\ TakeUevent(p)
  <2>1. call \in {"select", "recv", "wait_event"}
    BY Zenon, ConstantsAssumption
  <2>2. CASE call = "select"
    BY Zenon, <1>2, <2>2 DEF Complete
  <2>3. CASE call = "recv"
    BY Zenon, <1>2, <2>3 DEF Complete
  <2>4. CASE call = "wait_event"
    BY Zenon, <1>2, <2>4 DEF Complete
  <2> QED BY Zenon, <2>1, <2>2, <2>3, <2>4
<1>3. CASE Read(t)
  <2>1. file[t] \in Slot \cup {None} /\ (pc[t] # "user" => file[t] # None)
    BY Zenon DEF IInv, TypeOK, FilesInv
  <2>2. CASE \E call \in ReadCall : ReadNow(t, call)
    BY Zenon, <1>2, <2>1, <2>2 DEF ReadNow, RingKept, readUnchanged
  <2>3. CASE \E call \in ReadCall : ReadSleep(t, call)
    BY Zenon, <2>3 DEF ReadSleep, RingKept, readUnchanged
  <2>4. CASE ReadWake(t)
    <3>1. UNCHANGED <<global_uevent_seq, uevent_ring>> /\ pc[t] \in ReadCall
      BY Zenon, <2>4 DEF ReadWake, readUnchanged
    <3>2. pc[t] # "user"
      BY <3>1, ConstantsAssumption
    <3>3. CASE Ready(file[t], pc[t])
      BY Zenon, <1>2, <2>1, <2>4, <3>1, <3>2, <3>3 DEF ReadWake, RingKept
    <3>4. CASE ~Ready(file[t], pc[t])
      BY Zenon, <2>4, <3>1, <3>4 DEF ReadWake, RingKept
    <3> QED BY Zenon, <3>3, <3>4
  <2>5. CASE Signal(t)
    BY Zenon, <2>5 DEF Signal, RingKept, ueventVars
  <2> QED BY Zenon, <1>3, <2>2, <2>3, <2>4, <2>5 DEF Read
<1>4. CASE UeventPoll(t)
  <2>1. file[t] \in Slot
    BY Zenon, <1>4 DEF UeventPoll, IInv, TypeOK
  <2> QED BY Zenon, <1>4, <2>1 DEF UeventPoll, RingKept
<1>5. CASE UeventPrepare(t)
  BY Zenon, <1>5 DEF UeventPrepare, RingKept
<1>6. CASE (\E u \in Task : Share(t, u)) \/ CloseShared(t) \/ BinderRelease(t)
  <2>1. UNCHANGED ueventVars
    BY Zenon, <1>6 DEF Share, CloseShared, BinderRelease
  <2> QED BY Zenon, <2>1 DEF RingKept, ueventVars
<1>7. CASE Registry(t) \/ Transact(t)
  <2>1. UNCHANGED ueventVars
    BY Zenon, <1>7 DEF Registry, SetContextMgr, RegisterSvc, Transact, TransactManager,
                       AddService, TransactService
  <2> QED BY Zenon, <2>1 DEF RingKept, ueventVars
<1>8. CASE TransactWake(t) \/ Reply(t)
  <2>1. UNCHANGED ueventVars
    BY Zenon, <1>8 DEF TransactWake, Reply, DoReply
  <2> QED BY Zenon, <2>1 DEF RingKept, ueventVars
<1> QED BY Zenon, <1>1, <1>3, <1>4, <1>5, <1>6, <1>7, <1>8 DEF Files

(* No reader gets ahead of the newest event by a step that keeps the ring. *)
LEMMA RingKeptInv ==
  ASSUME TypeOK, RingInv, Overwritten, RingKept
  PROVE  RingInv' /\ Overwritten'
<1>1. UNCHANGED <<global_uevent_seq, uevent_ring>>
  BY Zenon DEF RingKept
<1>2. ASSUME NEW q \in Slot
      PROVE  last_uevent_seq'[q] <= global_uevent_seq
  <2>0. /\ last_uevent_seq[q] <= global_uevent_seq /\ global_uevent_seq \in Nat
        /\ last_uevent_seq \in [Slot -> Nat]
    BY Zenon DEF RingInv, TypeOK
  <2>1. CASE UNCHANGED last_uevent_seq
    BY Zenon, <2>0, <2>1
  <2>2. ASSUME NEW p \in Slot, UeventPending(p), TakeUevent(p)
        PROVE  last_uevent_seq'[q] <= global_uevent_seq
    <3>1. last_uevent_seq'[q] = IF q = p THEN NextUevent(p) ELSE last_uevent_seq[q]
      BY Zenon, <2>0, <2>2 DEF TakeUevent
    <3>2. NextUevent(p) <= global_uevent_seq
      BY Zenon, <2>2, NextUeventFacts
    <3> QED BY Zenon, <2>0, <3>1, <3>2
  <2>3. ASSUME NEW p \in Slot,
               last_uevent_seq' = [last_uevent_seq EXCEPT ![p] = global_uevent_seq]
        PROVE  last_uevent_seq'[q] <= global_uevent_seq
    <3>1. last_uevent_seq'[q] = IF q = p THEN global_uevent_seq ELSE last_uevent_seq[q]
      BY Zenon, <2>0, <2>3
    <3> QED BY <2>0, <3>1
  <2> QED BY Zenon, <2>1, <2>2, <2>3 DEF RingKept
<1> QED BY Zenon, <1>1, <1>2 DEF RingInv, Overwritten

(* The emission of an event overwrites the one RingSize events before it. *)
LEMMA EmitInv ==
  ASSUME TypeOK, RingInv, Overwritten, NEW t, NEW action, UeventEmit(t, action)
  PROVE  RingInv' /\ Overwritten'
<1> DEFINE g == global_uevent_seq
<1>1. /\ g \in Nat /\ RingSize \in Nat \ {0} /\ g + 1 \in Nat
      /\ uevent_ring \in [0 .. RingSize - 1 -> [seqnum : Nat, online : BOOLEAN]]
      /\ last_uevent_seq \in [Slot -> Nat]
  <2>1. g \in Nat
    BY Zenon DEF TypeOK
  <2> QED BY <2>1, ConstantsAssumption DEF TypeOK
<1>2. g' = g + 1 /\ UNCHANGED last_uevent_seq
  BY Zenon DEF UeventEmit
<1>3. PICK online : uevent_ring' = [uevent_ring EXCEPT ![(g + 1) % RingSize] =
                                      [seqnum |-> g + 1, online |-> online]]
  BY Zenon DEF UeventEmit
<1>4. ASSUME NEW s \in Nat
      PROVE  uevent_ring'[s % RingSize].seqnum =
               IF s % RingSize = (g + 1) % RingSize THEN g + 1
               ELSE uevent_ring[s % RingSize].seqnum
  <2>1. s % RingSize \in DOMAIN uevent_ring
    BY <1>1, <1>4, DivMod
  <2> QED BY Zenon, <1>3, <2>1
<1> HIDE DEF g
<1>5. RingInv'
  <2>1. ASSUME NEW s \in 1 .. g + 1, (g + 1) - s < RingSize
        PROVE  uevent_ring'[s % RingSize].seqnum = s
    <3>0. s \in Nat
      BY <1>1, <2>1
    <3>1. CASE s = g + 1
      BY Zenon, <1>4, <3>0, <3>1
    <3>2. CASE s # g + 1
      <4>1. s < g + 1 /\ s \in 1 .. g /\ g - s < RingSize
        BY <1>1, <2>1, <3>2
      <4>2. s % RingSize # (g + 1) % RingSize
        BY Zenon, <1>1, <2>1, <3>0, <4>1, ModApart
      <4>3. uevent_ring[s % RingSize].seqnum = s
        BY Zenon, <4>1 DEF RingInv, g
      <4> QED BY Zenon, <1>4, <3>0, <4>2, <4>3
    <3> QED BY Zenon, <3>1, <3>2
  <2>2. \A p \in Slot : last_uevent_seq[p] <= g + 1
    <3> TAKE p \in Slot
    <3>1. last_uevent_seq[p] \in Nat /\ last_uevent_seq[p] <= g
      BY Zenon, <1>1 DEF RingInv, g
    <3> QED BY <1>1, <3>1
  <2> QED BY Zenon, <1>2, <2>1, <2>2 DEF RingInv, g
<1>6. Overwritten'
  <2>1. ASSUME NEW s \in 1 .. g + 1, (g + 1) - s >= RingSize
        PROVE  uevent_ring'[s % RingSize].seqnum # s
    <3>0. s \in Nat /\ s # g + 1
      BY <1>1, <2>1
    <3>1. CASE s % RingSize = (g + 1) % RingSize
      BY Zenon, <1>4, <3>0, <3>1
    <3>2. CASE s % RingSize # (g + 1) % RingSize
      <4>1. s + RingSize # g + 1
        BY Zenon, <1>1, <3>0, <3>2, ModOff
      <4>2. s \in 1 .. g /\ g - s >= RingSize
        BY <1>1, <2>1, <4>1
      <4>3. uevent_ring[s % RingSize].seqnum # s
        BY Zenon, <4>2 DEF Overwritten, g
      <4> QED BY Zenon, <1>4, <3>0, <3>2, <4>3
    <3> QED BY Zenon, <3>1, <3>2
  <2> QED BY Zenon, <1>2, <2>1 DEF Overwritten, g
<1> QED BY Zenon, <1>5, <1>6

(* Every step keeps the ring in order. *)
LEMMA NextRing == IInv /\ RingInv /\ Overwritten /\ [Next]_vars => RingInv' /\ Overwritten'
<1> SUFFICES ASSUME IInv, RingInv, Overwritten, [Next]_vars
             PROVE  RingInv' /\ Overwritten'
  BY Zenon
<1>0. TypeOK
  BY Zenon DEF IInv
<1>1. CASE UNCHANGED vars
  <2>1. RingKept
    BY Zenon, <1>1 DEF vars, ueventVars, RingKept
  <2> QED BY Zenon, <1>0, <2>1, RingKeptInv
<1>2. ASSUME NEW t \in Task, NEW action, UeventEmit(t, action)
      PROVE  RingInv' /\ Overwritten'
  BY Zenon, <1>0, <1>2, EmitInv
<1>3. ASSUME RingKept
      PROVE  RingInv' /\ Overwritten'
  BY Zenon, <1>0, <1>3, RingKeptInv
<1> QED BY Zenon, <1>1, <1>2, <1>3, RingSteps DEF Next, Uevent

(* Each of the last RingSize uevents is in its place of the ring, and no reader is
   ahead of the newest (binder_uevent_emit, binder_uevent_poll). *)
THEOREM RingSafe == Spec => []RingInv
<1>1. Init => RingInv /\ Overwritten
  BY InitRing
<1>2. IInv /\ RingInv /\ Overwritten /\ [Next]_vars => RingInv' /\ Overwritten'
  BY NextRing
<1> QED BY <1>1, <1>2, Invariance, PTL DEF Spec

(* A reader misses events only when the ring has overwritten the next one for it. *)
THEOREM LossExplained == Spec => LossOnlyOnOverrun
<1> DEFINE Moved(p) ==
      last_uevent_seq'[p] # last_uevent_seq[p] /\ in_use[p] =>
        \/ last_uevent_seq'[p] = last_uevent_seq[p] + 1
        \/ /\ last_uevent_seq'[p] = global_uevent_seq
           /\ uevent_ring[(last_uevent_seq[p] + 1) % RingSize].seqnum
                # last_uevent_seq[p] + 1
<1>1. ASSUME TypeOK, Overwritten, RingKept, NEW p \in Slot
      PROVE  Moved(p)
  <2>0. last_uevent_seq \in [Slot -> Nat]
    BY Zenon, <1>1 DEF TypeOK
  <2>1. CASE UNCHANGED last_uevent_seq
    BY Zenon, <2>1
  <2>2. ASSUME NEW q \in Slot, UeventPending(q), TakeUevent(q)
        PROVE  Moved(p)
    <3>1. last_uevent_seq'[p] = IF p = q THEN NextUevent(q) ELSE last_uevent_seq[p]
      BY Zenon, <2>0, <2>2 DEF TakeUevent
    <3> QED BY Zenon, <1>1, <2>2, <3>1, NextUeventFacts
  <2>3. ASSUME NEW q \in Slot, ~in_use[q],
               last_uevent_seq' = [last_uevent_seq EXCEPT ![q] = global_uevent_seq]
        PROVE  Moved(p)
    BY Zenon, <2>0, <2>3
  <2> QED BY Zenon, <1>1, <2>1, <2>2, <2>3 DEF RingKept
<1>2. IInv /\ Overwritten /\ [Next]_vars => [\A p \in Slot : Moved(p)]_vars
  <2> SUFFICES ASSUME IInv, Overwritten, Next PROVE \A p \in Slot : Moved(p)
    BY Zenon
  <2>0. TypeOK
    BY Zenon DEF IInv
  <2>1. ASSUME NEW t \in Task, NEW action, UeventEmit(t, action)
        PROVE  \A p \in Slot : Moved(p)
    BY Zenon, <2>1 DEF UeventEmit
  <2>2. ASSUME RingKept
        PROVE  \A p \in Slot : Moved(p)
    BY Zenon, <1>1, <2>0, <2>2
  <2> QED BY Zenon, <2>1, <2>2, RingSteps DEF Next, Uevent
<1>3. Init => RingInv /\ Overwritten
  BY InitRing
<1>4. IInv /\ RingInv /\ Overwritten /\ [Next]_vars => RingInv' /\ Overwritten'
  BY NextRing
<1> QED BY <1>2, <1>3, <1>4, Invariance, PTL DEF Spec, LossOnlyOnOverrun

--------------------------------------------------------------------------------
(* A task whose position and awaited transaction are unchanged is in the same
   abstract call. *)
LEMMA CallFrame ==
  ASSUME NEW u \in Task, pc'[u] = "transact" <=> pc[u] = "transact",
         pc[u] = "transact" => cur'[u] = cur[u] /\ txn'[cur[u]] = txn[cur[u]]
  PROVE  CallOf(u)' = CallOf(u)
BY Zenon DEF CallOf

(* A step after which every task is in the same call, in the same processes, is
   a stuttering step. *)
LEMMA Stutter ==
  ASSUME UNCHANGED in_use, \A u \in Task : CallOf(u)' = CallOf(u)
  PROVE  UNCHANGED Rpc!rpcVars
BY Zenon DEF Rpc!rpcVars

(* No process is alive and no call is made when the driver starts. *)
LEMMA RefineInit == Init => Rpc!RpcInit
BY Zenon DEF Init, Rpc!RpcInit, Rpc!Idle, CallOf

(* binder_open makes a process appear. *)
LEMMA RefineOpen ==
  ASSUME IInv, NEW t \in Task, BinderOpen(t)
  PROVE  Rpc!RpcNext
<1>1. PICK p \in Slot : ~in_use[p] /\ in_use' = [in_use EXCEPT ![p] = TRUE]
  BY Zenon DEF BinderOpen, First, FreeSlots
<1>2. \A u \in Task : CallOf(u)' = CallOf(u)
  BY Zenon, CallFrame DEF BinderOpen, txnVars
<1>3. Rpc!Appear(p)
  BY Zenon, <1>1, <1>2 DEF Rpc!Appear
<1>4. QED
  BY Zenon, <1>3 DEF Rpc!RpcNext

(* binder_release breaks the calls pending at the process and no others. *)
LEMMA RefineRelease ==
  ASSUME IInv, NEW t \in Task, BinderRelease(t)
  PROVE  Rpc!RpcNext
<1>0. TypeOK /\ ListsInv /\ SenderInv
  BY Zenon DEF IInv, TxnInv
<1>1. PICK p \in Slot : p = file[t]
  BY Zenon, <1>0 DEF BinderRelease, TypeOK
<1>2. /\ in_use[p] /\ in_use' = [in_use EXCEPT ![p] = FALSE]
      /\ UNCHANGED <<pc, cur>>
  BY Zenon, <1>1 DEF BinderRelease, IInv, FilesInv
<1>3. txn' = [i \in TxnId |->
                IF i \notin HeldBy(p) THEN txn[i]
                ELSE IF txn[i].oneway THEN FreeTxn
                ELSE Finished(txn[i], "EPIPE")]
  BY Zenon, <1>1 DEF BinderRelease
<1>4. ASSUME NEW u \in Task
      PROVE  CallOf(u)' = IF CallOf(u).state = "pending" /\ CallOf(u).to = p
                            THEN [CallOf(u) EXCEPT !.state = "broken"] ELSE CallOf(u)
  <2>1. CASE pc[u] # "transact"
    BY Zenon, <1>2, <2>1 DEF CallOf
  <2>2. CASE pc[u] = "transact"
    <3>1. cur[u] \in TxnId /\ ~txn[cur[u]].oneway
          /\ (txn[cur[u]].done \/ cur[u] \in HeldBy(txn[cur[u]].target))
      BY Zenon, <1>0, <2>2 DEF SenderInv, TypeOK
    <3>2. CASE cur[u] \in HeldBy(p)
      <4>1. ~txn[cur[u]].done /\ txn[cur[u]].target = p
        BY Zenon, <3>2, HeldFacts
      <4>2. CallOf(u) = [state |-> "pending", to |-> p]
        BY Zenon, <2>2, <4>1 DEF CallOf
      <4>3. /\ txn'[cur[u]].done /\ txn'[cur[u]].status = "EPIPE"
            /\ txn'[cur[u]].target = p
        BY Zenon, <1>3, <3>1, <3>2, <4>1 DEF Finished
      <4>4. CallOf(u)' = [state |-> "broken", to |-> p]
        BY Zenon, <1>2, <2>2, <4>3 DEF CallOf
      <4>5. QED
        BY <4>2, <4>4
    <3>3. CASE cur[u] \notin HeldBy(p)
      <4>1. txn'[cur[u]] = txn[cur[u]]
        BY Zenon, <1>3, <3>1, <3>3
      <4>2. CallOf(u)' = CallOf(u)
        BY Zenon, <1>2, <4>1, CallFrame
      <4>3. txn[cur[u]].done \/ txn[cur[u]].target # p
        BY Zenon, <3>1, <3>3
      <4>4. ~(CallOf(u).state = "pending" /\ CallOf(u).to = p)
        BY Zenon, <2>2, <4>3 DEF CallOf
      <4>5. QED
        BY Zenon, <4>2, <4>4
    <3>4. QED
      BY Zenon, <3>2, <3>3
  <2>3. QED
    BY Zenon, <2>1, <2>2
<1>5. Rpc!Die(p)
  BY Zenon, <1>2, <1>4 DEF Rpc!Die
<1>6. QED
  BY Zenon, <1>5 DEF Rpc!RpcNext

(* A synchronous transaction starts a call; a one-way one is invisible. *)
LEMMA RefineTransact ==
  ASSUME IInv, NEW t \in Task, Transact(t)
  PROVE  Rpc!RpcNext \/ UNCHANGED Rpc!rpcVars
<1>0. TypeOK /\ SenderInv /\ FreshIds
  BY Zenon DEF IInv, TxnInv
<1>1. PICK oneway \in BOOLEAN, p \in Slot : in_use[p] /\ Enqueue(t, p, oneway)
  <2>1. PICK oneway \in BOOLEAN :
          \/ TransactManager(t, oneway)
          \/ \E n \in Name : AddService(t, n, oneway)
          \/ \E h \in 1 .. MaxHandles : TransactService(t, h, oneway)
    BY Zenon DEF Transact
  <2>2. CASE TransactManager(t, oneway) \/ \E n \in Name : AddService(t, n, oneway)
    BY Zenon, <1>0, <2>2 DEF TransactManager, AddService, Callable, TypeOK
  <2>3. CASE \E h \in 1 .. MaxHandles : TransactService(t, h, oneway)
    BY Zenon, <1>0, <2>3 DEF TransactService, FindByHandle, Callable, TypeOK, Svc
  <2>4. QED
    BY Zenon, <2>1, <2>2, <2>3
<1>2. PICK n \in TxnId : n = next_txn_id
  BY Zenon, <1>0, <1>1, FreshId
<1>3. /\ txn' = [txn EXCEPT ![n] = NewTxn(p, oneway)]
      /\ pc' = [pc EXCEPT ![t] = IF oneway THEN "user" ELSE "transact"]
      /\ cur' = [cur EXCEPT ![t] = IF oneway THEN None ELSE n]
      /\ UNCHANGED in_use
      /\ pc[t] = "user"
  BY Zenon, <1>1, <1>2 DEF Enqueue, Transact, TransactManager, AddService, TransactService
<1>4. \A u \in Task \ {t} : CallOf(u)' = CallOf(u)
  <2> SUFFICES ASSUME NEW u \in Task \ {t} PROVE CallOf(u)' = CallOf(u)
    BY Zenon
  <2>1. pc'[u] = pc[u] /\ cur'[u] = cur[u]
    BY Zenon, <1>0, <1>3 DEF TypeOK
  <2>2. pc[u] = "transact" => cur[u] \in TxnId /\ cur[u] # n
    <3>1. ~Allocated(n)
      <4>1. n >= next_txn_id
        BY <1>2, NumberFacts
      <4> QED BY Zenon, <1>0, <4>1 DEF FreshIds
    <3> QED BY Zenon, <1>0, <3>1 DEF SenderInv, TypeOK
  <2>3. pc[u] = "transact" => txn'[cur[u]] = txn[cur[u]]
    BY Zenon, <1>0, <1>3, <2>2 DEF TypeOK
  <2>4. QED
    BY Zenon, <2>1, <2>3, CallFrame
<1>5. CallOf(t) = Rpc!Idle
  BY Zenon, <1>3 DEF CallOf, Rpc!Idle
<1>6. CASE oneway
  <2>1. pc'[t] = "user"
    BY Zenon, <1>0, <1>3, <1>6 DEF TypeOK
  <2>2. CallOf(t)' = CallOf(t)
    BY Zenon, <1>3, <2>1 DEF CallOf
  <2>3. QED
    BY Zenon, <1>3, <1>4, <2>2, Stutter
<1>7. CASE ~oneway
  <2>1. pc'[t] = "transact" /\ cur'[t] = n /\ ~txn'[n].done /\ txn'[n].target = p
    BY Zenon, <1>0, <1>3, <1>7 DEF TypeOK, NewTxn
  <2>2. CallOf(t)' = [state |-> "pending", to |-> p]
    BY Zenon, <2>1 DEF CallOf
  <2>3. Rpc!Call(t, p)
    BY Zenon, <1>1, <1>3, <1>4, <1>5, <2>2 DEF Rpc!Call
  <2>4. QED
    BY Zenon, <2>3 DEF Rpc!RpcNext
<1>8. QED
  BY Zenon, <1>6, <1>7

(* A sender returns only from a call that was answered or broken. *)
LEMMA RefineTransactWake ==
  ASSUME IInv, NEW t \in Task, TransactWake(t)
  PROVE  Rpc!RpcNext \/ UNCHANGED Rpc!rpcVars
<1>0. TypeOK /\ SenderInv /\ OneSender
  BY Zenon DEF IInv, TxnInv
<1>1. PICK i \in TxnId : i = cur[t]
  BY Zenon, <1>0 DEF TransactWake, SenderInv, TypeOK
<1>2. PICK p \in Slot : p = txn[i].target
  BY Zenon, <1>0, <1>1 DEF TransactWake, SenderInv, TypeOK, Txn, Allocated
<1>3. pc[t] = "transact" /\ (txn[i].done \/ i \in HeldBy(p)) /\ i # None
      /\ UNCHANGED in_use
  BY Zenon, <1>0, <1>1, <1>2 DEF TransactWake, SenderInv
<1>4. CASE ~txn[i].done
  <2>1. UNCHANGED <<pc, cur, txn>>
    BY Zenon, <1>1, <1>2, <1>3, <1>4, HeldFacts DEF TransactWake
  <2>2. QED
    BY Zenon, <1>3, <2>1, CallFrame, Stutter
<1>5. CASE txn[i].done
  <2>1. /\ pc' = [pc EXCEPT ![t] = "user"]
        /\ cur' = [cur EXCEPT ![t] = None]
        /\ txn' = [txn EXCEPT ![i] = FreeTxn]
    BY Zenon, <1>1, <1>2, <1>5 DEF TransactWake
  <2>2. \A u \in Task \ {t} : CallOf(u)' = CallOf(u)
    <3> SUFFICES ASSUME NEW u \in Task \ {t} PROVE CallOf(u)' = CallOf(u)
      BY Zenon
    <3>1. pc'[u] = pc[u] /\ cur'[u] = cur[u] /\ cur[u] # i
      BY Zenon, <1>0, <1>1, <1>3, <2>1 DEF TypeOK, OneSender
    <3>2. pc[u] = "transact" => txn'[cur[u]] = txn[cur[u]]
      BY Zenon, <1>0, <2>1, <3>1 DEF TypeOK, SenderInv
    <3>3. QED
      BY Zenon, <3>1, <3>2, CallFrame
  <2>3. CallOf(t)' = Rpc!Idle
    BY Zenon, <1>0, <2>1 DEF TypeOK, CallOf, Rpc!Idle
  <2>4. CallOf(t).state \in {"answered", "broken"}
    BY Zenon, <1>1, <1>3, <1>5 DEF CallOf
  <2>5. Rpc!Return(t)
    BY Zenon, <1>3, <2>2, <2>3, <2>4 DEF Rpc!Return
  <2>6. QED
    BY Zenon, <2>5 DEF Rpc!RpcNext
<1>6. QED
  BY Zenon, <1>4, <1>5

(* binder_do_reply answers the one call that waits for the transaction. *)
LEMMA RefineReply ==
  ASSUME IInv, NEW t \in Task, NEW i \in TxnId, DoReply(t, i)
  PROVE  Rpc!RpcNext
<1>0. TypeOK /\ ListsInv /\ SenderInv /\ OneSender /\ NoLeak
  BY Zenon DEF IInv, TxnInv
<1>1. PICK p \in Slot : p = file[t]
  BY Zenon, <1>0 DEF DoReply, TypeOK
<1>2. /\ i \in HeldBy(p) /\ ~txn[i].oneway /\ i # None
      /\ txn' = [txn EXCEPT ![i] = Finished(@, "replied")]
      /\ UNCHANGED <<pc, cur, in_use>>
  <2>1. i \in in_flight[p] /\ txn' = [txn EXCEPT ![i] = Finished(@, "replied")]
        /\ UNCHANGED <<pc, cur, in_use>>
    BY Zenon, <1>1 DEF DoReply
  <2>2. i \in HeldBy(p) /\ i # None
    BY Zenon, <2>1, NumberFacts DEF HeldBy
  <2> QED BY Zenon, <1>0, <2>1, <2>2 DEF ListsInv
<1>3. in_use[p] /\ txn[i].target = p /\ Allocated(i) /\ ~txn[i].done
  BY Zenon, <1>2, HeldFacts
<1>4. PICK u \in Task : cur[u] = i
  BY Zenon, <1>0, <1>2, <1>3 DEF NoLeak
<1>5. pc[u] = "transact"
  BY Zenon, <1>0, <1>2, <1>4 DEF SenderInv
<1>6. CallOf(u) = [state |-> "pending", to |-> p]
  BY Zenon, <1>3, <1>4, <1>5 DEF CallOf
<1>7. CallOf(u)' = [state |-> "answered", to |-> p]
  <2>1. txn'[i] = Finished(txn[i], "replied")
    BY Zenon, <1>0, <1>2 DEF TypeOK
  <2>2. QED
    BY <1>2, <1>3, <1>4, <1>5, <2>1 DEF CallOf, Finished
<1>8. \A v \in Task \ {u} : CallOf(v)' = CallOf(v)
  <2> SUFFICES ASSUME NEW v \in Task \ {u} PROVE CallOf(v)' = CallOf(v)
    BY Zenon
  <2>1. cur[v] # i
    BY Zenon, <1>0, <1>2, <1>4 DEF OneSender
  <2>2. pc[v] = "transact" => txn'[cur[v]] = txn[cur[v]]
    BY Zenon, <1>0, <1>2, <2>1 DEF TypeOK, SenderInv
  <2>3. QED
    BY Zenon, <1>2, <2>2, CallFrame
<1>9. Rpc!Answer(u)
  <2> DEFINE c == [v \in Task |-> CallOf(v)]
             d == [v \in Task |-> CallOf(v)']
  <2>1. c[u].state = "pending" /\ c[u].to = p
    BY <1>6
  <2>2. d = [c EXCEPT ![u] = [state |-> "answered", to |-> p]]
    BY Zenon, <1>7, <1>8
  <2>3. d = [c EXCEPT ![u] = [state |-> "answered", to |-> c[u].to]]
    BY Zenon, <2>1, <2>2
  <2>4. in_use[c[u].to]
    BY Zenon, <1>3, <2>1
  <2>5. QED
    BY Zenon, <1>2, <2>1, <2>3, <2>4 DEF Rpc!Answer
<1>10. QED
  BY Zenon, <1>9 DEF Rpc!RpcNext

(* The calls that wait on proc->wait take the head of todo, or leave the
   transactions alone. *)
LEMMA ReadTakes ==
  ASSUME IInv, NEW t \in Task, Read(t)
  PROVE  txn' = txn \/ \E p \in Slot : todo[p] # <<>> /\ TakeTxn(p)
<1>0. TypeOK /\ "user" \notin ReadCall
  BY Zenon, ConstantsAssumption DEF IInv
<1>1. CASE \E call \in ReadCall : ReadSleep(t, call)
  BY Zenon, <1>1 DEF ReadSleep
<1>2. CASE Signal(t)
  BY Zenon, <1>2 DEF Signal, txnVars
<1>3. ASSUME NEW p \in Slot, NEW call \in ReadCall, Ready(p, call), Complete(p, call)
      PROVE  txn' = txn \/ (todo[p] # <<>> /\ TakeTxn(p))
  <2>1. CASE call = "select"
    BY Zenon, <1>3, <2>1 DEF Complete
  <2>2. CASE call = "recv"
    BY Zenon, <1>3, <2>2 DEF Complete, Ready
  <2>3. CASE call = "wait_event"
    BY Zenon, <1>3, <2>3 DEF Complete, Ready
  <2>4. QED
    BY Zenon, <2>1, <2>2, <2>3, ConstantsAssumption
<1>4. CASE \E call \in ReadCall : ReadNow(t, call)
  BY Zenon, <1>0, <1>3, <1>4 DEF ReadNow, TypeOK
<1>5. CASE ReadWake(t)
  <2>1. file[t] \in Slot
    <3>1. pc[t] # "user"
      BY Zenon, <1>0, <1>5 DEF ReadWake
    <3>2. file[t] # None /\ file[t] \in Slot \cup {None}
      BY Zenon, <1>0, <3>1 DEF IInv, FilesInv, TypeOK
    <3> QED BY Zenon, <3>2
  <2>2. QED
    BY Zenon, <1>3, <1>5, <2>1 DEF ReadWake
<1>6. QED
  BY Zenon, <1>1, <1>2, <1>4, <1>5 DEF Read

(* Receiving is invisible to every caller. *)
LEMMA RefineRead ==
  ASSUME IInv, NEW t \in Task, Read(t)
  PROVE  UNCHANGED Rpc!rpcVars
<1>0. TypeOK /\ SenderInv /\ "user" \notin ReadCall /\ "transact" \notin ReadCall
  BY Zenon, ConstantsAssumption DEF IInv, TxnInv
<1>1. UNCHANGED <<in_use, cur>>
  BY Zenon DEF Read, ReadNow, ReadSleep, ReadWake, Signal, readUnchanged, procVars
<1>2. \A u \in Task : pc'[u] = "transact" <=> pc[u] = "transact"
  <2>1. pc' = pc \/ \E c : c # "transact" /\ pc[t] # "transact" /\ pc' = [pc EXCEPT ![t] = c]
    BY Zenon, <1>0 DEF Read, ReadNow, ReadSleep, ReadWake, Signal
  <2>2. pc \in [Task -> {"user", "transact"} \cup ReadCall]
    BY Zenon, <1>0 DEF TypeOK
  <2>3. QED
    BY Zenon, <2>1, <2>2
<1>3. txn' = txn \/ \E p \in Slot : todo[p] # <<>> /\ TakeTxn(p)
  BY Zenon, ReadTakes
<1>4. \A u \in Task : pc[u] = "transact" => txn'[cur[u]] = txn[cur[u]]
  <2>1. CASE txn' = txn
    BY Zenon, <2>1
  <2>2. CASE \E p \in Slot : todo[p] # <<>> /\ TakeTxn(p)
    <3>1. next_txn_id' = next_txn_id
      BY Zenon DEF Read, ReadNow, ReadSleep, ReadWake, Signal, readUnchanged, txnVars
    <3>2. QED
      BY Zenon, <1>1, <1>2, <2>2, <3>1, TakeTxnInv
  <2>3. QED
    BY Zenon, <1>3, <2>1, <2>2
<1>5. QED
  BY Zenon, <1>1, <1>2, <1>4, CallFrame, Stutter

(* Every step of the driver is a step of the call service or invisible to it. *)
LEMMA RefineNext == IInv /\ [Next]_vars => [Rpc!RpcNext]_(Rpc!rpcVars)
<1> SUFFICES ASSUME IInv, [Next]_vars
             PROVE  Rpc!RpcNext \/ UNCHANGED Rpc!rpcVars
  BY Zenon
<1>1. ASSUME UNCHANGED <<in_use, pc, cur, txn>>
      PROVE  UNCHANGED Rpc!rpcVars
  BY Zenon, <1>1, CallFrame, Stutter
<1>2. CASE UNCHANGED vars
  BY Zenon, <1>1, <1>2 DEF vars, taskVars, procVars, txnVars
<1>3. ASSUME NEW t \in Task, Files(t)
      PROVE  Rpc!RpcNext \/ UNCHANGED Rpc!rpcVars
  <2>1. CASE (\E u \in Task : Share(t, u)) \/ CloseShared(t)
    BY Zenon, <1>1, <2>1 DEF Share, CloseShared, procVars, txnVars
  <2>2. QED
    BY Zenon, <1>3, <2>1, RefineOpen, RefineRelease DEF Files
<1>4. ASSUME NEW t \in Task, Registry(t) \/ Uevent(t)
      PROVE  UNCHANGED Rpc!rpcVars
  <2>1. UNCHANGED <<pc, cur, procVars, txnVars>>
    BY Zenon, <1>4 DEF Registry, SetContextMgr, RegisterSvc, Uevent, UeventPoll, UeventEmit,
                UeventPrepare, taskVars
  <2>2. QED
    BY Zenon, <1>1, <2>1 DEF procVars, txnVars
<1>5. ASSUME NEW t \in Task, Reply(t)
      PROVE  Rpc!RpcNext
  BY Zenon, <1>5, RefineReply DEF Reply
<1>6. QED
  BY Zenon, <1>2, <1>3, <1>4, <1>5, RefineTransact, RefineTransactWake, RefineRead DEF Next

(* The driver implements the abstract call service: a synchronous transaction
   returns once, with the answer of its target or because the target died. *)
THEOREM Refinement == Spec => ImplementsRpc
<1>1. Spec => []IInv
  BY Zenon, Invariance
<1>2. QED
  BY <1>1, RefineInit, RefineNext, PTL DEF Spec, ImplementsRpc, Rpc!RpcSpec

-------------------------------------------------------------------------------
(* What no step may do. *)

(* Registration is the only way for a handle to come to denote a name, and the
   handle is then a new one or denoted the name already. *)
LEMMA RegisterHandles ==
  ASSUME IInv, NEW p \in Slot, NEW m \in Name, RegisterService(p, m), NEW n, NEW h,
         Denotes(h, n)'
  PROVE  Denotes(h, n) \/ h = next_svc_handle
<1>0. svcs \in [SvcSlot -> Svc]
  BY Zenon DEF IInv, TypeOK
<1>1. CASE \E k \in SvcSlot : svcs' = [svcs EXCEPT ![k].owner = p]
  <2>1. \A l \in SvcSlot :
          /\ svcs'[l].in_use = svcs[l].in_use /\ svcs'[l].handle = svcs[l].handle
          /\ svcs'[l].name = svcs[l].name
    BY <1>0, <1>1 DEF Svc
  <2>2. QED
    BY Zenon, <2>1 DEF Denotes
<1>2. CASE \E k \in SvcSlot :
             svcs' = [svcs EXCEPT ![k] =
                        [in_use |-> TRUE, handle |-> next_svc_handle, owner |-> p,
                         name |-> Stored[m]]]
  <2>1. PICK k \in SvcSlot :
          svcs' = [svcs EXCEPT ![k] = [in_use |-> TRUE, handle |-> next_svc_handle, owner |-> p,
                                       name |-> Stored[m]]]
    BY Zenon, <1>2
  <2>2. svcs'[k].handle = next_svc_handle /\ \A l \in SvcSlot \ {k} : svcs'[l] = svcs[l]
    BY Zenon, <1>0, <2>1
  <2> QED BY Zenon, <2>2 DEF Denotes
<1>3. CASE UNCHANGED svcs
  BY Zenon, <1>3 DEF Denotes
<1>4. QED
  BY Zenon, <1>1, <1>2, <1>3 DEF RegisterService

(* A handle never comes to denote another service (binder_register_service_internal
   takes the next handle, binder_release gives none back). *)
THEOREM HandlesSafe == Spec => HandleNeverRebound
<1>1. ASSUME IInv, Next, NEW n \in Name, NEW h \in 1 .. MaxHandles, Denotes(h, n)'
      PROVE  Denotes(h, n) \/ h = next_svc_handle
  <2>1. PICK t \in Task : \/ Files(t) \/ Registry(t) \/ Transact(t) \/ TransactWake(t)
                          \/ Read(t) \/ Reply(t) \/ Uevent(t)
    BY Zenon, <1>1 DEF Next
  <2>2. CASE UNCHANGED svcs
    BY Zenon, <1>1, <2>2 DEF Denotes
  <2>3. CASE \E m \in Name : RegisterSvc(t, m) \/ \E oneway \in BOOLEAN : AddService(t, m, oneway)
    <3>1. PICK m \in Name : file[t] \in Slot /\ RegisterService(file[t], m)
      BY Zenon, <1>1, <2>3 DEF RegisterSvc, AddService, IInv, TypeOK
    <3>2. QED
      BY Zenon, <1>1, <3>1, RegisterHandles
  <2>4. CASE BinderRelease(t)
    <3>1. \A k \in SvcSlot : svcs'[k].in_use => svcs'[k] = svcs[k]
      BY Zenon, <2>4 DEF BinderRelease, FreeSvc
    <3>2. QED
      BY Zenon, <1>1, <3>1 DEF Denotes
  <2>5. Registry(t) \/ Transact(t) \/ Files(t) \/ UNCHANGED svcs
    BY Zenon, <2>1 DEF TransactWake, Read, ReadNow, ReadSleep, ReadWake, Signal, readUnchanged, Reply,
                DoReply, Uevent, UeventPoll, UeventEmit, UeventPrepare, svcVars
  <2>6. CASE Registry(t)
    BY Zenon, <2>2, <2>3, <2>6 DEF Registry, SetContextMgr
  <2>7. CASE Transact(t)
    BY Zenon, <2>2, <2>3, <2>7 DEF Transact, TransactManager, TransactService, svcVars
  <2>8. CASE Files(t)
    BY Zenon, <2>2, <2>4, <2>8 DEF Files, BinderOpen, Share, CloseShared, svcVars
  <2>9. QED
    BY Zenon, <2>2, <2>5, <2>6, <2>7, <2>8
<1>2. IInv /\ [Next]_vars =>
        [\A n \in Name, h \in 1 .. MaxHandles :
           Denotes(h, n)' => Denotes(h, n) \/ h = next_svc_handle]_vars
  BY Zenon, <1>1
<1>3. QED
  BY <1>2, Invariance, PTL DEF Spec, HandleNeverRebound

(* Finished records why a transaction is done. *)
LEMMA FinishedStatus ==
  ASSUME NEW x, NEW status
  PROVE  Finished(x, status).status = status
BY DEF Finished

(* A transaction becomes done by a reply of the target that received it or by
   the death of that target (binder_do_reply, binder_release). *)
THEOREM DoneSafe == Spec => DoneByTarget
<1>1. ASSUME IInv, Next, NEW i \in TxnId, txn'[i].done, ~txn[i].done
      PROVE  \/ /\ txn'[i].status = "replied" /\ i \in in_flight[txn[i].target]
                /\ in_use[txn[i].target]
             \/ /\ txn'[i].status = "EPIPE" /\ i \in HeldBy(txn[i].target)
                /\ ~in_use'[txn[i].target]
  <2>0. TypeOK
    BY Zenon, <1>1 DEF IInv
  <2>1. PICK t \in Task : \/ Files(t) \/ Registry(t) \/ Transact(t) \/ TransactWake(t)
                          \/ Read(t) \/ Reply(t) \/ Uevent(t)
    BY Zenon, <1>1 DEF Next
  <2>2. txn' # txn /\ \A x : ~(\E j \in TxnId : txn' = [txn EXCEPT ![j] = x] /\ ~x.done)
    BY Zenon, <1>1, <2>0 DEF TypeOK
  <2>3. \A p, oneway : ~NewTxn(p, oneway).done
    BY Zenon DEF NewTxn
  <2>4. ~FreeTxn.done
    BY Zenon DEF FreeTxn
  <2>5. CASE BinderRelease(t)
    <3>1. PICK p \in Slot : p = file[t]
      BY Zenon, <2>0, <2>5 DEF BinderRelease, TypeOK
    <3>2. i \in HeldBy(p) /\ txn'[i] = Finished(txn[i], "EPIPE")
      BY Zenon, <1>1, <2>4, <2>5, <3>1 DEF BinderRelease
    <3>3. txn[i].target = p /\ ~in_use'[p]
      BY Zenon, <1>1, <2>0, <2>5, <3>1, <3>2, HeldFacts DEF BinderRelease, TypeOK
    <3>4. txn'[i].status = "EPIPE"
      BY Zenon, <3>2, FinishedStatus
    <3>5. QED
      BY Zenon, <3>2, <3>3, <3>4
  <2>6. CASE Reply(t)
    <3>1. PICK j \in TxnId : DoReply(t, j)
      BY Zenon, <2>6 DEF Reply
    <3>2. i = j /\ txn'[i].status = "replied"
      BY Zenon, <1>1, <2>0, <3>1 DEF DoReply, TypeOK, Finished
    <3>3. PICK p \in Slot : p = file[t] /\ i \in in_flight[p]
      BY Zenon, <2>0, <3>1, <3>2 DEF DoReply, TypeOK
    <3>4. txn[i].target = p /\ in_use[p]
      BY Zenon, <1>1, <3>3, HeldFacts DEF HeldBy
    <3>5. QED
      BY Zenon, <3>2, <3>3, <3>4
  <2>7. CASE Files(t) /\ ~BinderRelease(t)
    BY Zenon, <2>2, <2>7 DEF Files, BinderOpen, Share, CloseShared, txnVars
  <2>8. CASE Registry(t) \/ Uevent(t)
    BY Zenon, <2>2, <2>8 DEF Registry, SetContextMgr, RegisterSvc, Uevent, UeventPoll, UeventEmit,
                      UeventPrepare, txnVars
  <2>9. CASE Transact(t)
    <3>1. PICK p, oneway : Enqueue(t, p, oneway)
      BY Zenon, <2>9 DEF Transact, TransactManager, AddService, TransactService
    <3>2. next_txn_id \in TxnId
      BY Zenon, <2>0, <3>1, FreshId
    <3>3. txn' = [txn EXCEPT ![next_txn_id] = NewTxn(p, oneway)]
      BY Zenon, <3>1 DEF Enqueue
    <3>4. QED
      BY Zenon, <2>2, <2>3, <3>2, <3>3
  <2>10. CASE TransactWake(t)
    <3>1. cur[t] \in TxnId
      BY Zenon, <1>1, <2>0, <2>10 DEF TransactWake, IInv, TxnInv, SenderInv, TypeOK
    <3>2. txn' = txn \/ txn' = [txn EXCEPT ![cur[t]] = FreeTxn]
      BY Zenon, <2>10 DEF TransactWake
    <3>3. QED
      BY Zenon, <2>2, <2>4, <3>1, <3>2
  <2>11. CASE Read(t)
    <3>1. txn' = txn \/ \E p \in Slot : todo[p] # <<>> /\ TakeTxn(p)
      BY Zenon, <1>1, <2>11, ReadTakes
    <3>2. CASE \E p \in Slot : todo[p] # <<>> /\ TakeTxn(p)
      <4>1. PICK p \in Slot : todo[p] # <<>> /\ TakeTxn(p)
        BY Zenon, <3>2
      <4>2. Head(todo[p]) \in TxnId
        BY Zenon, <2>0, <4>1, TailFacts DEF TypeOK
      <4>3. txn' = txn \/ txn' = [txn EXCEPT ![Head(todo[p])] = FreeTxn]
        BY Zenon, <4>1 DEF TakeTxn
      <4>4. QED
        BY Zenon, <2>2, <2>4, <4>2, <4>3
    <3>3. QED
      BY Zenon, <2>2, <3>1, <3>2
  <2>12. QED
    BY Zenon, <2>1, <2>5, <2>6, <2>7, <2>8, <2>9, <2>10, <2>11
<1>2. IInv /\ [Next]_vars =>
        [\A i \in TxnId : txn'[i].done /\ ~txn[i].done =>
           LET p == txn[i].target IN
           \/ txn'[i].status = "replied" /\ i \in in_flight[p] /\ in_use[p]
           \/ txn'[i].status = "EPIPE" /\ i \in HeldBy(p) /\ ~in_use'[p]]_vars
  BY Zenon, <1>1
<1>3. QED
  BY <1>2, Invariance, PTL DEF Spec, DoneByTarget

================================================================================
