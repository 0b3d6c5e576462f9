------------------------------ MODULE BinderRpc -------------------------------
(***************************************************************************)
(* What /dev/binder promises a synchronous caller (the header comment of   *)
(* drivers/char/binder.c): the caller blocks until the target replies or   *)
(* dies.  A call is pending at a process; the process answers it, or dies  *)
(* and thereby breaks every call pending at it; then the call returns.     *)
(* Nothing else ends a call, and a call ends once.                         *)
(***************************************************************************)
CONSTANTS Task, Slot, None

VARIABLES
  alive,    \* the processes that have the device open
  call      \* the synchronous call each task is in

rpcVars == <<alive, call>>

Idle == [state |-> "idle", to |-> None]

RpcInit ==
  /\ alive = [p \in Slot |-> FALSE]
  /\ call = [t \in Task |-> Idle]

Appear(p) ==
  /\ ~alive[p]
  /\ alive' = [alive EXCEPT ![p] = TRUE]
  /\ UNCHANGED call

(* A process dies: the calls pending at it, and no others, are broken. *)
Die(p) ==
  /\ alive[p]
  /\ alive' = [alive EXCEPT ![p] = FALSE]
  /\ call' = [t \in Task |->
                IF call[t].state = "pending" /\ call[t].to = p
                  THEN [call[t] EXCEPT !.state = "broken"] ELSE call[t]]

Call(t, p) ==
  /\ call[t] = Idle /\ alive[p]
  /\ call' = [call EXCEPT ![t] = [state |-> "pending", to |-> p]]
  /\ UNCHANGED alive

(* Only a living target answers, and only a call that is pending. *)
Answer(t) ==
  /\ call[t].state = "pending" /\ alive[call[t].to]
  /\ call' = [call EXCEPT ![t] = [state |-> "answered", to |-> call[t].to]]
  /\ UNCHANGED alive

Return(t) ==
  /\ call[t].state \in {"answered", "broken"}
  /\ call' = [call EXCEPT ![t] = Idle]
  /\ UNCHANGED alive

RpcNext ==
  \/ \E p \in Slot : Appear(p) \/ Die(p)
  \/ \E t \in Task : Answer(t) \/ Return(t) \/ \E p \in Slot : Call(t, p)

RpcSpec == RpcInit /\ [][RpcNext]_rpcVars
===============================================================================
