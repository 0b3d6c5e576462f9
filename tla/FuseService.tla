------------------------------ MODULE FuseService ------------------------------
(***************************************************************************)
(* What a FUSE connection promises those who use the file system and the   *)
(* daemon that serves it.  The daemon gets each call once, the oldest      *)
(* first, and answers it at most once, after it got it.  A call returns    *)
(* with the answer of the daemon, or with an error when the connection     *)
(* went down before there was one; an answer is not lost with the          *)
(* connection.  A lookup that was answered with a node, and nothing else,  *)
(* is a use of its inode.  FUSE_DESTROY is sent when nobody is in the file *)
(* system, and is the last call.  Calls of statfs do not count there:      *)
(* those of sys_ustat use no inode, go on beside FUSE_DESTROY and after    *)
(* it, and fail when the file system goes.                                 *)
(***************************************************************************)
EXTENDS Integers

CONSTANTS Task, Node, InoOf

Ino == {InoOf[n] : n \in Node}

VARIABLES
  up,      \* the connection: up until the device is closed or the file system gone
  fs,      \* the file system: "none", "mounted", "umounting" or "gone"
  last,    \* the number of the last message to the daemon
  call,    \* the call each task is in
  uses     \* how often each inode is in use

vars == <<up, fs, last, call, uses>>

Idle == [stage |-> "idle", op |-> "OTHER", id |-> 0, reply |-> "error"]

Init ==
  /\ up = TRUE /\ fs = "none" /\ last = 0
  /\ call = [t \in Task |-> Idle]
  /\ uses = [i \in Ino |-> 0]

(* Nobody is in the file system, but for statfs. *)
Unused ==
  /\ \A t \in Task : call[t] = Idle \/ call[t].op = "STATFS"
  /\ \A i \in Ino : uses[i] = 0

(* The mount sends FUSE_INIT, or fails to. *)
Mount ==
  /\ up /\ fs = "none" /\ fs' = "mounted"
  /\ last' \in {last, last + 1}
  /\ UNCHANGED <<up, call, uses>>

(* A message that nobody waits for. *)
Forget ==
  /\ up /\ last' = last + 1
  /\ UNCHANGED <<up, fs, call, uses>>

Ask(t, op) ==
  /\ up /\ last' = last + 1 /\ call[t] = Idle
  /\ \/ op \in {"LOOKUP", "OTHER"} /\ fs = "mounted" /\ UNCHANGED fs
     \/ op = "STATFS" /\ fs \in {"mounted", "umounting"} /\ UNCHANGED fs
     \/ op = "DESTROY" /\ fs = "mounted" /\ Unused /\ fs' = "umounting"
  /\ call' = [call EXCEPT ![t] = [stage |-> "queued", op |-> op, id |-> last + 1,
                                  reply |-> "error"]]
  /\ UNCHANGED <<up, uses>>

(* Call c at a later stage. *)
Moved(c, stage, r) == [stage |-> stage, op |-> c.op, id |-> c.id, reply |-> r]

(* The daemon reads the oldest call. *)
Take(t) ==
  /\ up /\ call[t].stage = "queued"
  /\ \A v \in Task : call[v].stage = "queued" => call[t].id <= call[v].id
  /\ call' = [call EXCEPT ![t] = Moved(@, "taken", "error")]
  /\ UNCHANGED <<up, fs, last, uses>>

Answer(t, r) ==
  /\ up /\ call[t].stage = "taken"
  /\ r \in Node => call[t].op = "LOOKUP"
  /\ call' = [call EXCEPT ![t] = Moved(@, "answered", r)]
  /\ UNCHANGED <<up, fs, last, uses>>

Return(t) ==
  /\ call[t].stage = "answered"
  /\ call' = [call EXCEPT ![t] = Idle]
  /\ uses' = IF call[t].reply \in Node
               THEN [uses EXCEPT ![InoOf[call[t].reply]] = @ + 1] ELSE uses
  /\ UNCHANGED <<up, fs, last>>

Drop(i) ==
  /\ uses[i] > 0
  /\ uses' = [uses EXCEPT ![i] = @ - 1]
  /\ UNCHANGED <<up, fs, last, call>>

(* What the daemon has not answered fails. *)
Fail == call' = [t \in Task |->
                   IF call[t].stage \in {"queued", "taken"}
                     THEN Moved(call[t], "answered", "error") ELSE call[t]]

(* The daemon closes the device. *)
Down ==
  /\ up /\ up' = FALSE
  /\ Fail
  /\ UNCHANGED <<fs, last, uses>>

(* The file system goes, and the connection with it. *)
Leave ==
  /\ fs \in {"mounted", "umounting"} /\ Unused
  /\ fs' = "gone" /\ up' = FALSE
  /\ Fail
  /\ UNCHANGED <<last, uses>>

Next ==
  \/ Mount \/ Forget \/ Down \/ Leave
  \/ \E t \in Task :
       \/ Take(t) \/ Return(t)
       \/ \E op \in {"LOOKUP", "OTHER", "STATFS", "DESTROY"} : Ask(t, op)
       \/ \E r \in Node \cup {"ok", "error"} : Answer(t, r)
  \/ \E i \in Ino : Drop(i)

Spec == Init /\ [][Next]_vars
================================================================================
