----------------------------- MODULE PthreadKeys -----------------------------
(***************************************************************************)
(* Thread-specific data (library/libc/pthread.c): the keys, the values in  *)
(* tcb_table and main_tls, and the destructors of pthread_exit, on top of  *)
(* the life of the threads.                                                *)
(***************************************************************************)
EXTENDS Pthread

CONSTANTS
  MaxKeys,    \* PTHREAD_KEYS_MAX
  Passes,     \* 4: how often run_tls_destructors goes over the keys
  MaxGen      \* bound: how often a key is created

ASSUME KeysAssumption == MaxKeys \in Nat \ {0} /\ MaxGen \in Nat /\ Passes \in Nat \ {0}

Key == 1 .. MaxKeys

VARIABLES
  key_used, key_dtor,   \* key_dtor: the key has a destructor
  tls, main_tls,        \* by slot and key, and for the thread without a slot
  scan,                 \* run_tls_destructors of each thread: where it is
  gen                   \* history: how often each key was created

keyVars == <<key_used, key_dtor, gen>>
tlsVars == <<tls, main_tls>>
allVars == <<vars, keyVars, tlsVars, scan>>

(* A value remembers who stored it, and under which creation of the key. *)
Stored == [by : Thread, gen : 1 .. MaxGen]
NoValue == [by |-> NULL, gen |-> 0]    \* NULL
NoValues == [k \in Key |-> NoValue]
ScanStart == [pass |-> 0, key |-> 1, any |-> FALSE, calling |-> FALSE, done |-> FALSE]

-------------------------------------------------------------------------------
(* The thread is in user code: its own, or a destructor. *)
InUserCode(t) == pc[t] = "run" \/ (pc[t] = "exit" /\ scan[t].calling)

(* A fault: the values that threads have under an old key of that number are kept. *)
KeyCreateStale(t, dtor) ==
  LET free == {k \in Key : ~key_used[k]}
      k == First(free)
  IN  /\ InUserCode(t) /\ global_lock = NULL
      /\ free # {} /\ gen[k] < MaxGen
      /\ key_used' = [key_used EXCEPT ![k] = TRUE]
      /\ key_dtor' = [key_dtor EXCEPT ![k] = dtor]
      /\ gen' = [gen EXCEPT ![k] = @ + 1]
      /\ main_tls' = [main_tls EXCEPT ![k] = NoValue]
      /\ UNCHANGED <<vars, tls, scan>>

(* pthread_key_create *)
KeyCreate(t, dtor) ==
  LET free == {k \in Key : ~key_used[k]}
      k == First(free)
  IN  /\ InUserCode(t) /\ global_lock = NULL
      /\ free # {} /\ gen[k] < MaxGen
      /\ key_used' = [key_used EXCEPT ![k] = TRUE]
      /\ key_dtor' = [key_dtor EXCEPT ![k] = dtor]
      /\ gen' = [gen EXCEPT ![k] = @ + 1]
      /\ main_tls' = [main_tls EXCEPT ![k] = NoValue]
      /\ tls' = [s \in Slot |-> [tls[s] EXCEPT ![k] = NoValue]]
      /\ UNCHANGED <<vars, scan>>

(* pthread_key_delete *)
KeyDelete(t, k) ==
  /\ InUserCode(t) /\ global_lock = NULL
  /\ key_used[k]
  /\ key_used' = [key_used EXCEPT ![k] = FALSE]
  /\ key_dtor' = [key_dtor EXCEPT ![k] = FALSE]
  /\ UNCHANGED <<vars, gen, tlsVars, scan>>

(* pthread_setspecific of a value that is not NULL, or of NULL. *)
SetSpecific(t, k, v) ==
  /\ InUserCode(t) /\ global_lock = NULL
  /\ key_used[k]
  /\ IF Found(t) # {}
     THEN tls' = [tls EXCEPT ![First(Found(t))][k] = v] /\ UNCHANGED main_tls
     ELSE main_tls' = [main_tls EXCEPT ![k] = v] /\ UNCHANGED tls
  /\ UNCHANGED <<vars, keyVars, scan>>

(* pthread_getspecific *)
GetSpecific(t, k) ==
  IF ~key_used[k] THEN NoValue
  ELSE IF Found(t) # {} THEN tls[First(Found(t))][k] ELSE main_tls[k]

-------------------------------------------------------------------------------
(* A fault: a single pass. *)
NextKeyOnce(c) ==
  IF c.key < MaxKeys THEN [c EXCEPT !.key = @ + 1, !.calling = FALSE]
  ELSE [c EXCEPT !.done = TRUE, !.calling = FALSE]

(* run_tls_destructors: the key after the one at hand, the next pass if a destructor ran
   in this one, or the end. *)
NextKey(c) ==
  IF c.key < MaxKeys THEN [c EXCEPT !.key = @ + 1, !.calling = FALSE]
  ELSE IF c.any /\ c.pass + 1 < Passes
       THEN [c EXCEPT !.pass = @ + 1, !.key = 1, !.any = FALSE, !.calling = FALSE]
       ELSE [c EXCEPT !.done = TRUE, !.calling = FALSE]

HasDtor(t, k) == key_used[k] /\ key_dtor[k] /\ tls[at[t]][k] # NoValue

(* One key of one pass: a value is taken away and given to the destructor. *)
DtorStep(t) ==
  /\ pc[t] = "exit" /\ global_lock = NULL
  /\ ~scan[t].done /\ ~scan[t].calling
  /\ IF HasDtor(t, scan[t].key)
     THEN /\ tls' = [tls EXCEPT ![at[t]][scan[t].key] = NoValue]
          /\ scan' = [scan EXCEPT ![t].any = TRUE, ![t].calling = TRUE]
     ELSE /\ scan' = [scan EXCEPT ![t] = NextKey(@)]
          /\ UNCHANGED tls
  /\ UNCHANGED <<vars, keyVars, main_tls>>

(* The destructor returns. *)
DtorReturns(t) ==
  /\ pc[t] = "exit" /\ scan[t].calling
  /\ scan' = [scan EXCEPT ![t] = NextKey(@)]
  /\ UNCHANGED <<vars, keyVars, tlsVars>>

-------------------------------------------------------------------------------
(* The steps of Pthread that touch this state: pthread_create clears the entry,
   pthread_exit runs the destructors before it publishes the result. *)
KCreate(t, u, st, d) ==
  /\ Create(t, u, st, d)
  /\ tls' = [tls EXCEPT ![at'[t]] = NoValues]
  /\ UNCHANGED <<keyVars, main_tls, scan>>

KExit(t, v) ==
  /\ Exit(t, v)
  /\ UNCHANGED <<keyVars, tlsVars, scan>>

KExited(t) ==
  /\ scan[t].done
  /\ Exited(t)
  /\ scan' = [scan EXCEPT ![t] = ScanStart]
  /\ UNCHANGED <<keyVars, tlsVars>>

(* The other steps of Pthread: inside a call of the library, and the rest. *)
Same == UNCHANGED <<keyVars, tlsVars, scan>>

InLibrary(t) ==
  \/ Created(t) /\ Same
  \/ Entry(t) /\ Same
  \/ Die(t) /\ Same
  \/ JoinCheck(t) /\ Same
  \/ JoinWait(t) /\ Same
  \/ JoinLastWait(t) /\ Same
  \/ JoinFree(t) /\ Same

Others(t) ==
  \/ CreateFails(t) /\ Same
  \/ Kill(t) /\ Same
  \/ OutsideReaps(t) /\ Same
  \/ \E u \in Thread : Detach(t, u) /\ Same
  \/ \E u \in Thread : Join(t, u) /\ Same

(* What a thread does when it is in a call of the library, or in a destructor. *)
KAdvance(t) == InLibrary(t) \/ KExited(t) \/ DtorStep(t) \/ DtorReturns(t)

KInit ==
  /\ Init
  /\ key_used = [k \in Key |-> FALSE]
  /\ key_dtor = [k \in Key |-> FALSE]
  /\ gen = [k \in Key |-> 0]
  /\ tls = [s \in Slot |-> NoValues]
  /\ main_tls = NoValues
  /\ scan = [t \in Thread |-> ScanStart]

KNext ==
  \E t \in Thread :
    \/ KAdvance(t) \/ Others(t)
    \/ \E u \in Thread, st \in Stack, d \in BOOLEAN :
         (d => "detach" \in Use) /\ KCreate(t, u, st, d)
    \/ \E v \in Value : KExit(t, v)
    \/ \E d \in BOOLEAN : KeyCreate(t, d)
    \/ \E k \in Key : \/ KeyDelete(t, k)
                      \/ SetSpecific(t, k, [by |-> t, gen |-> gen[k]])
                      \/ SetSpecific(t, k, NoValue)

KSpec == KInit /\ [][KNext]_allVars

(* A thread that is in the library goes on, and the program's destructors return. *)
KFairSpec == KSpec /\ \A t \in Thread : WF_allVars(KAdvance(t))

-------------------------------------------------------------------------------
(* The variables of this module have their types. *)
KTypeOK ==
  /\ key_used \in [Key -> BOOLEAN] /\ key_dtor \in [Key -> BOOLEAN]
  /\ gen \in [Key -> 0 .. MaxGen]
  /\ tls \in [Slot -> [Key -> Stored \cup {NoValue}]]
  /\ main_tls \in [Key -> Stored \cup {NoValue}]
  /\ scan \in [Thread -> [pass : 0 .. Passes - 1, key : Key, any : BOOLEAN,
                          calling : BOOLEAN, done : BOOLEAN]]

(* pthread_getspecific gives a thread what it stored itself since the key was created, or
   NULL: neither the values of an earlier thread in the same slot, nor those of another
   thread, nor those stored under a deleted key that had the same number. *)
TlsOwned ==
  \A k \in Key, t \in Thread :
    (InUserCode(t) /\ global_lock = NULL) =>
      GetSpecific(t, k) \in {NoValue, [by |-> t, gen |-> gen[k]]}

(* A thread publishes its result with a value left for a destructor only after Passes
   passes, each of which called one. *)
DtorsRun ==
  \A t \in Thread : (pc[t] = "exit" /\ scan[t].done) =>
    \/ \A k \in Key : ~HasDtor(t, k)
    \/ scan[t].pass = Passes - 1 /\ scan[t].any
=============================================================================
