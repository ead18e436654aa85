------------------------------ MODULE Singleton -------------------------------
(***************************************************************************)
(* ISingleton<T>::GetInstance of server/singleton.h, called by several     *)
(* threads: a look at s_instance without the mutex, the mutex, a second    *)
(* look, the construction, the store.  The store of the pointer is one     *)
(* memory access that follows the constructor, an out-of-line call, in     *)
(* program order; on the x86 targets of the build it is seen in that order. *)
(***************************************************************************)
EXTENDS Integers, FiniteSets

CONSTANTS
  Threads,
  MaxCalls,   \* bound: calls of each thread
  CtorThrows  \* may the constructor of T throw?

ASSUME SingletonAssumption ==
  MaxCalls \in Nat /\ CtorThrows \in BOOLEAN

None == 0

VARIABLES
  built,       \* number of objects constructed, which names them
  s_instance,  \* None or the object it points to
  s_mutex,     \* the threads holding it
  obj,         \* the object a thread has constructed or returned, or None
  pc, calls

vars == <<built, s_instance, s_mutex, obj, pc, calls>>

Init ==
  /\ built = 0 /\ s_instance = None /\ s_mutex = {}
  /\ obj = [t \in Threads |-> None]
  /\ pc = [t \in Threads |-> "idle"] /\ calls = [t \in Threads |-> 0]

Goto(t, from, to) == pc[t] = from /\ pc' = [pc EXCEPT ![t] = to]

Call(t) ==
  /\ calls[t] < MaxCalls
  /\ Goto(t, "idle", "look")
  /\ calls' = [calls EXCEPT ![t] = @ + 1]
  /\ UNCHANGED <<built, s_instance, s_mutex, obj>>

Look(t) ==
  /\ Goto(t, "look", IF s_instance = None THEN "lock" ELSE "return")
  /\ UNCHANGED <<built, s_instance, s_mutex, obj, calls>>

Lock(t) ==
  /\ s_mutex = {}
  /\ Goto(t, "lock", "look_again")
  /\ s_mutex' = {t}
  /\ UNCHANGED <<built, s_instance, obj, calls>>

LookAgain_forgotten(t) ==
  /\ Goto(t, "look_again", "new")
  /\ UNCHANGED <<built, s_instance, s_mutex, obj, calls>>

LookAgain(t) ==
  /\ Goto(t, "look_again", IF s_instance = None THEN "new" ELSE "unlock")
  /\ UNCHANGED <<built, s_instance, s_mutex, obj, calls>>

New(t) ==
  /\ Goto(t, "new", "reset")
  /\ built' = built + 1
  /\ obj' = [obj EXCEPT ![t] = built + 1]
  /\ UNCHANGED <<s_instance, s_mutex, calls>>

\* The exception leaves GetInstance with the mutex locked.
Throw(t) ==
  /\ CtorThrows
  /\ Goto(t, "new", "idle")
  /\ UNCHANGED <<built, s_instance, s_mutex, obj, calls>>

Reset(t) ==
  /\ Goto(t, "reset", "unlock")
  /\ s_instance' = obj[t]
  /\ UNCHANGED <<built, s_mutex, obj, calls>>

Unlock(t) ==
  /\ Goto(t, "unlock", "return")
  /\ s_mutex' = s_mutex \ {t}
  /\ UNCHANGED <<built, s_instance, obj, calls>>

\* return *s_instance
Return(t) ==
  /\ Goto(t, "return", "idle")
  /\ obj' = [obj EXCEPT ![t] = s_instance]
  /\ UNCHANGED <<built, s_instance, s_mutex, calls>>

GetInstance(t) ==
  \/ Look(t) \/ Lock(t) \/ LookAgain(t) \/ New(t) \/ Throw(t) \/ Reset(t)
  \/ Unlock(t) \/ Return(t)

Next == \E t \in Threads : Call(t) \/ GetInstance(t)

Spec == Init /\ [][Next]_vars

\* Threads run and the mutex is held for a few instructions.
FairSpec == Spec /\ \A t \in Threads : SF_vars(GetInstance(t))

-----------------------------------------------------------------------------
(* Properties.                                                             *)

\* Type correctness.
TypeOK ==
  /\ built \in Nat /\ s_instance \in Nat
  /\ s_mutex \in SUBSET Threads
  /\ obj \in [Threads -> Nat]
  /\ pc \in [Threads -> {"idle", "look", "lock", "look_again", "new", "reset",
                         "unlock", "return"}]
  /\ calls \in [Threads -> Nat]

\* However the threads interleave, and even if a constructor has thrown, T is
\* constructed at most once, and every call that returns gives that object,
\* never a null or a second one.
OneInstance ==
  /\ built <= 1
  /\ \A t \in Threads : pc[t] = "return" => s_instance = 1
  /\ \A t \in Threads : obj[t] # None => obj[t] = 1

\* A thread has left GetInstance by an exception: nothing was constructed, and
\* it still holds the mutex.
Abandoned ==
  /\ s_instance = None
  /\ \E t \in s_mutex : pc[t] \notin {"look_again", "new", "reset", "unlock"}

\* Every call returns, unless a constructor has thrown: the unlocked look and
\* the mutex do not keep a thread waiting for ever.  (There are finitely many
\* calls, so all have returned some day.)
CallsReturn ==
  (\E t \in Threads : pc[t] # "idle")
    ~> (\A t \in Threads : pc[t] = "idle") \/ Abandoned
================================================================================
