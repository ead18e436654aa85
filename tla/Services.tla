------------------------------- MODULE Services -------------------------------
(***************************************************************************)
(* Components that share no state with the others, with what each of them  *)
(* promises: GetInstance (Singleton), the calls of DBConnector and libuv's *)
(* uv_async_send (UvAsync).                                                *)
(***************************************************************************)
EXTENDS Singleton, Sequences

CONSTANTS
  Ids, Passwords, NoAccount, MaxConns,       \* DBConnector, and MaxCalls
  Handles, LoopThread, EfdMax, MaxSends      \* UvAsync, and Threads

\* An eventfd counts to 2^64 - 2; there are handles to send to.
ASSUME AsyncAssumption == EfdMax \in Nat \ {0} /\ Handles # {}

VARIABLES
  table, conn, status, broken, wire, call, db_pc, seen, stored, result,
  db_calls, conns,                                              \* DBConnector
  open, used, pending, async_handles, queue, efd, loop, step, target, unseen,
  sends                                                         \* UvAsync

dbVars == <<table, conn, status, broken, wire, call, db_pc, seen, stored,
            result, db_calls, conns>>
asyncVars == <<open, used, pending, async_handles, queue, efd, loop, step, target,
               unseen, sends>>

DB == INSTANCE DBConnector WITH pc <- db_pc, calls <- db_calls
Async == INSTANCE UvAsync

-----------------------------------------------------------------------------
(* Properties.  OneInstance is Singleton's.                                *)

\* SearchAccount and SignUpAccount tell what the database did, unless the
\* connection was lost, and leave nothing on the connection for the next call.
DBTruthful ==
  DB!InSync /\ DB!SearchTrueFound /\ DB!SearchFalseAbsent /\ DB!SignUpTold

\* uv_async_send: the loop does not sleep on a flag that is set, no call is
\* forgotten and no callback answers none.
WakeupsKept == Async!FlagHasWakeup /\ Async!SendsRecorded
================================================================================
