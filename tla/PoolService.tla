----------------------------- MODULE PoolService -----------------------------
(***************************************************************************)
(* libuv's thread pool (ThreadPool) under names that other components do   *)
(* not use, with what it promises.                                         *)
(***************************************************************************)
EXTENDS Integers, Sequences, FiniteSets

CONSTANTS Workers, Reqs, MaxCancels, Exit, NoReq

\* The pool has finitely many threads; exit_message and the absence of a
\* request are not requests, and the absence is not a call of uv_cancel.
ASSUME PoolAssumption ==
  /\ IsFiniteSet(Workers)
  /\ Exit \notin Reqs /\ NoReq \notin Reqs
  /\ NoReq \notin [req : Reqs, step : {"locked", "removed"}]

VARIABLES
  mutex, wq_mutex, wq, idle_threads, pool_pc, job, work, loop_wq, async, pool_at,
  local, cancelling, cancels, ran, called

poolVars == <<mutex, wq_mutex, wq, idle_threads, pool_pc, job, work, loop_wq,
              async, pool_at, local, cancelling, cancels, ran, called>>

Pool == INSTANCE ThreadPool WITH pc <- pool_pc, at <- pool_at

\* threadpool.c: work and callback run once, and not both cancelled and run; a
\* request is in one place; no worker sleeps over work nobody comes for.
PoolSound == Pool!DoneOnce /\ Pool!OnePlace /\ Pool!NoSleepOverWork
================================================================================
