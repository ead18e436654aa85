------------------------------ MODULE ThreadPool ------------------------------
(***************************************************************************)
(* libuv/src/threadpool.c: the worker threads, their queue, and the loop   *)
(* thread that submits requests, cancels them and calls them back.         *)
(*                                                                         *)
(* A critical section under one mutex is one step.  uv__work_cancel holds  *)
(* the global mutex while it waits for the loop's, and a worker holds the  *)
(* loop's over two steps, so both mutexes are state.  uv_async_send and    *)
(* the callback it leads to are a flag, as UvAsync justifies.              *)
(*                                                                         *)
(* The caller keeps libuv's rules: a request is submitted once, and is     *)
(* not cancelled once its callback began.                                  *)
(***************************************************************************)
EXTENDS Integers, Sequences, FiniteSets

CONSTANTS
  Workers,
  Reqs,
  MaxCancels,     \* bound: calls of uv_cancel
  Exit,           \* exit_message
  NoReq

VARIABLES
  mutex, wq_mutex,  \* a holder, or "free"
  wq,               \* the global queue
  idle_threads,
  pc,               \* of each worker
  job,              \* the request a worker runs, or NoReq
  work,             \* w->work: "none" (never submitted), "fn", "NULL", "cancelled"
  loop_wq,          \* loop->wq
  async,            \* loop->wq_async was sent and uv__work_done not begun
  at,               \* the loop thread: "loop", "done" (in uv__work_done),
                    \* "cb" (in a callback of it), "join" and "end" (in cleanup)
  local,            \* the queue of uv__work_done
  cancelling,       \* what uv_cancel is at: [req, step] or NoReq
  cancels,
  ran, called       \* history: how often the work ran, and the callbacks' statuses

queues == <<wq, loop_wq, local>>
vars == <<mutex, wq_mutex, idle_threads, pc, job, work, async, at, cancelling,
          cancels, ran, called, queues>>

In(r, q) == \E i \in 1 .. Len(q) : q[i] = r

\* QUEUE_REMOVE: a request is linked at most once.
Without(q, r) ==
  IF ~In(r, q) THEN q
  ELSE LET k == CHOOSE i \in 1 .. Len(q) : q[i] = r
       IN [i \in 1 .. Len(q) - 1 |-> IF i < k THEN q[i] ELSE q[i + 1]]

At(s) == {w \in Workers : pc[w] = s}

\* The pool is created by the first submission.
Init ==
  /\ mutex = "free" /\ wq_mutex = "free"
  /\ wq = <<>> /\ idle_threads = 0
  /\ pc = [w \in Workers |-> "unborn"]
  /\ job = [w \in Workers |-> NoReq]
  /\ work = [r \in Reqs |-> "none"]
  /\ loop_wq = <<>> /\ async = FALSE
  /\ at = "loop" /\ local = <<>>
  /\ cancelling = NoReq /\ cancels = 0
  /\ ran = [r \in Reqs |-> 0]
  /\ called = [r \in Reqs |-> <<>>]

-----------------------------------------------------------------------------
(* worker().                                                               *)

\* uv_cond_signal: one waiter wakes, if there is any.
Signalled(pcs) ==
  LET waiters == {w \in Workers : pcs[w] = "wait"}
  IN IF waiters = {} THEN {pcs} ELSE {[pcs EXCEPT ![w] = "woken"] : w \in waiters}

\* pthread_cond_wait may return for no reason.
SpuriousWakeup(w) ==
  /\ pc[w] = "wait"
  /\ pc' = [pc EXCEPT ![w] = "woken"]
  /\ UNCHANGED <<mutex, wq_mutex, idle_threads, job, work, async, at, cancelling,
                 cancels, ran, called, queues>>

Locks(w) == mutex = "free" /\ pc[w] \in {"lock", "woken"}
Awake(w) == idle_threads - (IF pc[w] = "woken" THEN 1 ELSE 0)

Wait(w) ==
  /\ Locks(w) /\ wq = <<>>
  /\ idle_threads' = Awake(w) + 1
  /\ pc' = [pc EXCEPT ![w] = "wait"]
  /\ UNCHANGED <<mutex, wq_mutex, job, work, async, at, cancelling, cancels, ran,
                 called, queues>>

\* The exit message stays in the queue for the next worker.
TakeExit(w) ==
  /\ Locks(w) /\ wq # <<>> /\ Head(wq) = Exit
  /\ idle_threads' = Awake(w)
  /\ pc' \in Signalled([pc EXCEPT ![w] = "gone"])
  /\ UNCHANGED <<mutex, wq_mutex, job, work, async, at, cancelling, cancels, ran,
                 called, queues>>

\* The request is unlinked and reinitialised: uv_cancel sees it as running.
TakeWork(w) ==
  /\ Locks(w) /\ wq # <<>> /\ Head(wq) # Exit
  /\ idle_threads' = Awake(w)
  /\ pc' = [pc EXCEPT ![w] = "work"]
  /\ job' = [job EXCEPT ![w] = Head(wq)]
  /\ wq' = Tail(wq)
  /\ UNCHANGED <<mutex, wq_mutex, work, async, at, cancelling, cancels, ran,
                 called, loop_wq, local>>

\* w->work(w), without a lock.
uv__queue_work(w) ==
  /\ pc[w] = "work"
  /\ ran' = [ran EXCEPT ![job[w]] = @ + 1]
  /\ pc' = [pc EXCEPT ![w] = "worked"]
  /\ UNCHANGED <<mutex, wq_mutex, idle_threads, job, work, async, at, cancelling,
                 cancels, called, queues>>

LockLoop(w) ==
  /\ pc[w] = "worked" /\ wq_mutex = "free"
  /\ wq_mutex' = w
  /\ pc' = [pc EXCEPT ![w] = "finish"]
  /\ UNCHANGED <<mutex, idle_threads, job, work, async, at, cancelling, cancels,
                 ran, called, queues>>

Finish(w) ==
  /\ pc[w] = "finish"
  /\ work' = [work EXCEPT ![job[w]] = "NULL"]
  /\ loop_wq' = Append(loop_wq, job[w])
  /\ async' = TRUE
  /\ wq_mutex' = "free"
  /\ job' = [job EXCEPT ![w] = NoReq]
  /\ pc' = [pc EXCEPT ![w] = "lock"]
  /\ UNCHANGED <<mutex, idle_threads, at, cancelling, cancels, ran, called, wq,
                 local>>

-----------------------------------------------------------------------------
(* The loop thread, in any callback.                                       *)

LoopFree == cancelling = NoReq /\ at \in {"loop", "cb"}

\* pcs: the workers, with those init_once has just created.
post(q, pcs) ==
  /\ mutex = "free"
  /\ wq' = Append(wq, q)
  /\ pc' \in (IF idle_threads > 0 THEN Signalled(pcs) ELSE {pcs})

init_once == [w \in Workers |-> IF pc[w] = "unborn" THEN "lock" ELSE pc[w]]

\* uv_queue_work and uv__work_submit.
uv__work_submit(r) ==
  /\ LoopFree /\ work[r] = "none"
  /\ work' = [work EXCEPT ![r] = "fn"]
  /\ post(r, init_once)
  /\ UNCHANGED <<mutex, wq_mutex, idle_threads, job, async, at, cancelling,
                 cancels, ran, called, loop_wq, local>>

uv_cancel(r) ==
  /\ LoopFree /\ cancels < MaxCancels
  /\ work[r] # "none" /\ called[r] = <<>>
  /\ mutex = "free"
  /\ mutex' = "loop"
  /\ cancelling' = [req |-> r, step |-> "locked"]
  /\ cancels' = cancels + 1
  /\ UNCHANGED <<wq_mutex, idle_threads, pc, job, work, async, at, ran, called,
                 queues>>

Linked(r) == In(r, wq) \/ In(r, loop_wq) \/ In(r, local)

uv__work_cancel_running ==
  LET r == cancelling.req
  IN /\ cancelling # NoReq /\ cancelling.step = "locked" /\ wq_mutex = "free"
     /\ mutex' = "free"
     /\ IF work[r] # "NULL"
        THEN /\ wq' = Without(wq, r)
             /\ loop_wq' = Without(loop_wq, r)
             /\ local' = Without(local, r)
             /\ work' = [work EXCEPT ![r] = "cancelled"]
             /\ cancelling' = [cancelling EXCEPT !.step = "removed"]
        ELSE /\ cancelling' = NoReq
             /\ UNCHANGED <<work, queues>>
     /\ UNCHANGED <<wq_mutex, idle_threads, pc, job, async, at, cancels, ran,
                    called>>

\* The section under both mutexes: a request that is linked and not finished
\* leaves whichever queue it is in, a cancelled one too.  Otherwise UV_EBUSY.
uv__work_cancel ==
  LET r == cancelling.req
  IN /\ cancelling # NoReq /\ cancelling.step = "locked" /\ wq_mutex = "free"
     /\ mutex' = "free"
     /\ IF Linked(r) /\ work[r] # "NULL"
        THEN /\ wq' = Without(wq, r)
             /\ loop_wq' = Without(loop_wq, r)
             /\ local' = Without(local, r)
             /\ work' = [work EXCEPT ![r] = "cancelled"]
             /\ cancelling' = [cancelling EXCEPT !.step = "removed"]
        ELSE /\ cancelling' = NoReq
             /\ UNCHANGED <<work, queues>>
     /\ UNCHANGED <<wq_mutex, idle_threads, pc, job, async, at, cancels, ran,
                    called>>

CancelDone_silent ==
  /\ cancelling # NoReq /\ cancelling.step = "removed" /\ wq_mutex = "free"
  /\ loop_wq' = Append(loop_wq, cancelling.req)
  /\ cancelling' = NoReq
  /\ UNCHANGED <<mutex, wq_mutex, idle_threads, pc, job, work, async, at, cancels,
                 ran, called, wq, local>>

\* The cancelled request goes to the loop's queue like a finished one.
CancelDone ==
  /\ cancelling # NoReq /\ cancelling.step = "removed" /\ wq_mutex = "free"
  /\ loop_wq' = Append(loop_wq, cancelling.req)
  /\ async' = TRUE
  /\ cancelling' = NoReq
  /\ UNCHANGED <<mutex, wq_mutex, idle_threads, pc, job, work, at, cancels, ran,
                 called, wq, local>>

\* The request has left its queue and is not in the loop's yet.
Removed(r) ==
  cancelling # NoReq /\ cancelling.step = "removed" /\ cancelling.req = r

\* uv__work_done takes over the loop's queue ...
uv__work_done ==
  /\ LoopFree /\ at = "loop" /\ async /\ wq_mutex = "free"
  /\ async' = FALSE
  /\ local' = loop_wq /\ loop_wq' = <<>>
  /\ at' = "done"
  /\ UNCHANGED <<mutex, wq_mutex, idle_threads, pc, job, work, cancelling, cancels,
                 ran, called, wq>>

\* ... and calls back its requests, uv__queue_done included.
DoneCallback ==
  /\ at = "done" /\ local # <<>>
  /\ local' = Tail(local)
  /\ LET r == Head(local)
     IN called' = [called EXCEPT ![r] = Append(@,
                     IF work[r] = "cancelled" THEN "UV_ECANCELED" ELSE "0")]
  /\ at' = "cb"
  /\ UNCHANGED <<mutex, wq_mutex, idle_threads, pc, job, work, async, cancelling,
                 cancels, ran, wq, loop_wq>>

CallbackReturns ==
  /\ LoopFree /\ at = "cb"
  /\ at' = "done"
  /\ UNCHANGED <<mutex, wq_mutex, idle_threads, pc, job, work, async, cancelling,
                 cancels, ran, called, queues>>

DoneReturns ==
  /\ at = "done" /\ local = <<>>
  /\ at' = "loop"
  /\ UNCHANGED <<mutex, wq_mutex, idle_threads, pc, job, work, async, cancelling,
                 cancels, ran, called, queues>>

\* The process exits, from main or from a callback: the exit message is
\* posted and the workers are joined.
cleanup ==
  /\ LoopFree /\ At("unborn") = {}
  /\ post(Exit, pc)
  /\ at' = "join"
  /\ UNCHANGED <<mutex, wq_mutex, idle_threads, job, work, async, cancelling,
                 cancels, ran, called, loop_wq, local>>

Joined ==
  /\ at = "join" /\ At("gone") = Workers
  /\ at' = "end"
  /\ UNCHANGED <<mutex, wq_mutex, idle_threads, pc, job, work, async, cancelling,
                 cancels, ran, called, queues>>

-----------------------------------------------------------------------------
worker(w) ==
  \/ Wait(w) \/ TakeExit(w) \/ TakeWork(w)
  \/ uv__queue_work(w) \/ LockLoop(w) \/ Finish(w)

Loop ==
  \/ uv__work_cancel \/ CancelDone
  \/ uv__work_done \/ DoneCallback \/ CallbackReturns \/ DoneReturns
  \/ Joined

Next ==
  \/ \E w \in Workers : worker(w) \/ SpuriousWakeup(w)
  \/ Loop
  \/ \E r \in Reqs : uv__work_submit(r) \/ uv_cancel(r)
  \/ cleanup

Spec == Init /\ [][Next]_vars

\* Every thread runs, the work and the callbacks return.
FairSpec ==
  /\ Spec
  /\ \A w \in Workers : WF_vars(worker(w))
  /\ WF_vars(Loop)

-----------------------------------------------------------------------------
(* Properties.                                                             *)

\* The work of a request runs at most once and it is called back at most
\* once; a request called back with status 0 has run, and one cancelled has
\* not, whichever of uv_cancel and the workers came first to it.
DoneOnce ==
  \A r \in Reqs :
    /\ ran[r] <= 1
    /\ \/ called[r] = <<>>
       \/ called[r] = <<"0">> /\ ran[r] = 1
       \/ called[r] = <<"UV_ECANCELED">> /\ ran[r] = 0

\* Where a request is: an entry of a queue, a worker's hands or uv_cancel's.
Entries(q, r) == {i \in 1 .. Len(q) : q[i] = r}
Places(r) ==
  UNION {{"wq"} \X Entries(wq, r), {"loop_wq"} \X Entries(loop_wq, r),
         {"local"} \X Entries(local, r),
         {"worker"} \X {w \in Workers : job[w] = r},
         {"uv_cancel"} \X {x \in {r} : Removed(x)}}

\* A submitted request that was not called back is in one place, and any other
\* in none: no request is lost and none is linked twice.
OnePlace ==
  \A r \in Reqs :
    Cardinality(Places(r)) = IF work[r] # "none" /\ called[r] = <<>> THEN 1 ELSE 0

\* While a worker sleeps there are at least as many awake on their way to the
\* queue as there are requests in it: post's test of idle_threads loses no
\* wakeup, though it counts workers that were signalled and are not back.
NoSleepOverWork ==
  At("wait") # {} =>
    Len(wq) <= Cardinality(At("lock") \cup At("woken"))

\* Every request submitted is called back, unless the process exits: no
\* signal is lost, and uv_cancel, which takes both mutexes, never waits for a
\* worker that waits for it.
EveryRequestDone ==
  LET undone == {r \in Reqs : work[r] # "none" /\ called[r] = <<>>}
  IN undone # {} ~> undone = {} \/ at \in {"join", "end"}

\* cleanup joins every worker: the one exit message wakes them all in turn.
ExitJoins == at = "join" ~> at = "end"
================================================================================
