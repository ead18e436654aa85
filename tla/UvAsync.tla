-------------------------------- MODULE UvAsync --------------------------------
(***************************************************************************)
(* Waking the loop from other threads: uv_async_t of                       *)
(* libuv/src/unix/async.c over an eventfd.  uv_async_send runs on any      *)
(* thread, and on the loop's own inside callbacks; its read, its           *)
(* compare-and-exchange and its write are separate steps.                  *)
(*                                                                         *)
(* Callers keep libuv's rules: only the loop thread initialises and closes *)
(* handles, and nobody sends to a handle that is closed or being closed.   *)
(***************************************************************************)
EXTENDS Integers, Sequences, FiniteSets

CONSTANTS
  Handles,
  Threads,      \* threads that send
  LoopThread,   \* the member of Threads that runs the loop
  EfdMax,       \* greatest value of the eventfd's counter
  MaxSends      \* bound: calls of uv_async_send

VARIABLES
  open,       \* handles that are initialised and not closed
  used,       \* handles that were initialised
  pending,    \* handle->pending
  async_handles, queue,  \* loop->async_handles, the local queue of uv__async_event
  efd,        \* the eventfd's counter
  loop,       \* "event" (in uv__async_event), "callback" (called by it), or
              \* "poll" (elsewhere, callbacks of other handles included)
  step,       \* each thread's place in uv_async_send: "out", "read", "cas", "write"
  target,     \* the handle it sends to
  unseen,     \* calls [thread, handle] no callback has answered, see Unanswered
  sends

vars == <<open, used, pending, async_handles, queue, efd, loop, step, target,
          unseen, sends>>

Calls == [thread : Threads, handle : Handles]
InQueue(q) == {q[i] : i \in 1 .. Len(q)}
Sending(h) == {t \in Threads : step[t] # "out" /\ target[t] = h}

Init ==
  /\ open = {} /\ used = {}
  /\ pending = [h \in Handles |-> 0]
  /\ async_handles = <<>> /\ queue = <<>>
  /\ efd = 0 /\ loop = "poll"
  /\ step = [t \in Threads |-> "out"]
  /\ target = [t \in Threads |-> CHOOSE h \in Handles : TRUE]
  /\ unseen = {} /\ sends = 0

-----------------------------------------------------------------------------
(* uv_async_send.                                                          *)

Send(t, h) ==
  /\ step[t] = "out" /\ sends < MaxSends
  /\ h \in open
  /\ t = LoopThread => loop \in {"poll", "callback"}
  /\ step' = [step EXCEPT ![t] = "read"]
  /\ target' = [target EXCEPT ![t] = h]
  /\ unseen' = unseen \cup {[thread |-> t, handle |-> h]}
  /\ sends' = sends + 1
  /\ UNCHANGED <<open, used, pending, async_handles, queue, efd, loop>>

\* The cheap read: somebody else's call is still pending.
Read(t) ==
  /\ step[t] = "read"
  /\ step' = [step EXCEPT ![t] = IF pending[target[t]] # 0 THEN "out" ELSE "cas"]
  /\ UNCHANGED <<open, used, pending, async_handles, queue, efd, loop, target,
                 unseen, sends>>

CmpXchg(t) ==
  /\ step[t] = "cas"
  /\ pending' = [pending EXCEPT ![target[t]] = 1]
  /\ step' = [step EXCEPT ![t] = IF pending[target[t]] = 0 THEN "write" ELSE "out"]
  /\ UNCHANGED <<open, used, async_handles, queue, efd, loop, target, unseen,
                 sends>>

\* uv__async_send: EAGAIN, the counter being full, is as good as a write.
Write(t) ==
  /\ step[t] = "write"
  /\ efd' = IF efd < EfdMax THEN efd + 1 ELSE efd
  /\ step' = [step EXCEPT ![t] = "out"]
  /\ UNCHANGED <<open, used, pending, async_handles, queue, loop, target, unseen,
                 sends>>

-----------------------------------------------------------------------------
(* The loop thread.                                                        *)

LoopRuns(where) == loop \in where /\ step[LoopThread] = "out"

\* uv_async_init, in any callback or before the loop runs.
uv_async_init(h) ==
  /\ LoopRuns({"poll", "callback"})
  /\ h \notin used
  /\ open' = open \cup {h} /\ used' = used \cup {h}
  /\ pending' = [pending EXCEPT ![h] = 0]
  /\ async_handles' = Append(async_handles, h)
  /\ UNCHANGED <<queue, efd, loop, step, target, unseen, sends>>

\* QUEUE_REMOVE; a handle is in one place of one queue.
Remove(q, h) ==
  LET i == CHOOSE j \in 1 .. Len(q) : q[j] = h
  IN IF h \in InQueue(q) THEN SubSeq(q, 1, i - 1) \o SubSeq(q, i + 1, Len(q))
                         ELSE q

\* uv__async_close: the handle leaves the queue it is in.
uv__async_close(h) ==
  /\ LoopRuns({"poll", "callback"})
  /\ h \in open /\ Sending(h) = {}
  /\ open' = open \ {h}
  /\ async_handles' = Remove(async_handles, h)
  /\ queue' = Remove(queue, h)
  /\ unseen' = {c \in unseen : c.handle # h}
  /\ UNCHANGED <<used, pending, efd, loop, step, target, sends>>

\* uv__async_io empties the eventfd, and uv__async_event moves the handles to
\* a queue of its own.
uv__async_io ==
  /\ LoopRuns({"poll"}) /\ efd > 0
  /\ efd' = 0
  /\ queue' = async_handles /\ async_handles' = <<>>
  /\ loop' = "event"
  /\ UNCHANGED <<open, used, pending, step, target, unseen, sends>>

\* The calls left when a callback of h begins: those to other handles, and
\* those that have not come to their compare-and-exchange.
Undecided(t, h) == step[t] \in {"read", "cas"} /\ target[t] = h
Unanswered(h) == {c \in unseen : c.handle = h => Undecided(c.thread, h)}

uv__async_event_clears_late ==
  /\ LoopRuns({"event"}) /\ queue # <<>>
  /\ LET h == Head(queue)
     IN /\ queue' = Tail(queue)
        /\ async_handles' = Append(async_handles, h)
        /\ loop' = IF pending[h] = 1 THEN "callback" ELSE "event"
        /\ unseen' = IF pending[h] = 1 THEN Unanswered(h) ELSE unseen
  /\ UNCHANGED <<open, used, pending, efd, step, target, sends>>

\* The next handle: if its flag was set its callback begins.
uv__async_event ==
  /\ LoopRuns({"event"}) /\ queue # <<>>
  /\ LET h == Head(queue)
     IN /\ queue' = Tail(queue)
        /\ async_handles' = Append(async_handles, h)
        /\ pending' = [pending EXCEPT ![h] = 0]
        /\ loop' = IF pending[h] = 1 THEN "callback" ELSE "event"
        /\ unseen' = IF pending[h] = 1 THEN Unanswered(h) ELSE unseen
  /\ UNCHANGED <<open, used, efd, step, target, sends>>

CallbackReturns ==
  /\ LoopRuns({"callback"})
  /\ loop' = "event"
  /\ UNCHANGED <<open, used, pending, async_handles, queue, efd, step, target,
                 unseen, sends>>

EventDone ==
  /\ LoopRuns({"event"}) /\ queue = <<>>
  /\ loop' = "poll"
  /\ UNCHANGED <<open, used, pending, async_handles, queue, efd, step, target,
                 unseen, sends>>

-----------------------------------------------------------------------------
uv_async_send(t) == Read(t) \/ CmpXchg(t) \/ Write(t)
Loop == uv__async_io \/ uv__async_event \/ CallbackReturns \/ EventDone

Next ==
  \/ \E t \in Threads : uv_async_send(t) \/ \E h \in Handles : Send(t, h)
  \/ \E h \in Handles : uv_async_init(h) \/ uv__async_close(h)
  \/ Loop

Spec == Init /\ [][Next]_vars

\* Every thread runs.
FairSpec ==
  /\ Spec
  /\ \A t \in Threads : WF_vars(uv_async_send(t))
  /\ WF_vars(Loop)

-----------------------------------------------------------------------------
(* Properties.                                                             *)

\* A flag that is set has a wakeup under way: the eventfd is readable, the
\* sender is about to write, or uv__async_event has yet to come to the handle.
\* The loop cannot sleep on a flag nobody will look at.
FlagHasWakeup ==
  \A h \in open : pending[h] = 1 =>
    \/ efd > 0
    \/ \E t \in Threads : step[t] = "write"
    \/ h \in InQueue(queue)

\* A call of uv_async_send that no callback has answered is on record in the
\* flag once it is past its compare-and-exchange, even if it found the flag set
\* and did nothing; and the flag is set only if there is such a call, so every
\* callback answers one.
SendsRecorded ==
  \A h \in open :
    /\ \A t \in Threads :
         [thread |-> t, handle |-> h] \in unseen /\ ~Undecided(t, h)
           => pending[h] = 1
    /\ pending[h] = 1 => \E t \in Threads : [thread |-> t, handle |-> h] \in unseen

\* Every call of uv_async_send is followed by the beginning of a callback of
\* its handle, or by the handle's close.  (There are finitely many calls, so
\* some day none is left.)
SendsSeen == unseen # {} ~> unseen = {}
================================================================================
