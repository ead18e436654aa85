------------------------------ MODULE EchoStream ------------------------------
(***************************************************************************)
(* One client connection of the echo server: the callbacks of              *)
(* server/main.cpp running on the stream of libuv's unix backend           *)
(* (libuv/src/unix/stream.c and core.c).  The loop thread is sequential,   *)
(* so it has a program counter; the client and the kernel's socket buffers *)
(* act at any moment between two of its system calls.                      *)
(*                                                                         *)
(* Bytes are named by their position in the client's stream: byte k is the *)
(* k-th byte that reached the server's socket.  A malloc'ed buffer is an   *)
(* element of Buffers and heap[b] is the position of the byte at its start *)
(* (0 when b is not allocated), so a buffer freed or reused too early      *)
(* shows as wrong bytes in the echo.                                       *)
(***************************************************************************)
EXTENDS Integers, Sequences, FiniteSets

CONSTANTS
  Buffers,         \* addresses malloc can return
  MaxBytes,        \* bound: bytes the client sends
  BufLen,          \* suggested_size of alloc_buff (64 * 1024 in uv__read)
  SndBuf,          \* capacity of the kernel's send buffer
  ReadCount,       \* reads per wakeup (32 in uv__read)
  SigpipeIgnored   \* SIGPIPE disposition the process inherits

ASSUME ConstantsAssumption ==
  /\ MaxBytes \in Nat \ {0}
  /\ BufLen \in Nat \ {0}
  /\ SndBuf \in Nat \ {0}
  /\ ReadCount \in Nat \ {0}
  /\ SigpipeIgnored \in BOOLEAN

VARIABLES
  \* the client and the kernel
  peer,      \* "none", "open", "fin" (client shut down), "reset"
  sent,      \* bytes of the client that reached the server's socket
  nread,     \* bytes the server has read
  out,       \* bytes the server has written, in order
  consumed,  \* bytes of out the client has taken
  \* the uv_tcp_t of the connection
  hstate,    \* "none", "open", "closing" (UV_CLOSING), "closed" (UV_CLOSED)
  reading,   \* UV_STREAM_READING
  partial,   \* UV_STREAM_READ_PARTIAL
  pevents,   \* io_watcher.pevents
  fed,       \* io_watcher is in loop->pending_queue
  wq,        \* write_queue
  cq,        \* write_completed_queue
  wqsize,    \* write_queue_size
  heap,      \* the buffers of alloc_buff
  \* the loop thread
  phase,     \* phase of uv_run: "pending", "poll", "closing"
  pc,        \* where the thread is in uv__stream_io; "loop" outside
  ev,        \* events passed to uv__stream_io
  count,     \* uv__read's local
  proc       \* "running" or "killed" (by SIGPIPE)

client == <<peer, sent, consumed>>
flags == <<hstate, reading>>
queues == <<wq, cq, wqsize, heap>>
vars == <<peer, sent, nread, out, consumed, hstate, reading, partial, pevents,
          fed, wq, cq, wqsize, heap, phase, pc, ev, count, proc>>

-----------------------------------------------------------------------------
(* Requests.  A write_req_t: its buffer, how far libuv has advanced into   *)
(* it, the bytes that remain and whether it finished with an error.        *)

Req == [buf : Buffers, off : Nat, len : Nat, error : BOOLEAN]

MinOf(a, b) == IF a <= b THEN a ELSE b

\* The byte a request's base points to, in heap h.
First(h, r) == h[r.buf] + r.off

\* libuv advances a request by n bytes, or fails it.
Advance(r, n) == [r EXCEPT !.off = r.off + n, !.len = r.len - n]
Fail(r) == [r EXCEPT !.error = TRUE]

Writable == SndBuf - (Len(out) - consumed)

Available == sent - nread

\* What epoll reports for the connection's socket.
Ready ==
     (IF Available > 0 \/ peer \in {"fin", "reset"} THEN {"IN"} ELSE {})
  \cup (IF Writable > 0 \/ peer = "reset" THEN {"OUT"} ELSE {})
  \cup (IF peer = "reset" THEN {"HUP"} ELSE {})

-----------------------------------------------------------------------------
Init ==
  /\ peer = "none" /\ sent = 0 /\ nread = 0 /\ out = <<>> /\ consumed = 0
  /\ hstate = "none" /\ reading = FALSE /\ partial = FALSE
  /\ pevents = {} /\ fed = FALSE
  /\ wq = <<>> /\ cq = <<>> /\ wqsize = 0
  /\ heap = [b \in Buffers |-> 0]
  /\ phase = "pending" /\ pc = "loop" /\ ev = {} /\ count = 0
  /\ proc = "running"

-----------------------------------------------------------------------------
(* The client.                                                             *)

server == <<nread, out, hstate, reading, partial, pevents, fed, wq, cq,
            wqsize, heap, phase, pc, ev, count, proc>>

ClientConnect ==
  /\ peer = "none"
  /\ peer' = "open"
  /\ UNCHANGED <<sent, consumed, server>>

ClientSend ==
  /\ peer = "open" /\ sent < MaxBytes
  /\ sent' = sent + 1
  /\ UNCHANGED <<peer, consumed, server>>

ClientRecv ==
  /\ peer \in {"open", "fin"} /\ consumed < Len(out)
  /\ consumed' = consumed + 1
  /\ UNCHANGED <<peer, sent, server>>

ClientShutdown ==
  /\ peer = "open"
  /\ peer' = "fin"
  /\ UNCHANGED <<sent, consumed, server>>

ClientReset ==
  /\ peer \in {"open", "fin"}
  /\ peer' = "reset"
  /\ UNCHANGED <<sent, consumed, server>>

-----------------------------------------------------------------------------
(* Control flow shared by the loop thread's steps.                         *)

At(p, label) == proc = "running" /\ phase = p /\ pc = label

In(label) == proc = "running" /\ pc = label

Goto(label) == pc' = label /\ UNCHANGED phase

\* uv__stream_io returns to the phase of uv_run that called it.
StreamIoReturn ==
  /\ pc' = "loop"
  /\ phase' = IF phase = "pending" THEN "poll" ELSE "closing"

\* Where uv__read goes on once read_cb has returned: a short read ends it.
AfterReadCb(short) == Goto(IF short THEN "hup" ELSE "read")

\* The watcher's interest in an event, and its place in the pending queue.
uv__io_start_missing(e) == UNCHANGED pevents
uv__io_feed_missing == UNCHANGED fed

uv__io_start(e) == pevents' = pevents \cup {e}
uv__io_stop(e) == pevents' = pevents \ {e}
uv__io_feed == fed' = TRUE

uv_close_still_pending ==
  /\ hstate' = "closing"
  /\ reading' = FALSE
  /\ pevents' = {}
  /\ UNCHANGED fed

\* uv_close and uv__stream_close: the watcher leaves the poll set and the
\* pending queue, reading stops and the descriptor is closed.
uv_close ==
  /\ hstate' = "closing"
  /\ reading' = FALSE
  /\ pevents' = {}
  /\ fed' = FALSE

-----------------------------------------------------------------------------
(* The phases of uv_run.                                                   *)

\* uv__run_pending calls uv__stream_io with POLLOUT for a fed watcher.
uv__run_pending ==
  /\ At("pending", "loop")
  /\ IF fed
     THEN /\ ev' = {"OUT"}
          /\ Goto("write")
     ELSE /\ phase' = "poll"
          /\ UNCHANGED <<pc, ev>>
  /\ fed' = FALSE
  /\ UNCHANGED <<client, nread, out, flags, partial, pevents, queues, count,
                 proc>>

\* uv__io_poll reports the listening socket: on_new_connection accepts the
\* client and starts reading.
on_new_connection ==
  /\ At("poll", "loop")
  /\ hstate = "none" /\ peer # "none"
  /\ hstate' = "open"
  /\ reading' = TRUE
  /\ pevents' = {"IN"}
  /\ phase' = "closing"
  /\ UNCHANGED <<client, nread, out, partial, fed, queues, pc, ev, count,
                 proc>>

\* uv__io_poll finds events the watcher asked for and calls uv__stream_io.
uv__io_poll ==
  /\ At("poll", "loop")
  /\ pevents # {}
  /\ ev' = Ready \cap (pevents \cup {"HUP"})
  /\ ev' # {}
  /\ IF ev' \cap {"IN", "HUP"} # {}
     THEN /\ Goto("read")
          /\ partial' = FALSE
          /\ count' = ReadCount
     ELSE /\ Goto("hup")
          /\ UNCHANGED <<partial, count>>
  /\ UNCHANGED <<client, nread, out, flags, pevents, fed, queues, proc>>

\* uv__io_poll times out: nothing is ready for this connection.
uv__io_poll_timeout ==
  /\ At("poll", "loop")
  /\ ~(hstate = "none" /\ peer # "none")
  /\ pevents = {} \/ Ready \cap (pevents \cup {"HUP"}) = {}
  /\ phase' = "closing"
  /\ UNCHANGED <<client, nread, out, flags, partial, pevents, fed, queues, pc,
                 ev, count, proc>>

\* uv__run_closing_handles: uv__finish_close marks the handle UV_CLOSED and
\* enters uv__stream_destroy.
uv__run_closing_handles ==
  /\ At("closing", "loop")
  /\ IF hstate = "closing"
     THEN /\ hstate' = "closed"
          /\ Goto("flush")
     ELSE /\ phase' = "pending"
          /\ UNCHANGED <<hstate, pc>>
  /\ UNCHANGED <<client, nread, out, reading, partial, pevents, fed, queues,
                 ev, count, proc>>

-----------------------------------------------------------------------------
(* uv__read.  Every turn of its loop allocates a buffer with alloc_buff,   *)
(* reads into it and calls read_cb.                                        *)

ReadTurn == In("read") /\ reading /\ count > 0

read_cb_frees(b) == UNCHANGED heap

\* read_cb's early return: the buffer now belongs to the write request.
read_cb_keeps(b) == heap' = [heap EXCEPT ![b] = nread + 1]

uv_write_overwrites_size(b, n) ==
  /\ wq' = Append(wq, [buf |-> b, off |-> 0, len |-> n, error |-> FALSE])
  /\ wqsize' = n

uv_write_at_head(b, n) ==
  /\ wq' = <<[buf |-> b, off |-> 0, len |-> n, error |-> FALSE]>> \o wq
  /\ wqsize' = wqsize + n

\* uv_write queues the request and counts its bytes.
uv_write(b, n) ==
  /\ wq' = Append(wq, [buf |-> b, off |-> 0, len |-> n, error |-> FALSE])
  /\ wqsize' = wqsize + n

\* Data: read_cb keeps the buffer in a write_req_t and calls uv_write, which
\* writes at once if write_queue_size was 0.
ReadData ==
  /\ ReadTurn
  /\ Available > 0
  /\ LET n == MinOf(Available, BufLen)
     IN \E b \in Buffers :
          /\ heap[b] = 0
          /\ read_cb_keeps(b)
          /\ uv_write(b, n)
          /\ nread' = nread + n
          /\ partial' = (n < BufLen)
          /\ IF wqsize = 0
             THEN /\ Goto("inline")
                  /\ UNCHANGED pevents
             ELSE /\ uv__io_start("OUT")
                  /\ AfterReadCb(n < BufLen)
  /\ count' = count - 1
  /\ UNCHANGED <<client, out, flags, fed, cq, ev, proc>>

\* EAGAIN: read_cb(0) frees the buffer.
ReadAgain ==
  /\ ReadTurn
  /\ Available = 0 /\ peer = "open"
  /\ uv__io_start("IN")
  /\ Goto("hup")
  /\ UNCHANGED <<client, nread, out, flags, partial, fed, queues, ev, count,
                 proc>>

ReadEnd_without_close ==
  /\ ReadTurn
  /\ Available = 0 /\ peer \in {"fin", "reset"}
  /\ reading' = FALSE
  /\ pevents' = pevents \ {"IN"}
  /\ StreamIoReturn
  /\ UNCHANGED <<client, nread, out, hstate, fed, partial, queues, ev, count,
                 proc>>

\* End of file or a read error: read_cb closes the handle and frees the
\* buffer; uv__stream_io then sees fd -1 and returns.
ReadEnd ==
  /\ ReadTurn
  /\ Available = 0 /\ peer \in {"fin", "reset"}
  /\ uv_close
  /\ StreamIoReturn
  /\ UNCHANGED <<client, nread, out, partial, queues, ev, count, proc>>

\* The loop of uv__read has used up its turns.
ReadStop ==
  /\ In("read")
  /\ ~(reading /\ count > 0)
  /\ Goto("hup")
  /\ UNCHANGED <<client, nread, out, flags, partial, pevents, fed, queues, ev,
                 count, proc>>

\* The POLLHUP short-circuit of uv__stream_io, then its POLLOUT test.
uv__stream_io_hup ==
  /\ In("hup")
  /\ IF "HUP" \in ev /\ reading /\ partial
     THEN uv_close /\ StreamIoReturn
     ELSE /\ IF ev \cap {"OUT", "HUP"} # {} THEN Goto("write")
                                            ELSE StreamIoReturn
          /\ UNCHANGED <<flags, pevents, fed>>
  /\ UNCHANGED <<client, nread, out, partial, queues, ev, count, proc>>

-----------------------------------------------------------------------------
(* uv__write, called by uv_write2 ("inline") and by uv__stream_io.         *)

Writing == proc = "running" /\ pc \in {"inline", "write"}

AfterWrite == IF pc = "inline" THEN AfterReadCb(partial) ELSE Goto("callbacks")

WriteNothing ==
  /\ Writing
  /\ wq = <<>>
  /\ AfterWrite
  /\ UNCHANGED <<client, nread, out, flags, partial, pevents, fed, queues, ev,
                 count, proc>>

\* The bytes that n more bytes of request r add to the output.
Written(r, n) ==
  [i \in 1 .. Len(out) + n |->
     IF i <= Len(out) THEN out[i] ELSE First(heap, r) + (i - Len(out) - 1)]

\* The head request is done: it moves to the completed queue and the watcher
\* is fed.
uv__write_req_finish(r) ==
  /\ wq' = Tail(wq)
  /\ cq' = Append(cq, r)
  /\ uv__io_feed

\* write() takes n bytes.  A finished request moves to the completed queue
\* and feeds the watcher; an unfinished one waits for POLLOUT.
WriteSome ==
  /\ Writing
  /\ wq # <<>> /\ peer \in {"open", "fin"} /\ Writable > 0
  /\ LET r == Head(wq)
     IN \E n \in 1 .. MinOf(r.len, Writable) :
          /\ out' = Written(r, n)
          /\ wqsize' = wqsize - n
          /\ IF n < r.len
             THEN /\ wq' = [wq EXCEPT ![1] = Advance(r, n)]
                  /\ uv__io_start("OUT")
                  /\ UNCHANGED <<cq, fed>>
             ELSE /\ uv__write_req_finish(Advance(r, n))
                  /\ UNCHANGED pevents
  /\ AfterWrite
  /\ UNCHANGED <<client, nread, flags, partial, heap, ev, count, proc>>

\* EAGAIN: wait for POLLOUT.
WriteAgain ==
  /\ Writing
  /\ wq # <<>> /\ peer \in {"open", "fin"} /\ Writable = 0
  /\ uv__io_start("OUT")
  /\ AfterWrite
  /\ UNCHANGED <<client, nread, out, flags, partial, fed, queues, ev, count,
                 proc>>

\* write() fails: the request completes with its error, POLLOUT is dropped.
WriteError ==
  /\ Writing
  /\ wq # <<>> /\ peer = "reset"
  /\ uv__write_req_finish(Fail(Head(wq)))
  /\ uv__io_stop("OUT")
  /\ AfterWrite
  /\ UNCHANGED <<client, nread, out, flags, partial, wqsize, heap, ev, count,
                 proc>>

\* write() on a reset connection also raises SIGPIPE, which main() leaves at
\* its inherited disposition.
Sigpipe ==
  /\ Writing
  /\ wq # <<>> /\ peer = "reset" /\ ~SigpipeIgnored
  /\ proc' = "killed"
  /\ UNCHANGED <<client, nread, out, flags, partial, pevents, fed, queues,
                 phase, pc, ev, count>>

-----------------------------------------------------------------------------
(* uv__write_callbacks and what follows it.                                *)

\* One completed request: write_cb frees the buffer and the request.
write_cb ==
  /\ In("callbacks")
  /\ cq # <<>>
  /\ cq' = Tail(cq)
  /\ wqsize' = wqsize - Head(cq).len
  /\ heap' = [heap EXCEPT ![Head(cq).buf] = 0]
  /\ UNCHANGED <<client, nread, out, flags, partial, pevents, fed, wq, phase,
                 pc, ev, count, proc>>

\* All callbacks made.  uv__stream_io drains an empty queue (POLLOUT stops)
\* and returns; uv__stream_destroy ends the closing phase.
CallbacksDone ==
  /\ In("callbacks")
  /\ cq = <<>>
  /\ IF hstate = "closed"
     THEN /\ pc' = "loop" /\ phase' = "pending"
          /\ UNCHANGED pevents
     ELSE /\ StreamIoReturn
          /\ IF wq = <<>> THEN uv__io_stop("OUT") ELSE UNCHANGED pevents
  /\ UNCHANGED <<client, nread, out, flags, partial, fed, queues, ev, count,
                 proc>>

uv__stream_flush_write_queue_skipped ==
  /\ In("flush")
  /\ pc' = "callbacks"
  /\ UNCHANGED <<client, nread, out, flags, partial, pevents, fed, queues,
                 phase, ev, count, proc>>

\* uv__stream_flush_write_queue: every queued request is cancelled.
uv__stream_flush_write_queue ==
  /\ In("flush")
  /\ IF wq # <<>>
     THEN /\ wq' = Tail(wq)
          /\ cq' = Append(cq, Fail(Head(wq)))
          /\ UNCHANGED pc
     ELSE /\ pc' = "callbacks"
          /\ UNCHANGED <<wq, cq>>
  /\ UNCHANGED <<client, nread, out, flags, partial, pevents, fed, wqsize,
                 heap, phase, ev, count, proc>>

-----------------------------------------------------------------------------
Client ==
  \/ ClientConnect \/ ClientSend \/ ClientRecv \/ ClientShutdown
  \/ ClientReset

Loop ==
  \/ uv__run_pending \/ on_new_connection \/ uv__io_poll
  \/ uv__io_poll_timeout \/ uv__run_closing_handles
  \/ ReadData \/ ReadAgain \/ ReadEnd \/ ReadStop \/ uv__stream_io_hup
  \/ WriteNothing \/ WriteSome \/ WriteAgain \/ WriteError \/ Sigpipe
  \/ write_cb \/ CallbacksDone \/ uv__stream_flush_write_queue

Next == Client \/ Loop

Spec == Init /\ [][Next]_vars

\* The loop thread keeps running and the client keeps reading its socket.
FairSpec == Spec /\ WF_vars(Loop) /\ WF_vars(ClientRecv)

-----------------------------------------------------------------------------
(* Properties.                                                             *)

\* Type correctness of the connection's state.
TypeOK ==
  /\ peer \in {"none", "open", "fin", "reset"}
  /\ sent \in Nat /\ nread \in 0 .. sent
  /\ out \in Seq(Nat) /\ consumed \in 0 .. Len(out)
  /\ hstate \in {"none", "open", "closing", "closed"}
  /\ reading \in BOOLEAN /\ partial \in BOOLEAN /\ fed \in BOOLEAN
  /\ pevents \in SUBSET {"IN", "OUT"}
  /\ wq \in Seq(Req) /\ cq \in Seq(Req)
  /\ wqsize \in Nat
  /\ heap \in [Buffers -> Nat]
  /\ phase \in {"pending", "poll", "closing"}
  /\ pc \in {"loop", "read", "inline", "hup", "write", "callbacks", "flush"}
  /\ ev \in SUBSET {"IN", "OUT", "HUP"}
  /\ count \in 0 .. ReadCount
  /\ proc \in {"running", "killed"}

\* What the server writes back is a prefix of what it read: the k-th byte
\* written is the k-th byte received, whatever the partial writes, the order
\* of the callbacks and the reuse of freed buffers (read_cb, uv__write).
EchoPrefix == \A i \in 1 .. Len(out) : out[i] = i

\* As long as the connection is not reset and not yet destroyed, every byte
\* read is either written or counted in write_queue_size: no partial write,
\* EAGAIN or completion loses or double counts a byte.
NoByteDropped ==
  peer # "reset" /\ hstate # "closed" => Len(out) + wqsize = nread

\* The requests of both queues own distinct allocated buffers, and nothing
\* else is allocated: write_cb's free_write_req never frees twice, a queued
\* write never reads a freed buffer, and closing the handle leaks none.
BufferOwnership ==
  /\ \A i, j \in DOMAIN wq : i # j => wq[i].buf # wq[j].buf
  /\ \A i, j \in DOMAIN cq : i # j => cq[i].buf # cq[j].buf
  /\ \A i \in DOMAIN cq, j \in DOMAIN wq : cq[i].buf # wq[j].buf
  /\ \A b \in Buffers :
       heap[b] # 0 <=> \/ \E i \in DOMAIN wq : wq[i].buf = b
                       \/ \E i \in DOMAIN cq : cq[i].buf = b

\* The assertions of uv__stream_io, uv__write, uv__write_req_size,
\* uv__drain and uv__stream_destroy hold whenever control reaches them.
AssertsHold ==
  /\ pc \in {"read", "inline", "hup", "write"} => hstate = "open"
  /\ pc \in {"inline", "write"} /\ wq # <<>> => wqsize >= wq[1].len
  /\ pc = "callbacks" /\ cq # <<>> => wqsize >= cq[1].len
  /\ pc = "callbacks" /\ cq = <<>> /\ hstate = "closed" => wqsize = 0
  /\ hstate \in {"closing", "closed"} => pevents = {} /\ ~fed

\* No lost wakeup: when the thread is back in the loop, a connection with
\* requests left has asked for POLLOUT or waits in the pending queue, although
\* uv__write leaves the next request to a later call.
NoLostWakeup ==
  hstate = "open" /\ pc = "loop" /\ (wq # <<>> \/ cq # <<>>)
    => "OUT" \in pevents \/ fed

\* The stream implements the abstract echo.
Abs == INSTANCE EchoAbs WITH
         received <- nread, echoed <- out, up <- hstate \in {"none", "open"}

\* Every step of the callbacks and of libuv is a step of the abstract echo or
\* leaves it unchanged.
ImplementsEcho == Abs!ASpec

\* A byte that reached the server is echoed unless the client hangs up:
\* POLLOUT, EAGAIN and the pending queue never strand a request.
EveryByteEchoed ==
  \A k \in 1 .. MaxBytes :
    sent >= k ~> Len(out) >= k \/ peer # "open" \/ proc = "killed"

\* Every write request gets its callback, as uv_write_cb of
\* libuv/docs/src/stream.rst has it: written, failed or cancelled, it leaves
\* both queues.
EveryWriteAnswered == (wq # <<>> \/ cq # <<>>) ~> (wq = <<>> /\ cq = <<>>)

\* Every write request gets its callback unless SIGPIPE kills the process: a
\* reset or a close between queueing and writing strands none.
WritesAnswered ==
  (wq # <<>> \/ cq # <<>>) ~> (wq = <<>> /\ cq = <<>>) \/ proc = "killed"

\* Once the client has hung up, its handle is closed and destroyed, with all
\* its buffers freed.
HandleDestroyed ==
  peer \in {"fin", "reset"}
    ~> \/ proc = "killed"
       \/ hstate = "closed" /\ pc = "loop" /\ \A b \in Buffers : heap[b] = 0
=============================================================================
