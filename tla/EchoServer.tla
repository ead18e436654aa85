------------------------------ MODULE EchoServer ------------------------------
(***************************************************************************)
(* The listening socket and all connections of the echo server on one      *)
(* libuv loop: main() and on_new_connection of server/main.cpp, the accept *)
(* loop of libuv/src/unix/stream.c with its answer to a full descriptor    *)
(* table, the watchers of core.c indexed by descriptor, and the epoll      *)
(* batches of linux-core.c.                                                *)
(*                                                                         *)
(* A connection attempt is an element of Conns and names its uv_tcp_t too. *)
(* What happens on one connection is EchoStream's subject; here reading is *)
(* one step that consumes what arrived, and a write either completes or    *)
(* waits for POLLOUT.                                                      *)
(***************************************************************************)
EXTENDS Integers, Sequences, FiniteSets, Functions

CONSTANTS
  Conns,          \* connection attempts
  FirstFd,        \* first descriptor the process has free when main starts
  MaxFd,          \* last descriptor its RLIMIT_NOFILE allows
  Backlog,        \* length of the accept queue (10 in main)
  MaxEvents,      \* ARRAY_SIZE(events) of uv__io_poll (1024)
  PollCount,      \* batches per uv__io_poll (48)
  MaxShortages    \* bound: times the system's file table fills up (ENFILE)

Listener == "listener"
Spare == "spare"
Free == "free"
Null == "null"
NoFd == -1
FDs == FirstFd .. MaxFd
Watchers == Conns \cup {Listener}

\* A bound on the tables of watchers considered.
LargestTable == 1048576

ASSUME ServerAssumption ==
  /\ FirstFd \in Nat /\ MaxFd \in Nat /\ FirstFd + 1 < MaxFd
  /\ MaxFd + 3 <= LargestTable
  /\ Backlog \in Nat \ {0} /\ MaxEvents \in Nat \ {0} /\ PollCount \in Nat \ {0}
  /\ MaxShortages \in Nat
  /\ Conns \cap {Listener, Spare, Free, Null} = {}

VARIABLES
  \* clients and kernel
  peer,     \* "idle", "queued", "up", "fin", "aborted", "refused"
  rx,       \* unread data on the server's socket
  room,     \* space in its send buffer
  backlog,  \* the listening socket's accept queue
  enfile,   \* how often the system's file table was filled or relieved
  file,     \* what each descriptor refers to
  epoll,    \* events the epoll set holds for each descriptor, {} if none
  \* the handles
  st,       \* "none", "open", "closing", "closed"
  fd,       \* io_watcher.fd
  owes,     \* the write queue is not empty
  \* the loop
  spare,    \* loop->emfile_fd
  loop,     \* pevents and events of each watcher, loop->watchers with its size
            \* nwatchers, nfds, and who is in loop->watcher_queue (the order in
            \* which epoll_ctl serves it does not matter)
  closing,  \* loop->closing_handles
  \* the loop thread
  pc, batch, i, nevents, count

clients == <<peer, rx, room>>
handles == <<st, fd, owes>>
polling == <<batch, i, nevents, count>>
vars == <<peer, rx, room, backlog, enfile, file, epoll, st, fd, owes, spare,
          loop, closing, pc, batch, i, nevents, count>>

-----------------------------------------------------------------------------
(* Watchers.                                                               *)

\* f is the descriptor the kernel hands out next.
IsLowestFree(F, f) ==
  /\ f \in FDs /\ F[f] = Free
  /\ \A g \in FDs : F[g] = Free => f <= g

Full(F) == \A f \in FDs : F[f] # Free

PowersOfTwo ==
  {1, 2, 4, 8, 16, 32, 64, 128, 256, 512, 1024, 2048, 4096, 8192, 16384, 32768,
   65536, 131072, 262144, 524288, 1048576}

next_power_of_two(n) ==
  CHOOSE p \in PowersOfTwo : p >= n /\ \A q \in PowersOfTwo : q >= n => p <= q

maybe_resize_late(nwatchers, len) ==
  IF len <= nwatchers + 1 THEN nwatchers ELSE next_power_of_two(len + 2) - 2

maybe_resize(nwatchers, len) ==
  IF len <= nwatchers THEN nwatchers ELSE next_power_of_two(len + 2) - 2

uv__io_start_queues_once(l, w, f, e) ==
  LET resized == [l EXCEPT !.pevents[w] = @ \cup {e},
                           !.nwatchers = maybe_resize(@, f + 1)]
  IN IF l.watchers[f] # Null
     THEN resized
     ELSE [resized EXCEPT !.queue = @ \cup {w}, !.watchers[f] = w,
                          !.nfds = @ + 1]

uv__io_start(l, w, f, e) ==
  LET pevents == l.pevents[w] \cup {e}
      resized == [l EXCEPT !.pevents[w] = pevents,
                           !.nwatchers = maybe_resize(@, f + 1)]
  IN IF l.events[w] = pevents
     THEN resized
     ELSE [resized EXCEPT
             !.queue = @ \cup {w},
             !.watchers[f] = IF @ = Null THEN w ELSE @,
             !.nfds = IF l.watchers[f] = Null THEN @ + 1 ELSE @]

uv__io_stop_keeps_watcher(l, w, f, es) ==
  LET pevents == l.pevents[w] \ es
  IN IF f = NoFd \/ f >= l.nwatchers THEN l
     ELSE [l EXCEPT !.pevents[w] = pevents,
                    !.events[w] = IF pevents = {} THEN {} ELSE @,
                    !.queue = IF pevents = {} THEN @ \ {w} ELSE @ \cup {w}]

uv__io_stop(l, w, f, es) ==
  LET pevents == l.pevents[w] \ es
      watched == l.watchers[f] # Null
  IN IF f = NoFd \/ f >= l.nwatchers THEN l
     ELSE IF pevents = {}
          THEN [l EXCEPT !.pevents[w] = {},
                         !.queue = @ \ {w},
                         !.watchers[f] = Null,
                         !.nfds = IF watched THEN @ - 1 ELSE @,
                         !.events[w] = IF watched THEN {} ELSE @]
          ELSE [l EXCEPT !.pevents[w] = pevents, !.queue = @ \cup {w}]

-----------------------------------------------------------------------------
Init ==
  /\ peer = [c \in Conns |-> "idle"]
  /\ rx = [c \in Conns |-> FALSE] /\ room = [c \in Conns |-> TRUE]
  /\ backlog = <<>> /\ enfile = 0
  /\ file = [f \in FDs |-> Free] /\ epoll = [f \in FDs |-> {}]
  /\ st = [c \in Conns |-> "none"] /\ fd = [w \in Watchers |-> NoFd]
  /\ owes = [c \in Conns |-> FALSE]
  /\ spare = NoFd /\ closing = <<>>
  /\ loop = [pevents |-> [w \in Watchers |-> {}],
             events |-> [w \in Watchers |-> {}],
             watchers |-> [f \in 0 .. MaxFd |-> Null],
             nwatchers |-> 0, nfds |-> 0, queue |-> {}]
  /\ pc = "main" /\ batch = <<>> /\ i = 1 /\ nevents = 0 /\ count = 0

-----------------------------------------------------------------------------
(* Clients and the rest of the system.                                     *)

server == <<enfile, file, epoll, handles, spare, loop, closing, pc, polling>>

ClientConnect(c) ==
  /\ pc \notin {"main", "exited"}
  /\ peer[c] = "idle" /\ Len(backlog) < Backlog
  /\ peer' = [peer EXCEPT ![c] = "queued"]
  /\ backlog' = Append(backlog, c)
  /\ UNCHANGED <<rx, room, server>>

\* The client gives up before accept() has taken its connection.
ClientAbort(c) ==
  /\ peer[c] = "queued"
  /\ peer' = [peer EXCEPT ![c] = "aborted"]
  /\ UNCHANGED <<rx, room, backlog, server>>

ClientSend(c) ==
  /\ peer[c] = "up" /\ ~rx[c]
  /\ rx' = [rx EXCEPT ![c] = TRUE]
  /\ UNCHANGED <<peer, room, backlog, server>>

ClientRecv(c) ==
  /\ peer[c] \in {"up", "fin"} /\ ~room[c]
  /\ room' = [room EXCEPT ![c] = TRUE]
  /\ UNCHANGED <<peer, rx, backlog, server>>

ClientFin(c) ==
  /\ peer[c] = "up"
  /\ peer' = [peer EXCEPT ![c] = "fin"]
  /\ UNCHANGED <<rx, room, backlog, server>>

\* open() and accept() fail with ENFILE.
Enfile == enfile % 2 = 1

\* Other processes fill or empty the system's file table.
SystemFiles ==
  /\ enfile < 2 * MaxShortages
  /\ enfile' = enfile + 1
  /\ UNCHANGED <<clients, backlog, file, epoll, handles, spare, loop, closing,
                 pc, polling>>

-----------------------------------------------------------------------------
(* main() and the phases of uv_run.                                        *)

\* uv_tcp_init opens the spare descriptor, uv_tcp_bind the socket, and
\* uv_listen starts its watcher.  If the port is taken bind's error is kept
\* for uv_listen, and main returns.
main ==
  /\ pc = "main"
  /\ spare' = FirstFd
  /\ file' = [file EXCEPT ![FirstFd] = Spare, ![FirstFd + 1] = Listener]
  /\ fd' = [fd EXCEPT ![Listener] = FirstFd + 1]
  /\ \/ /\ loop' = uv__io_start(loop, Listener, FirstFd + 1, "IN")
        /\ pc' = "poll"
     \/ /\ pc' = "exited"
        /\ UNCHANGED loop
  /\ UNCHANGED <<clients, backlog, enfile, epoll, st, owes, closing, polling>>

\* uv__io_poll registers the queued watchers.
epoll_ctl ==
  /\ pc = "poll"
  /\ epoll' = [f \in FDs |->
       IF \E w \in loop.queue : fd[w] = f
       THEN loop.pevents[CHOOSE w \in loop.queue : fd[w] = f]
       ELSE epoll[f]]
  /\ loop' = [loop EXCEPT
       !.events = [w \in Watchers |-> IF w \in loop.queue
                                      THEN loop.pevents[w] ELSE @[w]],
       !.queue = {}]
  /\ pc' = "wait" /\ count' = PollCount
  /\ UNCHANGED <<clients, backlog, enfile, file, handles, spare, closing,
                 batch, i, nevents>>

\* The events the socket behind descriptor f has.
Level(f) ==
  IF file[f] = Listener
  THEN IF backlog # <<>> THEN {"IN"} ELSE {}
  ELSE IF file[f] \in Conns
       THEN (IF rx[file[f]] \/ peer[file[f]] = "fin" THEN {"IN"} ELSE {})
              \cup (IF room[file[f]] THEN {"OUT"} ELSE {})
       ELSE {}

Reported == {f \in FDs : epoll[f] \cap Level(f) # {}}

\* epoll_wait fills the array, in any order.  "who" is the socket the event
\* came from; the code does not see it.
epoll_wait ==
  /\ pc = "wait"
  /\ Reported # {}
  /\ \E S \in SUBSET Reported :
       /\ Cardinality(S) <= MaxEvents
       /\ S # Reported => Cardinality(S) = MaxEvents
       /\ \E q \in Bijection(1 .. Cardinality(S), S) :
            batch' = [k \in DOMAIN q |->
                        [fd |-> q[k], ev |-> epoll[q[k]] \cap Level(q[k]),
                         who |-> file[q[k]]]]
  /\ pc' = "dispatch" /\ i' = 1 /\ nevents' = 0
  /\ UNCHANGED <<clients, backlog, enfile, file, epoll, handles, spare, loop,
                 closing, count>>

\* Nothing happened until the timer of main is due.
epoll_timeout ==
  /\ pc = "wait"
  /\ Reported = {}
  /\ pc' = "closing"
  /\ UNCHANGED <<clients, backlog, enfile, file, epoll, handles, spare, loop,
                 closing, polling>>

\* The batch is done: a full one is followed by another wait, and so is one
\* that called no watcher unless the time is up.
BatchDone ==
  /\ pc = "dispatch" /\ i > Len(batch)
  /\ IF nevents # 0
     THEN IF Len(batch) = MaxEvents /\ count > 1
          THEN pc' = "wait" /\ count' = count - 1
          ELSE pc' = "closing" /\ UNCHANGED count
     ELSE pc' \in {"wait", "closing"} /\ UNCHANGED count
  /\ batch' = <<>> /\ i' = 1
  /\ UNCHANGED <<clients, backlog, enfile, file, epoll, handles, spare, loop,
                 closing, nevents>>

\* uv__finish_close for every handle of the list; main gave no close_cb.
uv__run_closing_handles ==
  /\ pc = "closing"
  /\ st' = [c \in Conns |-> IF c \in Range(closing) THEN "closed" ELSE st[c]]
  /\ owes' = [c \in Conns |-> owes[c] /\ c \notin Range(closing)]
  /\ closing' = <<>>
  /\ pc' = "poll"
  /\ UNCHANGED <<clients, backlog, enfile, file, epoll, fd, spare, loop,
                 polling>>

-----------------------------------------------------------------------------
(* One event of the batch.                                                 *)

Event == batch[i]
Watcher == loop.watchers[Event.fd]
Wanted == Event.ev \cap loop.pevents[Watcher]

Dispatching == pc = "dispatch" /\ i <= Len(batch)

Unwanted ==
  IF Event.fd = NoFd THEN TRUE
  ELSE IF Watcher = Null THEN TRUE ELSE Wanted = {}

\* The event was invalidated, nobody watches the descriptor any more (it is
\* then removed from the epoll set) or the watcher does not want the event.
SkipEvent ==
  /\ Dispatching /\ Unwanted
  /\ epoll' = [f \in FDs |-> IF f = Event.fd /\ Watcher = Null
                             THEN {} ELSE epoll[f]]
  /\ i' = i + 1
  /\ UNCHANGED <<clients, backlog, enfile, file, handles, spare, loop, closing,
                 pc, batch, nevents, count>>

uv__server_io_stops ==
  /\ Dispatching
  /\ Event.fd # NoFd /\ Watcher = Listener /\ Wanted # {}
  /\ loop' = uv__io_stop(loop, Listener, fd[Listener], {"IN"})
  /\ nevents' = nevents + 1
  /\ pc' = "accept"
  /\ UNCHANGED <<clients, backlog, enfile, file, epoll, handles, spare,
                 closing, batch, i, count>>

\* The loop calls uv__server_io.
uv__server_io ==
  /\ Dispatching
  /\ Event.fd # NoFd /\ Watcher = Listener /\ Wanted # {}
  /\ loop' = uv__io_start(loop, Listener, fd[Listener], "IN")
  /\ nevents' = nevents + 1
  /\ pc' = "accept"
  /\ UNCHANGED <<clients, backlog, enfile, file, epoll, handles, spare,
                 closing, batch, i, count>>

\* The loop calls uv__stream_io of an open connection.
StreamIo(c, e) ==
  /\ Dispatching
  /\ Event.fd # NoFd /\ Watcher = c /\ e \in Wanted
  /\ nevents' = nevents + 1

NextEvent == i' = i + 1 /\ UNCHANGED <<pc, count>>

uv__platform_invalidate_fd(f) ==
  batch' = [k \in DOMAIN batch |->
              IF batch[k].fd = f THEN [batch[k] EXCEPT !.fd = NoFd]
                                 ELSE batch[k]]

\* uv__read finds data: read_cb echoes it with uv_write, which writes at once
\* only if nothing was queued; uv__stream_io then serves POLLOUT.  What the
\* socket does not take waits for POLLOUT.
StreamRead(c) ==
  /\ StreamIo(c, "IN") /\ rx[c]
  /\ rx' = [rx EXCEPT ![c] = FALSE]
  /\ LET tried == ~owes[c] \/ "OUT" \in Wanted
     IN \/ /\ tried /\ room[c]
           /\ owes' = [owes EXCEPT ![c] = FALSE]
           /\ loop' = IF owes[c] THEN uv__io_stop(loop, c, fd[c], {"OUT"})
                                 ELSE loop
           /\ UNCHANGED room
        \/ /\ room' = [room EXCEPT ![c] = @ /\ ~tried]
           /\ owes' = [owes EXCEPT ![c] = TRUE]
           /\ loop' = uv__io_start(loop, c, fd[c], "OUT")
  /\ NextEvent
  /\ UNCHANGED <<peer, backlog, enfile, file, epoll, st, fd, spare, closing,
                 batch>>

uv_close_leaks(c) ==
  /\ loop' = uv__io_stop(loop, c, fd[c], {"IN", "OUT"})
  /\ uv__platform_invalidate_fd(fd[c])
  /\ epoll' = [epoll EXCEPT ![fd[c]] = {}]
  /\ fd' = [fd EXCEPT ![c] = NoFd]
  /\ st' = [st EXCEPT ![c] = "closing"]
  /\ closing' = <<c>> \o closing
  /\ UNCHANGED file

uv_close_not_pending(c) ==
  /\ loop' = uv__io_stop(loop, c, fd[c], {"IN", "OUT"})
  /\ uv__platform_invalidate_fd(fd[c])
  /\ epoll' = [epoll EXCEPT ![fd[c]] = {}]
  /\ file' = [file EXCEPT ![fd[c]] = Free]
  /\ fd' = [fd EXCEPT ![c] = NoFd]
  /\ st' = [st EXCEPT ![c] = "closing"]
  /\ UNCHANGED closing

\* uv_close: the watcher stops (uv__io_close, then uv_read_stop), its events
\* are invalidated, the descriptor leaves the epoll set and is closed, the
\* handle joins the closing list.
uv_close(c) ==
  /\ loop' = uv__io_stop(uv__io_stop(loop, c, fd[c], {"IN", "OUT"}),
                         c, fd[c], {"IN"})
  /\ uv__platform_invalidate_fd(fd[c])
  /\ epoll' = [epoll EXCEPT ![fd[c]] = {}]
  /\ file' = [file EXCEPT ![fd[c]] = Free]
  /\ fd' = [fd EXCEPT ![c] = NoFd]
  /\ st' = [st EXCEPT ![c] = "closing"]
  /\ closing' = <<c>> \o closing

\* uv__read finds the end of the stream: read_cb closes the handle.
StreamEof(c) ==
  /\ StreamIo(c, "IN") /\ ~rx[c] /\ peer[c] = "fin"
  /\ uv_close(c)
  /\ NextEvent
  /\ UNCHANGED <<clients, backlog, enfile, owes, spare>>

\* uv__write finishes the queue.
StreamWrite(c) ==
  /\ StreamIo(c, "OUT") /\ "IN" \notin Wanted
  /\ owes' = [owes EXCEPT ![c] = FALSE]
  /\ loop' = uv__io_stop(loop, c, fd[c], {"OUT"})
  /\ NextEvent
  /\ UNCHANGED <<clients, backlog, enfile, file, epoll, st, fd, spare, closing,
                 batch>>

-----------------------------------------------------------------------------
(* The accept loop of uv__server_io, one step per system call.             *)

Accepting == pc = "accept"

ServerIoReturn == pc' = "dispatch" /\ i' = i + 1

\* Opens the spare descriptor again if it is missing and one can be had.
OpenSpare(F) ==
  IF spare = NoFd /\ ~Enfile /\ ~Full(F)
  THEN \E g \in FDs : /\ IsLowestFree(F, g)
                      /\ spare' = g
                      /\ file' = [F EXCEPT ![g] = Spare]
  ELSE spare' = spare /\ file' = F

\* accept() gives a connection.  on_new_connection makes its handle
\* (uv_tcp_init sees to the spare descriptor), takes the descriptor with
\* uv_accept, which starts the listener's watcher again, and starts reading.
on_new_connection ==
  /\ Accepting /\ ~Full(file) /\ ~Enfile
  /\ backlog # <<>> /\ peer[Head(backlog)] = "queued"
  /\ LET c == Head(backlog)
     IN \E f \in FDs :
          /\ IsLowestFree(file, f)
          /\ OpenSpare([file EXCEPT ![f] = c])
          /\ fd' = [fd EXCEPT ![c] = f]
          /\ st' = [st EXCEPT ![c] = "open"]
          /\ peer' = [peer EXCEPT ![c] = "up"]
          /\ loop' = uv__io_start(
                       uv__io_start(loop, Listener, fd[Listener], "IN"),
                       c, f, "IN")
  /\ backlog' = Tail(backlog)
  /\ UNCHANGED <<rx, room, enfile, epoll, owes, closing, pc, polling>>

\* ECONNABORTED is ignored.
AcceptAborted ==
  /\ Accepting /\ ~Full(file) /\ ~Enfile
  /\ backlog # <<>> /\ peer[Head(backlog)] = "aborted"
  /\ backlog' = Tail(backlog)
  /\ UNCHANGED <<clients, server>>

\* EAGAIN ends the loop.
AcceptAgain ==
  /\ Accepting /\ ~Full(file) /\ ~Enfile
  /\ backlog = <<>>
  /\ ServerIoReturn
  /\ UNCHANGED <<clients, backlog, enfile, file, epoll, handles, spare, loop,
                 closing, batch, nevents, count>>

\* EMFILE or ENFILE, which the kernel finds before it looks at the queue, with
\* no spare descriptor: on_new_connection logs the error and the loop goes on.
AcceptFails ==
  /\ Accepting /\ (Full(file) \/ Enfile)
  /\ spare = NoFd
  /\ UNCHANGED vars

uv__emfile_trick_any_error ==
  /\ Accepting /\ (Full(file) \/ Enfile \/ backlog = <<>>)
  /\ spare # NoFd
  /\ file' = [file EXCEPT ![spare] = Free]
  /\ spare' = NoFd
  /\ pc' = "trick"
  /\ UNCHANGED <<clients, backlog, enfile, epoll, handles, loop, closing,
                 polling>>

\* EMFILE or ENFILE: uv__emfile_trick closes the spare descriptor.
uv__emfile_trick ==
  /\ Accepting /\ (Full(file) \/ Enfile)
  /\ spare # NoFd
  /\ file' = [file EXCEPT ![spare] = Free]
  /\ spare' = NoFd
  /\ pc' = "trick"
  /\ UNCHANGED <<clients, backlog, enfile, epoll, handles, loop, closing,
                 polling>>

\* The trick accepts a connection and closes it.
TrickAccept ==
  /\ pc = "trick" /\ ~Enfile /\ backlog # <<>>
  /\ peer' = [peer EXCEPT ![Head(backlog)] =
                IF @ = "queued" THEN "refused" ELSE @]
  /\ backlog' = Tail(backlog)
  /\ pc' = IF peer[Head(backlog)] = "aborted" THEN "reopen_error" ELSE pc
  /\ UNCHANGED <<rx, room, enfile, file, epoll, handles, spare, loop, closing,
                 polling>>

\* accept() fails and ends the trick's loop.
TrickDone ==
  /\ pc = "trick" /\ (Enfile \/ backlog = <<>>)
  /\ pc' = IF Enfile THEN "reopen_error" ELSE "reopen_again"
  /\ UNCHANGED <<clients, backlog, enfile, file, epoll, handles, spare, loop,
                 closing, polling>>

\* The spare descriptor is opened again.  EAGAIN ends uv__server_io; after
\* another error on_new_connection logs it and the accept loop goes on.
TrickReopen ==
  /\ pc \in {"reopen_again", "reopen_error"}
  /\ OpenSpare(file)
  /\ IF pc = "reopen_again" THEN ServerIoReturn
                            ELSE pc' = "accept" /\ UNCHANGED i
  /\ UNCHANGED <<clients, backlog, enfile, epoll, handles, loop, closing, batch,
                 nevents, count>>

-----------------------------------------------------------------------------
Client(c) ==
  \/ ClientConnect(c) \/ ClientAbort(c) \/ ClientSend(c) \/ ClientRecv(c)
  \/ ClientFin(c)

LoopThread ==
  \/ main \/ epoll_ctl \/ epoll_wait \/ epoll_timeout \/ BatchDone
  \/ uv__run_closing_handles \/ SkipEvent \/ uv__server_io
  \/ \E c \in Conns : StreamRead(c) \/ StreamEof(c) \/ StreamWrite(c)
  \/ on_new_connection \/ AcceptAborted \/ AcceptAgain \/ AcceptFails
  \/ uv__emfile_trick \/ TrickAccept \/ TrickDone \/ TrickReopen

Next == SystemFiles \/ (\E c \in Conns : Client(c)) \/ LoopThread

Spec == Init /\ [][Next]_vars

\* The loop thread keeps running.
FairSpec == Spec /\ WF_vars(LoopThread)

-----------------------------------------------------------------------------
(* Properties.                                                             *)

\* Every descriptor the process has open is the spare one, the listener's or
\* that of exactly one open connection, and everybody who holds a number holds
\* an open descriptor: accept, uv_close and the trick of uv__emfile_trick
\* neither leak a descriptor nor leave its number with two owners.
DescriptorsOwned ==
  /\ \A f \in FDs :
       /\ file[f] = Spare <=> spare = f
       /\ \A w \in Watchers : file[f] = w <=> fd[w] = f
  /\ \A c \in Conns : fd[c] # NoFd <=> st[c] = "open"

\* loop->watchers, nfds and the watcher queue describe the open handles: a
\* descriptor's entry is the watcher that holds the descriptor now, although
\* numbers are reused as soon as they are closed.
WatcherTable ==
  /\ \A f \in FDs, w \in Watchers :
       loop.watchers[f] = w <=> fd[w] = f /\ loop.pevents[w] # {}
  /\ loop.nfds = Cardinality({f \in 0 .. MaxFd : loop.watchers[f] # Null})
  /\ \A w \in Watchers :
       w \in loop.queue => loop.pevents[w] # {} /\ fd[w] # NoFd

\* The table of watchers describes the open handles, and when the loop blocks
\* the kernel watches every open connection and the listener, for output exactly
\* if the connection owes some: no update of the epoll set was skipped by the
\* comparison of events and pevents, the queue or the reuse of a descriptor.
KernelWatches ==
  /\ WatcherTable
  /\ pc = "wait" /\ loop.queue = {} =>
       /\ epoll[fd[Listener]] = {"IN"}
       /\ \A c \in Conns : st[c] = "open" =>
            epoll[fd[c]] = IF owes[c] THEN {"IN", "OUT"} ELSE {"IN"}

\* An event is given to the connection it happened on, or to nobody: closing
\* one connection and accepting another on its number within one batch never
\* confuses the two (uv__platform_invalidate_fd, uv__io_stop).
EventsReachOwner ==
  Dispatching /\ Event.fd # NoFd => Watcher \in {Event.who, Null}

\* The assertions of uv__server_io, uv__io_stop and uv__finish_close, and the
\* calls of epoll_ctl whose failure aborts, whenever control reaches them.
AssertsHold ==
  /\ Dispatching /\ Event.fd # NoFd => Event.fd < loop.nwatchers
  /\ pc = "accept" => fd[Listener] # NoFd
  /\ pc = "poll" => \A w \in loop.queue :
       loop.events[w] # {} => epoll[fd[w]] # {}
  /\ \A c \in Range(closing) : st[c] = "closing"
  /\ \A k, m \in DOMAIN closing : k # m => closing[k] # closing[m]

\* A client is turned away only when the process has no descriptor left for
\* it: all numbers but the spare and the listener's belong to connections.
RefusedOnlyWhenFull ==
  [][\A c \in Conns :
       peer[c] = "queued" /\ peer'[c] = "refused" /\ enfile = 0
         => Cardinality({d \in Conns : st[d] = "open"}) = MaxFd - FirstFd - 1]_vars

\* Unless the system runs out of files, a connection in the accept queue is
\* taken from it, even when the process has no descriptors left.
QueueServed ==
  \A c \in Conns :
    c \in Range(backlog) ~> c \notin Range(backlog) \/ enfile > 0

\* A client that hung up has its handle closed for good and its descriptor
\* returned, unless a shortage of files holds up the accept loop.
HangupReleases ==
  \A c \in Conns :
    peer[c] = "fin" ~> \/ st[c] = "closed" /\ \A f \in FDs : file[f] # c
                      \/ enfile > 0
=============================================================================
