--------------------------- MODULE EchoServerProofs ---------------------------
(***************************************************************************)
(* Descriptors and events keep their owners, for any number of connections *)
(* and descriptors, any backlog and any size of the epoll batches.         *)
(***************************************************************************)
EXTENDS EchoServer, FiniteSetTheorems, TLAPS

\* What is needed of the loop's fields: the table of watchers covers every
\* entry in use.
LoopShape(l) ==
  /\ l = [k \in {"pevents", "events", "watchers", "nwatchers", "nfds", "queue"} |-> l[k]]
  /\ l.pevents \in [Watchers -> SUBSET {"IN", "OUT"}]
  /\ l.watchers \in [0 .. MaxFd -> Watchers \cup {Null}]
  /\ l.nwatchers \in Nat
  /\ \A f \in 0 .. MaxFd : l.watchers[f] # Null => f < l.nwatchers

\* next_power_of_two is large enough for the sizes maybe_resize asks for.
LEMMA PowerEnough ==
  ASSUME NEW n \in Nat, n <= LargestTable
  PROVE  next_power_of_two(n) \in Nat /\ next_power_of_two(n) >= n
<1> DEFINE P(p) == p >= n /\ \A q \in PowersOfTwo : q >= n => p <= q
<1>1. \E p \in PowersOfTwo : P(p)
  BY SMT DEF PowersOfTwo, LargestTable
<1>2. next_power_of_two(n) \in PowersOfTwo /\ P(next_power_of_two(n))
  BY <1>1, Zenon DEF next_power_of_two
<1> QED
  BY <1>2, SMT DEF PowersOfTwo

\* maybe_resize never shrinks the table and makes room for len entries.
LEMMA ResizeEnough ==
  ASSUME NEW n \in Nat, NEW f \in 0 .. MaxFd
  PROVE  LET m == maybe_resize(n, f + 1)
         IN m \in Nat /\ m >= n /\ f < m
<1>1. f \in Nat /\ f + 3 \in Nat /\ f + 3 <= LargestTable
  BY ServerAssumption, SMT DEF LargestTable
<1>2. next_power_of_two(f + 3) \in Nat /\ next_power_of_two(f + 3) >= f + 3
  BY <1>1, PowerEnough, Zenon
<1>3. f + 1 + 2 = f + 3
  BY <1>1
<1> QED
  BY <1>1, <1>2, <1>3 DEF maybe_resize

\* uv__io_start puts a watcher only into an empty entry, its own descriptor's.
LEMMA IoStartEffect ==
  ASSUME NEW l, LoopShape(l), NEW w \in Watchers, NEW f \in 0 .. MaxFd,
         NEW e \in {"IN", "OUT"}
  PROVE  LET m == uv__io_start(l, w, f, e)
         IN /\ LoopShape(m)
            /\ \A g \in 0 .. MaxFd : g # f => m.watchers[g] = l.watchers[g]
            /\ m.watchers[f] \in {l.watchers[f], w}
<1> DEFINE m == uv__io_start(l, w, f, e)
<1> DEFINE r == maybe_resize(l.nwatchers, f + 1)
<1>1. r \in Nat /\ r >= l.nwatchers /\ f < r
  BY ResizeEnough, Zenon DEF LoopShape
<1>2. m = [k \in {"pevents", "events", "watchers", "nwatchers", "nfds", "queue"} |-> m[k]]
  BY ZenonT(30) DEF LoopShape, uv__io_start
<1>3. m.pevents = [l.pevents EXCEPT ![w] = l.pevents[w] \cup {e}]
  BY Zenon DEF LoopShape, uv__io_start
<1>4. m.nwatchers = r
  BY Zenon DEF LoopShape, uv__io_start
<1>5. m.watchers \in {l.watchers,
        [l.watchers EXCEPT ![f] = IF l.watchers[f] = Null THEN w ELSE l.watchers[f]]}
  BY Zenon DEF LoopShape, uv__io_start
<1> HIDE DEF m, r
<1>6. m.watchers \in [0 .. MaxFd -> Watchers \cup {Null}]
  BY <1>5, ZenonT(30) DEF LoopShape
<1>7. \A g \in 0 .. MaxFd : g # f => m.watchers[g] = l.watchers[g]
  BY <1>5, ZenonT(30) DEF LoopShape
<1>8. m.watchers[f] \in {l.watchers[f], w}
  BY <1>5, Zenon DEF LoopShape
<1>9. \A g \in 0 .. MaxFd : m.watchers[g] # Null => g < m.nwatchers
  BY <1>1, <1>4, <1>7 DEF LoopShape
<1>10. m.pevents \in [Watchers -> SUBSET {"IN", "OUT"}]
  BY <1>3, ZenonT(40) DEF LoopShape
<1>11. LoopShape(m)
  BY <1>1, <1>2, <1>4, <1>6, <1>9, <1>10, Zenon DEF LoopShape
<1> QED
  BY <1>7, <1>8, <1>11, Zenon DEF m

\* uv__io_stop changes no entry but that of the descriptor, which it may clear.
LEMMA IoStopEffect ==
  ASSUME NEW l, LoopShape(l), NEW w \in Watchers, NEW f \in 0 .. MaxFd, NEW es
  PROVE  LET m == uv__io_stop(l, w, f, es)
         IN /\ LoopShape(m)
            /\ \A g \in 0 .. MaxFd : g # f => m.watchers[g] = l.watchers[g]
            /\ m.watchers[f] \in {l.watchers[f], Null}
            /\ l.watchers[f] # Null /\ l.pevents[w] \subseteq es
                 => m.watchers[f] = Null
<1> DEFINE m == uv__io_stop(l, w, f, es)
<1> DEFINE pevents == l.pevents[w] \ es
<1>1. f # NoFd /\ f \in Int /\ l.nwatchers \in Int
  BY ServerAssumption DEF NoFd, LoopShape
<1>2. m = [k \in {"pevents", "events", "watchers", "nwatchers", "nfds", "queue"} |-> m[k]]
  BY ZenonT(30) DEF LoopShape, uv__io_stop
<1>3. m.pevents \in {l.pevents, [l.pevents EXCEPT ![w] = {}],
                     [l.pevents EXCEPT ![w] = pevents]}
  BY Zenon DEF LoopShape, uv__io_stop
<1>4. m.nwatchers = l.nwatchers
  BY Zenon DEF LoopShape, uv__io_stop
<1>5. m.watchers \in {l.watchers, [l.watchers EXCEPT ![f] = Null]}
  BY Zenon DEF LoopShape, uv__io_stop
<1>6. f < l.nwatchers /\ pevents = {} => m.watchers = [l.watchers EXCEPT ![f] = Null]
  BY <1>1 DEF LoopShape, uv__io_stop
<1> HIDE DEF m
<1>7. m.watchers \in [0 .. MaxFd -> Watchers \cup {Null}]
  BY <1>5, ZenonT(30) DEF LoopShape
<1>8. \A g \in 0 .. MaxFd : g # f => m.watchers[g] = l.watchers[g]
  BY <1>5, ZenonT(30) DEF LoopShape
<1>9. m.watchers[f] \in {l.watchers[f], Null}
  BY <1>5, Zenon DEF LoopShape
<1>10. \A g \in 0 .. MaxFd : m.watchers[g] # Null => g < m.nwatchers
  BY <1>4, <1>8, <1>9, Zenon DEF LoopShape
<1>11. l.pevents[w] \in SUBSET {"IN", "OUT"} /\ pevents \in SUBSET {"IN", "OUT"}
  BY Zenon DEF LoopShape
<1>12. m.pevents \in [Watchers -> SUBSET {"IN", "OUT"}]
  BY <1>3, <1>11, Zenon DEF LoopShape
<1>13. LoopShape(m)
  BY <1>2, <1>4, <1>7, <1>10, <1>12, Zenon DEF LoopShape
<1>14. l.watchers[f] # Null /\ l.pevents[w] \subseteq es => m.watchers[f] = Null
  BY <1>6, ZenonT(30) DEF LoopShape
<1> QED
  BY <1>8, <1>9, <1>13, <1>14, Zenon DEF m

-----------------------------------------------------------------------------
(* The inductive invariant.                                                *)

Types ==
  /\ file \in [FDs -> Watchers \cup {Spare, Free}]
  /\ fd \in [Watchers -> FDs \cup {NoFd}]
  /\ spare \in FDs \cup {NoFd}
  /\ st \in [Conns -> {"none", "open", "closing", "closed"}]
  /\ peer \in [Conns -> {"idle", "queued", "up", "fin", "aborted", "refused"}]
  /\ backlog \in Seq(Conns)
  /\ closing \in Seq(Conns)
  /\ LoopShape(loop)
  /\ i \in Nat \ {0}

\* An entry of loop->watchers is a watcher that holds this descriptor.
TableOwned ==
  \A f \in FDs, w \in Watchers : loop.watchers[f] = w => fd[w] = f

\* An event of the batch that was not invalidated is for a descriptor that
\* has not been closed since epoll_wait.
BatchCurrent ==
  /\ batch \in Seq([fd : FDs \cup {NoFd}, ev : SUBSET {"IN", "OUT"},
                     who : Watchers \cup {Spare, Free}])
  /\ \A k \in 1 .. Len(batch) : batch[k].fd # NoFd =>
       batch[k].who \in Watchers /\ file[batch[k].fd] = batch[k].who

\* A client in the accept queue has no handle yet, and handles on the closing
\* list have given up their descriptors.
HandlesFresh ==
  /\ \A c \in Conns : peer[c] \in {"idle", "queued"} => st[c] = "none"
  /\ \A c \in Range(closing) : st[c] = "closing"

\* Before main() nothing is open; afterwards the listener is.
Started ==
  /\ pc = "main" => /\ \A f \in FDs : file[f] = Free /\ loop.watchers[f] = Null
                    /\ \A w \in Watchers : fd[w] = NoFd
                    /\ batch = <<>>
  /\ pc # "main" => fd[Listener] \in FDs

IInv ==
  /\ Types /\ DescriptorsOwned /\ TableOwned /\ BatchCurrent /\ HandlesFresh
  /\ Started

\* Nothing is open before main().
LEMMA InitHolds == Init => IInv
<1> SUFFICES ASSUME Init PROVE IInv
  BY Zenon
<1>1. FDs \subseteq 0 .. MaxFd /\ FDs \subseteq Nat
  BY ServerAssumption DEF FDs
<1>2. LoopShape(loop)
  BY ZenonT(30) DEF Init, LoopShape
<1>3. Types
  BY <1>2 DEF Init, Types
<1>4. Null \notin Watchers /\ Free \notin Watchers /\ Free # Spare /\ NoFd \notin FDs
  BY <1>1, ServerAssumption DEF Null, Free, Spare, Listener, NoFd, Watchers
<1>5. DescriptorsOwned
  BY <1>4, Zenon DEF Init, DescriptorsOwned, Watchers
<1>6. TableOwned
  BY <1>1, <1>4, Zenon DEF Init, TableOwned
<1>7. BatchCurrent
  BY DEF Init, BatchCurrent
<1>8. HandlesFresh
  BY DEF Init, HandlesFresh, Range
<1>9. Started
  BY <1>1, Zenon DEF Init, Started
<1> QED BY <1>3, <1>5, <1>6, <1>7, <1>8, <1>9, Zenon DEF IInv

-----------------------------------------------------------------------------
(* Steps that open and close nothing.                                      *)

\* What Listener, Spare, Free and Null stand for is told apart, and no
\* descriptor is -1.
LEMMA Names ==
  /\ FDs \subseteq 0 .. MaxFd /\ NoFd \notin FDs
  /\ Null \notin Watchers /\ Free \notin Watchers /\ Spare \notin Watchers
  /\ Free # Spare /\ Listener \in Watchers /\ Conns \subseteq Watchers
  /\ Listener \notin Conns
BY ServerAssumption DEF FDs, NoFd, Null, Free, Spare, Listener, Watchers

\* Such a step keeps the invariant if the table of watchers stays owned and no
\* client goes back to the accept queue.
LEMMA QuietKeeps ==
  ASSUME IInv, UNCHANGED <<file, fd, spare, st, closing, batch>>,
         LoopShape(loop'), TableOwned',
         peer' \in [Conns -> {"idle", "queued", "up", "fin", "aborted", "refused"}],
         \A c \in Conns : peer'[c] \in {"idle", "queued"} =>
                           peer[c] \in {"idle", "queued"},
         backlog' \in Seq(Conns), i' \in Nat \ {0},
         pc' = "main" <=> pc = "main", pc = "main" => loop' = loop
  PROVE  IInv'
<1>1. Types'
  BY Zenon DEF IInv, Types
<1>2. DescriptorsOwned'
  BY DEF IInv, DescriptorsOwned
<1>3. BatchCurrent'
  BY Zenon DEF IInv, BatchCurrent
<1>4. HandlesFresh'
  BY Zenon DEF IInv, HandlesFresh
<1>5. Started'
  BY Zenon DEF IInv, Started
<1> QED BY <1>1, <1>2, <1>3, <1>4, <1>5, Zenon DEF IInv

\* The clients.
LEMMA ClientKeeps ==
  ASSUME IInv, NEW c \in Conns, Client(c)
  PROVE  IInv'
<1>1. UNCHANGED <<file, fd, spare, st, closing, batch, loop, i, pc>>
  BY Zenon DEF Client, ClientConnect, ClientAbort, ClientSend, ClientRecv, ClientFin,
         server, handles, polling
<1>2. peer' \in [Conns -> {"idle", "queued", "up", "fin", "aborted", "refused"}]
  BY Zenon DEF IInv, Types, Client, ClientConnect, ClientAbort, ClientSend, ClientRecv,
         ClientFin, clients
<1>3. \A d \in Conns : peer'[d] \in {"idle", "queued"} =>
                        peer[d] \in {"idle", "queued"}
  BY Zenon DEF IInv, Types, Client, ClientConnect, ClientAbort, ClientSend, ClientRecv,
         ClientFin, clients
<1>4. backlog' \in Seq(Conns)
  <2>1. backlog' = backlog \/ backlog' = Append(backlog, c)
    BY Zenon DEF Client, ClientConnect, ClientAbort, ClientSend, ClientRecv, ClientFin
  <2>2. backlog \in Seq(Conns)
    BY Zenon DEF IInv, Types
  <2> QED BY <2>1, <2>2
<1>5. LoopShape(loop')
  BY <1>1, Zenon DEF IInv, Types
<1>6. TableOwned' /\ i' \in Nat \ {0}
  BY <1>1, Zenon DEF IInv, Types, TableOwned
<1> QED
  BY <1>1, <1>2, <1>3, <1>4, <1>5, <1>6, QuietKeeps, Zenon

\* Registering the watchers, the end of a wait, skipped events, the accept
\* loop where it gets no descriptor, and the other processes' files.
LEMMA LoopQuietKeeps ==
  ASSUME IInv,
         \/ epoll_ctl \/ epoll_timeout \/ SkipEvent \/ AcceptAborted
         \/ AcceptAgain \/ AcceptFails \/ TrickAccept \/ TrickDone
         \/ SystemFiles \/ UNCHANGED vars
  PROVE  IInv'
<1> USE DEF epoll_ctl, epoll_timeout, SkipEvent, AcceptAborted, AcceptAgain,
            AcceptFails, TrickAccept, TrickDone, SystemFiles, vars, clients, server, handles,
            polling, Accepting, Dispatching, ServerIoReturn
<1>1. UNCHANGED <<file, fd, spare, st, closing, batch>>
  BY ZenonT(40)
<1>2. /\ pc' = "main" <=> pc = "main"
      /\ pc = "main" => loop' = loop
      /\ i' \in Nat \ {0}
  BY DEF IInv, Types
<1>3. /\ loop'.watchers = loop.watchers
      /\ LoopShape(loop')
  <2>1. CASE epoll_ctl
    <3>1. PICK e : loop' = [loop EXCEPT !.events = e, !.queue = {}]
      BY <2>1, ZenonT(30)
    <3> QED BY <3>1, Zenon DEF IInv, Types, LoopShape
  <2>2. CASE ~epoll_ctl
    <3>1. loop' = loop
      BY <2>2, Zenon
    <3> QED BY <3>1, Zenon DEF IInv, Types
  <2> QED BY <2>1, <2>2, Zenon
<1>4. TableOwned'
  BY <1>1, <1>3, Zenon DEF IInv, TableOwned
<1>5. backlog' \in Seq(Conns) /\ (TrickAccept => Head(backlog) \in Conns)
  <2>1. \/ backlog' = backlog /\ ~TrickAccept
        \/ backlog # <<>> /\ backlog' = Tail(backlog)
    BY Zenon
  <2>2. backlog \in Seq(Conns)
    BY Zenon DEF IInv, Types
  <2> HIDE DEF epoll_ctl, epoll_timeout, SkipEvent, AcceptAborted, AcceptAgain,
               AcceptFails, TrickAccept, TrickDone, SystemFiles, vars
  <2> QED BY <2>1, <2>2
<1>6. /\ peer' \in [Conns -> {"idle", "queued", "up", "fin", "aborted", "refused"}]
      /\ \A d \in Conns : peer'[d] \in {"idle", "queued"} =>
                           peer[d] \in {"idle", "queued"}
  BY <1>5, Zenon DEF IInv, Types
<1> QED
  BY <1>1, <1>2, <1>3, <1>4, <1>5, <1>6, QuietKeeps, ZenonT(40)

\* The watcher the loop calls holds the descriptor of the event.
LEMMA WatcherHolds ==
  ASSUME IInv, Dispatching, Event.fd # NoFd, NEW w \in Watchers, Watcher = w
  PROVE  /\ pc = "dispatch"
         /\ Event.fd \in FDs /\ fd[w] = Event.fd /\ fd[w] \in 0 .. MaxFd
         /\ loop.watchers[fd[w]] = w
         /\ \A f \in FDs : loop.watchers[f] = w => f = fd[w]
<1>1. i \in 1 .. Len(batch) /\ pc = "dispatch"
  BY DEF IInv, Types, BatchCurrent, Dispatching
<1>2. Event.fd \in FDs
  <2> DEFINE E == [fd : FDs \cup {NoFd}, ev : SUBSET {"IN", "OUT"},
                   who : Watchers \cup {Spare, Free}]
  <2>1. batch \in Seq(E)
    BY Zenon DEF IInv, BatchCurrent
  <2> HIDE DEF E
  <2>2. batch[i] \in E
    BY <1>1, <2>1
  <2>3. batch[i].fd \in FDs \cup {NoFd}
    BY <2>2, Zenon DEF E
  <2> QED BY <2>3, Zenon DEF Event
<1> QED
  BY <1>1, <1>2, Names, ZenonT(30) DEF IInv, TableOwned, Watcher

\* uv__io_start and uv__io_stop of a watcher that holds its descriptor.
LEMMA TableKeeps ==
  ASSUME IInv, NEW w \in Watchers, fd[w] \in FDs, NEW e \in {"IN", "OUT"}, NEW es,
         loop' \in {loop, uv__io_start(loop, w, fd[w], e), uv__io_stop(loop, w, fd[w], es)},
         fd' = fd
  PROVE  LoopShape(loop') /\ TableOwned'
<1>1. LoopShape(loop) /\ fd[w] \in 0 .. MaxFd
  BY Names, ZenonT(30) DEF IInv, Types
<1>2. /\ LoopShape(loop')
      /\ \A g \in 0 .. MaxFd : g # fd[w] => loop'.watchers[g] = loop.watchers[g]
      /\ loop'.watchers[fd[w]] \in {loop.watchers[fd[w]], w, Null}
  <2>1. CASE loop' = loop
    BY <1>1, <2>1, Zenon
  <2>2. CASE loop' = uv__io_start(loop, w, fd[w], e)
    <3> DEFINE m == uv__io_start(loop, w, fd[w], e)
    <3>1. /\ LoopShape(m)
          /\ \A g \in 0 .. MaxFd : g # fd[w] => m.watchers[g] = loop.watchers[g]
          /\ m.watchers[fd[w]] \in {loop.watchers[fd[w]], w}
      BY <1>1, IoStartEffect, ZenonT(40)
    <3> HIDE DEF m
    <3>2. loop' = m
      BY <2>2, Zenon DEF m
    <3> QED BY <3>1, <3>2, Zenon
  <2>3. CASE loop' = uv__io_stop(loop, w, fd[w], es)
    BY <1>1, <2>3, IoStopEffect
  <2> QED BY <2>1, <2>2, <2>3, Zenon
<1> QED
  BY <1>1, <1>2, Names DEF IInv, TableOwned

\* Callbacks that read and write, and the beginning of the accept loop.
LEMMA StreamKeeps ==
  ASSUME IInv,
         uv__server_io \/ \E c \in Conns : StreamRead(c) \/ StreamWrite(c)
  PROVE  IInv'
<1>1. /\ UNCHANGED <<file, fd, spare, st, closing, batch, peer, backlog>>
      /\ pc = "dispatch" /\ pc' # "main" /\ i' \in {i, i + 1}
  BY Zenon DEF uv__server_io, StreamRead, StreamWrite, StreamIo, NextEvent, Dispatching,
         clients, handles
<1>2. LoopShape(loop') /\ TableOwned'
  <2>1. CASE uv__server_io
    <3>1. fd[Listener] \in FDs /\ Listener \in Watchers
      BY <1>1, Names, Zenon DEF IInv, Started
    <3>2. loop' = uv__io_start(loop, Listener, fd[Listener], "IN")
      BY <2>1, Zenon DEF uv__server_io
    <3> QED BY <1>1, <3>1, <3>2, TableKeeps, Zenon
  <2>2. ASSUME NEW c \in Conns, StreamRead(c) \/ StreamWrite(c)
        PROVE  LoopShape(loop') /\ TableOwned'
    <3>1. Dispatching /\ Event.fd # NoFd /\ Watcher = c
      BY <2>2, Zenon DEF StreamRead, StreamWrite, StreamIo
    <3>2. c \in Watchers
      BY Names, Zenon
    <3>3. fd[c] \in FDs
      BY <3>1, <3>2, WatcherHolds, Zenon
    <3>4. loop' \in {loop, uv__io_start(loop, c, fd[c], "OUT"),
                     uv__io_stop(loop, c, fd[c], {"OUT"})}
      BY <2>2, Zenon DEF StreamRead, StreamWrite
    <3> QED BY <1>1, <3>2, <3>3, <3>4, TableKeeps
  <2> QED BY <2>1, <2>2, Zenon
<1>3. i \in Nat \ {0} /\ backlog \in Seq(Conns) /\
      peer \in [Conns -> {"idle", "queued", "up", "fin", "aborted", "refused"}]
  BY Zenon DEF IInv, Types
<1>4. i' \in Nat \ {0}
  BY <1>1, <1>3
<1> QED
  BY <1>1, <1>2, <1>3, <1>4, QuietKeeps, Zenon

-----------------------------------------------------------------------------
(* Steps that open or close descriptors, and those of the batch.           *)

\* main() opens the spare descriptor and the listener's.
LEMMA MainKeeps == ASSUME IInv, main PROVE IInv'
<1>1. /\ FirstFd \in FDs /\ FirstFd + 1 \in FDs /\ FirstFd # FirstFd + 1
      /\ FirstFd + 1 \in 0 .. MaxFd
  BY ServerAssumption DEF FDs
<1>2. /\ \A f \in FDs : file[f] = Free /\ loop.watchers[f] = Null
      /\ \A w \in Watchers : fd[w] = NoFd
      /\ batch = <<>> /\ batch' = batch /\ i' = i /\ pc' # "main"
      /\ UNCHANGED <<peer, backlog, st, closing>>
  BY Zenon DEF main, IInv, Started, clients, polling
<1>3. /\ spare' = FirstFd
      /\ file' = [file EXCEPT ![FirstFd] = Spare, ![FirstFd + 1] = Listener]
      /\ fd' = [fd EXCEPT ![Listener] = FirstFd + 1]
  BY Zenon DEF main
<1>4. /\ LoopShape(loop')
      /\ \A g \in 0 .. MaxFd : g # FirstFd + 1 => loop'.watchers[g] = loop.watchers[g]
      /\ loop'.watchers[FirstFd + 1] \in {loop.watchers[FirstFd + 1], Listener}
  <2>1. LoopShape(loop)
    BY Zenon DEF IInv, Types
  <2>2. CASE loop' = loop
    BY <2>1, <2>2, Zenon
  <2>3. CASE loop' = uv__io_start(loop, Listener, FirstFd + 1, "IN")
    <3> DEFINE f == FirstFd + 1
    <3>1. /\ Listener \in Watchers /\ f \in 0 .. MaxFd
          /\ loop' = uv__io_start(loop, Listener, f, "IN")
      BY <1>1, <2>3, Names, Zenon
    <3> HIDE DEF f
    <3>2. /\ LoopShape(loop')
          /\ \A g \in 0 .. MaxFd : g # f => loop'.watchers[g] = loop.watchers[g]
          /\ loop'.watchers[f] \in {loop.watchers[f], Listener}
      BY <2>1, <3>1, IoStartEffect, ZenonT(40)
    <3> QED BY <3>2, Zenon DEF f
  <2> QED BY <2>2, <2>3, Zenon DEF main
<1>5. Types'
  BY <1>1, <1>2, <1>3, <1>4, Names, Zenon DEF IInv, Types
<1>6. DescriptorsOwned'
  BY <1>1, <1>2, <1>3, Names DEF IInv, Types, DescriptorsOwned
<1>7. TableOwned'
  BY <1>1, <1>2, <1>3, <1>4, Names DEF IInv, Types, TableOwned
<1>8. BatchCurrent'
  BY <1>2 DEF BatchCurrent
<1>9. HandlesFresh'
  BY <1>2, Zenon DEF IInv, HandlesFresh
<1>10. Started'
  BY <1>1, <1>2, <1>3, Names, Zenon DEF IInv, Types, Started
<1> QED BY <1>5, <1>6, <1>7, <1>8, <1>9, <1>10, Zenon DEF IInv

\* epoll_wait reports sockets that are open.
LEMMA WaitKeeps == ASSUME IInv, epoll_wait PROVE IInv'
<1> DEFINE E == [fd : FDs \cup {NoFd}, ev : SUBSET {"IN", "OUT"},
                 who : Watchers \cup {Spare, Free}]
<1>1. /\ UNCHANGED <<file, fd, spare, st, closing, peer, backlog, loop>>
      /\ pc = "wait" /\ pc' = "dispatch" /\ i' = 1
  BY Zenon DEF epoll_wait, clients, handles
<1>2. PICK S \in SUBSET Reported : \E q \in Bijection(1 .. Cardinality(S), S) :
        batch' = [k \in DOMAIN q |->
                    [fd |-> q[k], ev |-> epoll[q[k]] \cap Level(q[k]),
                     who |-> file[q[k]]]]
  BY ZenonT(30) DEF epoll_wait
<1>3. PICK q \in Bijection(1 .. Cardinality(S), S) :
        batch' = [k \in DOMAIN q |->
                    [fd |-> q[k], ev |-> epoll[q[k]] \cap Level(q[k]),
                     who |-> file[q[k]]]]
  BY <1>2, ZenonT(30)
<1>4. Cardinality(S) \in Nat
  <2>1. IsFiniteSet(FDs)
    BY FS_Interval, ServerAssumption DEF FDs
  <2>2. S \subseteq FDs
    BY Zenon DEF Reported
  <2> QED BY <2>1, <2>2, FS_Subset, FS_CardinalityType, Zenon
<1>5. q \in [1 .. Cardinality(S) -> S]
  BY Zenon DEF Bijection, Injection, Surjection
<1>6. \A f \in S : /\ f \in FDs /\ file[f] \in Watchers
                   /\ epoll[f] \cap Level(f) \in SUBSET {"IN", "OUT"}
  BY Zenon DEF Reported, Level, Watchers
<1>7. \A k \in 1 .. Cardinality(S) :
        /\ batch'[k] \in E
        /\ batch'[k].fd = q[k] /\ batch'[k].who = file[q[k]]
  BY <1>3, <1>5, <1>6, Zenon
<1>8. batch' = [k \in 1 .. Cardinality(S) |-> batch'[k]]
  BY <1>3, <1>5, Zenon
<1> HIDE DEF E
<1>9. batch' \in Seq(E) /\ Len(batch') = Cardinality(S)
  BY <1>4, <1>7, <1>8
<1>10. BatchCurrent'
  BY <1>1, <1>5, <1>6, <1>7, <1>9, Zenon DEF BatchCurrent, E
<1>11. Types'
  BY <1>1 DEF IInv, Types
<1>12. DescriptorsOwned' /\ TableOwned' /\ HandlesFresh' /\ Started'
  BY <1>1 DEF IInv, DescriptorsOwned, TableOwned, HandlesFresh, Started
<1> QED BY <1>10, <1>11, <1>12, Zenon DEF IInv

\* The end of a batch, and of an iteration.
LEMMA BatchDoneKeeps ==
  ASSUME IInv, BatchDone \/ uv__run_closing_handles PROVE IInv'
<1>1. /\ UNCHANGED <<file, fd, spare, peer, backlog, loop>>
      /\ pc # "main" /\ pc' # "main" /\ i' \in Nat \ {0}
      /\ batch' \in {batch, <<>>} /\ closing' \in {closing, <<>>}
  BY DEF BatchDone, uv__run_closing_handles, clients, handles, polling, IInv, Types
<1>2. /\ st' \in [Conns -> {"none", "open", "closing", "closed"}]
      /\ \A c \in Conns :
           \/ st'[c] = st[c]
           \/ st[c] = "closing" /\ st'[c] = "closed" /\ closing' = <<>>
  <2>1. /\ st \in [Conns -> {"none", "open", "closing", "closed"}]
        /\ \A c \in Range(closing) : st[c] = "closing"
    BY Zenon DEF IInv, Types, HandlesFresh
  <2>2. \/ st' = st
        \/ /\ st' = [c \in Conns |-> IF c \in Range(closing) THEN "closed" ELSE st[c]]
           /\ closing' = <<>>
    BY Zenon DEF BatchDone, uv__run_closing_handles, handles
  <2>3. CASE st' = st
    BY <2>1, <2>3, Zenon
  <2>4. CASE /\ st' = [c \in Conns |-> IF c \in Range(closing) THEN "closed" ELSE st[c]]
             /\ closing' = <<>>
    <3>1. st' \in [Conns -> {"none", "open", "closing", "closed"}]
      BY <2>1, <2>4, Zenon
    <3>2. \A c \in Conns : st'[c] = st[c] \/ (st[c] = "closing" /\ st'[c] = "closed")
      BY <2>1, <2>4, Zenon
    <3> QED BY <2>4, <3>1, <3>2, Zenon
  <2> QED BY <2>2, <2>3, <2>4, Zenon
<1>3. Types'
  <2>1. closing' \in Seq(Conns)
    <3>1. closing \in Seq(Conns)
      BY Zenon DEF IInv, Types
    <3>2. closing' = closing \/ closing' = <<>>
      BY <1>1, Zenon
    <3>3. <<>> \in Seq(Conns)
      OBVIOUS
    <3> QED BY <3>1, <3>2, <3>3, Zenon
  <2>2. LoopShape(loop')
    BY <1>1, Zenon DEF IInv, Types
  <2> QED BY <1>1, <1>2, <2>1, <2>2, Zenon DEF IInv, Types
<1>4. DescriptorsOwned' /\ TableOwned'
  BY <1>1, <1>2 DEF IInv, DescriptorsOwned, TableOwned
<1>5. BatchCurrent'
  <2>1. CASE batch' = batch
    BY <1>1, <2>1, Zenon DEF IInv, BatchCurrent
  <2>2. CASE batch' = <<>>
    BY <2>2 DEF BatchCurrent
  <2> QED BY <1>1, <2>1, <2>2, Zenon
<1>6. HandlesFresh'
  <2>1. Range(<<>>) = {}
    BY DEF Range
  <2>2. closing' = closing =>
          Range(closing') = Range(closing) /\ Range(closing) \subseteq Conns
    BY DEF IInv, Types, Range
  <2> QED BY <1>1, <1>2, <2>1, <2>2, Zenon DEF IInv, HandlesFresh
<1>7. Started'
  BY <1>1, Zenon DEF IInv, Started
<1> QED BY <1>3, <1>4, <1>5, <1>6, <1>7, Zenon DEF IInv

\* uv_close gives the descriptor back, takes its watcher out of the table and
\* invalidates what the batch still has for it.
LEMMA CloseKeeps ==
  ASSUME IInv, NEW c \in Conns, StreamEof(c)
  PROVE  IInv'
<1> DEFINE f == fd[c]
<1>1. /\ pc = "dispatch" /\ pc' = pc /\ i' = i + 1
      /\ UNCHANGED <<peer, backlog, spare>>
      /\ Event.fd # NoFd /\ Watcher = c /\ Dispatching
  BY Zenon DEF StreamEof, StreamIo, NextEvent, Dispatching, clients
<1>2. /\ loop' = uv__io_stop(uv__io_stop(loop, c, f, {"IN", "OUT"}), c, f, {"IN"})
      /\ batch' = [k \in DOMAIN batch |->
                     IF batch[k].fd = f THEN [batch[k] EXCEPT !.fd = NoFd]
                                        ELSE batch[k]]
      /\ file' = [file EXCEPT ![f] = Free]
      /\ fd' = [fd EXCEPT ![c] = NoFd]
      /\ st' = [st EXCEPT ![c] = "closing"]
      /\ closing' = <<c>> \o closing
  BY Zenon DEF StreamEof, uv_close, uv__platform_invalidate_fd
<1>3. /\ c \in Watchers /\ f \in FDs /\ f \in 0 .. MaxFd
      /\ loop.watchers[f] = c /\ f # NoFd /\ c # Null /\ c # Listener
  BY <1>1, WatcherHolds, Names, Zenon
<1>4. /\ file \in [FDs -> Watchers \cup {Spare, Free}]
      /\ fd \in [Watchers -> FDs \cup {NoFd}]
      /\ st \in [Conns -> {"none", "open", "closing", "closed"}]
      /\ file[f] = c /\ st[c] = "open" /\ spare # f
  BY <1>3, Names DEF IInv, Types, DescriptorsOwned
<1> HIDE DEF f
<1>5. /\ LoopShape(loop')
      /\ \A g \in 0 .. MaxFd : g # f => loop'.watchers[g] = loop.watchers[g]
      /\ loop'.watchers[f] = Null
  <2> DEFINE m == uv__io_stop(loop, c, f, {"IN", "OUT"})
  <2>1. LoopShape(loop)
    BY Zenon DEF IInv, Types
  <2>2. loop.pevents[c] \subseteq {"IN", "OUT"} /\ loop.watchers[f] # Null
    BY <1>3, <2>1, Zenon DEF LoopShape
  <2>3. /\ LoopShape(m)
        /\ \A g \in 0 .. MaxFd : g # f => m.watchers[g] = loop.watchers[g]
        /\ m.watchers[f] = Null
    BY <1>3, <2>1, <2>2, IoStopEffect
  <2>4. loop' = uv__io_stop(m, c, f, {"IN"})
    BY <1>2, Zenon
  <2> HIDE DEF m
  <2>5. /\ LoopShape(loop')
        /\ \A g \in 0 .. MaxFd : g # f => loop'.watchers[g] = m.watchers[g]
        /\ loop'.watchers[f] \in {m.watchers[f], Null}
    BY <1>3, <2>3, <2>4, IoStopEffect
  <2> QED BY <2>3, <2>5, Zenon
<1>6. closing' \in Seq(Conns) /\ Range(closing') \subseteq {c} \cup Range(closing)
  <2>1. closing \in Seq(Conns)
    BY Zenon DEF IInv, Types
  <2>2. closing' \in Seq(Conns)
    BY <1>2, <2>1
  <2>3. /\ Len(closing') = Len(closing) + 1
        /\ \A k \in 1 .. Len(closing') :
             closing'[k] = IF k = 1 THEN c ELSE closing[k - 1]
    BY <1>2, <2>1
  <2>4. Len(closing) \in Nat
    BY <2>1
  <2>5. \A k \in 1 .. Len(closing') : k = 1 \/ (k - 1) \in 1 .. Len(closing)
    BY <2>3, <2>4
  <2> QED BY <2>1, <2>2, <2>3, <2>5 DEF Range
<1>7. Types'
  <2>1. i \in Nat \ {0}
    BY Zenon DEF IInv, Types
  <2>2. i' \in Nat \ {0}
    BY <1>1, <2>1
  <2> QED BY <1>1, <1>2, <1>3, <1>4, <1>5, <1>6, <2>2, Zenon DEF IInv, Types
<1>8. DescriptorsOwned'
  <2>1. \A g \in FDs : file'[g] = Spare <=> spare' = g
    BY <1>1, <1>2, <1>3, <1>4, Names DEF IInv, DescriptorsOwned
  <2>2. \A g \in FDs, w \in Watchers : file'[g] = w <=> fd'[w] = g
    BY <1>2, <1>3, <1>4, Names DEF IInv, DescriptorsOwned
  <2>3. \A d \in Conns : fd'[d] # NoFd <=> st'[d] = "open"
    BY <1>2, <1>4, Names DEF IInv, DescriptorsOwned
  <2> QED BY <2>1, <2>2, <2>3, Zenon DEF DescriptorsOwned
<1>9. TableOwned'
  BY <1>2, <1>3, <1>4, <1>5, Names DEF IInv, TableOwned, DescriptorsOwned, f
<1>10. BatchCurrent'
  <2> DEFINE E == [fd : FDs \cup {NoFd}, ev : SUBSET {"IN", "OUT"},
                   who : Watchers \cup {Spare, Free}]
  <2>1. /\ batch \in Seq(E)
        /\ \A k \in 1 .. Len(batch) : batch[k].fd # NoFd =>
             batch[k].who \in Watchers /\ file[batch[k].fd] = batch[k].who
    BY Zenon DEF IInv, BatchCurrent
  <2> HIDE DEF E
  <2>2. /\ DOMAIN batch = 1 .. Len(batch) /\ Len(batch) \in Nat
        /\ \A k \in 1 .. Len(batch) : batch[k] \in E
    BY <2>1
  <2>3. \A b \in E : [b EXCEPT !.fd = NoFd] \in E /\ [b EXCEPT !.fd = NoFd].fd = NoFd
                     /\ b.fd \in FDs \cup {NoFd}
    BY Zenon DEF E
  <2>4. batch' = [k \in 1 .. Len(batch) |->
                     IF batch[k].fd = f THEN [batch[k] EXCEPT !.fd = NoFd]
                                        ELSE batch[k]]
    BY <1>2, <2>2, Zenon
  <2>5. \A k \in 1 .. Len(batch) :
          /\ batch'[k] \in E
          /\ batch'[k].fd # NoFd => batch'[k] = batch[k] /\ batch[k].fd # f
    BY <2>2, <2>3, <2>4, Zenon
  <2>6. batch' \in Seq(E) /\ Len(batch') = Len(batch)
    BY <2>2, <2>4, <2>5
  <2>7. \A k \in 1 .. Len(batch) : batch'[k].fd # NoFd =>
          batch'[k].who \in Watchers /\ file'[batch'[k].fd] = batch'[k].who
    BY <1>2, <1>4, <2>1, <2>2, <2>3, <2>5, Zenon
  <2> QED BY <2>6, <2>7, Zenon DEF BatchCurrent, E
<1>11. HandlesFresh'
  BY <1>1, <1>2, <1>4, <1>6 DEF IInv, HandlesFresh
<1>12. Started'
  BY <1>1, <1>2, <1>3, <1>4, Names, Zenon DEF IInv, Started
<1> QED BY <1>7, <1>8, <1>9, <1>10, <1>11, <1>12, Zenon DEF IInv

\* The spare descriptor is opened on a free number or not at all.
LEMMA OpenSpareEffect ==
  ASSUME NEW F, OpenSpare(F)
  PROVE  \/ spare' = spare /\ file' = F
         \/ \E g \in FDs : /\ spare = NoFd /\ F[g] = Free
                            /\ spare' = g /\ file' = [F EXCEPT ![g] = Spare]
BY Zenon DEF OpenSpare, IsLowestFree

\* A step that changes only which descriptors are free or the spare one.
LEMMA SpareKeeps ==
  ASSUME IInv, UNCHANGED <<fd, st, peer, backlog, closing, batch, loop>>,
         pc # "main", pc' # "main", i' \in Nat \ {0},
         file' \in [FDs -> Watchers \cup {Spare, Free}], spare' \in FDs \cup {NoFd},
         \A f \in FDs : file'[f] # file[f] =>
            file[f] \in {Spare, Free} /\ file'[f] \in {Spare, Free},
         \A f \in FDs : file'[f] = Spare <=> spare' = f
  PROVE  IInv'
<1>1. Types'
  BY Zenon DEF IInv, Types
<1>2. DescriptorsOwned'
  <2>1. /\ \A f \in FDs, w \in Watchers : file[f] = w <=> fd[w] = f
        /\ \A c \in Conns : fd[c] # NoFd <=> st[c] = "open"
    BY Zenon DEF IInv, DescriptorsOwned
  <2>2. \A f \in FDs, w \in Watchers : file'[f] = w <=> file[f] = w
    BY Names, Zenon
  <2> QED BY <2>1, <2>2 DEF DescriptorsOwned
<1>3. BatchCurrent'
  <2> DEFINE E == [fd : FDs \cup {NoFd}, ev : SUBSET {"IN", "OUT"},
                   who : Watchers \cup {Spare, Free}]
  <2>1. /\ batch \in Seq(E)
        /\ \A k \in 1 .. Len(batch) : batch[k].fd # NoFd =>
             batch[k].who \in Watchers /\ file[batch[k].fd] = batch[k].who
    BY Zenon DEF IInv, BatchCurrent
  <2>2. \A b \in E : b.fd \in FDs \cup {NoFd}
    BY Zenon
  <2> HIDE DEF E
  <2>3. \A k \in 1 .. Len(batch) : batch[k] \in E
    BY <2>1
  <2>4. \A k \in 1 .. Len(batch) : batch[k].fd # NoFd =>
          batch[k].who \in Watchers /\ file'[batch[k].fd] = batch[k].who
    BY <2>1, <2>2, <2>3, Names, ZenonT(30)
  <2> QED BY <2>1, <2>4, Zenon DEF BatchCurrent, E
<1>4. TableOwned' /\ HandlesFresh' /\ Started'
  BY Zenon DEF IInv, TableOwned, HandlesFresh, Started
<1> QED BY <1>1, <1>2, <1>3, <1>4, Zenon DEF IInv

\* The trick closes the spare descriptor and opens it again.
LEMMA TrickKeeps == ASSUME IInv, uv__emfile_trick \/ TrickReopen PROVE IInv'
<1>1. /\ file \in [FDs -> Watchers \cup {Spare, Free}] /\ spare \in FDs \cup {NoFd}
      /\ \A f \in FDs : file[f] = Spare <=> spare = f
      /\ i \in Nat \ {0}
  BY Zenon DEF IInv, Types, DescriptorsOwned
<1>2. /\ UNCHANGED <<fd, st, peer, backlog, closing, batch, loop>>
      /\ pc # "main" /\ pc' # "main" /\ i' \in {i, i + 1}
  BY Zenon DEF uv__emfile_trick, TrickReopen, Accepting, ServerIoReturn, clients, handles,
         polling
<1>3. i' \in Nat \ {0}
  BY <1>1, <1>2
<1>4. /\ file' \in [FDs -> Watchers \cup {Spare, Free}] /\ spare' \in FDs \cup {NoFd}
      /\ \A f \in FDs : file'[f] # file[f] =>
            file[f] \in {Spare, Free} /\ file'[f] \in {Spare, Free}
      /\ \A f \in FDs : file'[f] = Spare <=> spare' = f
  <2>1. CASE uv__emfile_trick
    <3>1. file' = [file EXCEPT ![spare] = Free] /\ spare' = NoFd
      BY <2>1, Zenon DEF uv__emfile_trick
    <3> QED BY <1>1, <3>1, Names, ZenonT(30)
  <2>2. CASE TrickReopen
    <3>1. \/ spare' = spare /\ file' = file
          \/ \E g \in FDs : /\ spare = NoFd /\ file[g] = Free
                             /\ spare' = g /\ file' = [file EXCEPT ![g] = Spare]
      BY <2>2, OpenSpareEffect, Zenon DEF TrickReopen
    <3> QED BY <1>1, <3>1, Names, ZenonT(40)
  <2> QED BY <2>1, <2>2, Zenon
<1> QED BY <1>2, <1>3, <1>4, SpareKeeps, Zenon

\* accept() takes a free number for a client that has no handle yet.
LEMMA ConnectionKeeps == ASSUME IInv, on_new_connection PROVE IInv'
<1> DEFINE c == Head(backlog)
<1>1. backlog \in Seq(Conns) /\ backlog # <<>> /\ backlog' = Tail(backlog)
  BY Zenon DEF IInv, Types, on_new_connection
<1>2. c \in Conns /\ backlog' \in Seq(Conns)
  BY <1>1
<1>3. peer[c] = "queued" /\ pc = "accept" /\ pc' = pc /\ UNCHANGED <<closing, batch, i>>
  BY Zenon DEF on_new_connection, Accepting, polling
<1>4. PICK f \in FDs :
        /\ file[f] = Free
        /\ OpenSpare([file EXCEPT ![f] = c])
        /\ fd' = [fd EXCEPT ![c] = f]
        /\ st' = [st EXCEPT ![c] = "open"]
        /\ peer' = [peer EXCEPT ![c] = "up"]
        /\ loop' = uv__io_start(uv__io_start(loop, Listener, fd[Listener], "IN"),
                                c, f, "IN")
  BY ZenonT(30) DEF on_new_connection, IsLowestFree
<1> HIDE DEF c
<1>5. /\ file \in [FDs -> Watchers \cup {Spare, Free}]
      /\ fd \in [Watchers -> FDs \cup {NoFd}]
      /\ st \in [Conns -> {"none", "open", "closing", "closed"}]
      /\ peer \in [Conns -> {"idle", "queued", "up", "fin", "aborted", "refused"}]
      /\ LoopShape(loop) /\ spare \in FDs \cup {NoFd} /\ i \in Nat \ {0}
  BY Zenon DEF IInv, Types
<1>6. st[c] = "none" /\ fd[c] = NoFd /\ c \in Watchers /\ c # Listener
  BY <1>2, <1>3, Names, Zenon DEF IInv, HandlesFresh, DescriptorsOwned
<1>7. /\ fd[Listener] \in FDs /\ fd[Listener] # f /\ f # NoFd
      /\ \A w \in Watchers : fd[w] # f
      /\ spare # f
  BY <1>3, <1>4, Names DEF IInv, Started, DescriptorsOwned
<1>8. /\ LoopShape(loop')
      /\ \A g \in FDs, w \in Watchers :
           loop'.watchers[g] = w =>
             \/ loop.watchers[g] = w
             \/ g = fd[Listener] /\ w = Listener
             \/ g = f /\ w = c
  <2> DEFINE l == fd[Listener]
             m == uv__io_start(loop, Listener, l, "IN")
  <2>1. l \in 0 .. MaxFd /\ f \in 0 .. MaxFd /\ Listener \in Watchers
    BY <1>7, Names, ZenonT(30)
  <2>2. loop' = uv__io_start(m, c, f, "IN")
    BY <1>4, Zenon
  <2> HIDE DEF l
  <2>3. /\ LoopShape(m)
        /\ \A g \in 0 .. MaxFd : g # l => m.watchers[g] = loop.watchers[g]
        /\ m.watchers[l] \in {loop.watchers[l], Listener}
    BY <1>5, <2>1, IoStartEffect, Zenon
  <2> HIDE DEF m
  <2>4. /\ LoopShape(loop')
        /\ \A g \in 0 .. MaxFd : g # f => loop'.watchers[g] = m.watchers[g]
        /\ loop'.watchers[f] \in {m.watchers[f], c}
    BY <1>6, <2>1, <2>2, <2>3, IoStartEffect, ZenonT(60)
  <2>5. \A g \in 0 .. MaxFd :
          \/ loop'.watchers[g] = loop.watchers[g]
          \/ g = l /\ loop'.watchers[g] = Listener
          \/ g = f /\ loop'.watchers[g] = c
    BY <2>3, <2>4, Zenon
  <2>6. \A g \in FDs : g \in 0 .. MaxFd
    BY Names, Zenon
  <2>7. \A g \in FDs, w \in Watchers :
          loop'.watchers[g] = w =>
            \/ loop.watchers[g] = w
            \/ g = fd[Listener] /\ w = Listener
            \/ g = f /\ w = c
    <3> TAKE g \in FDs, w \in Watchers
    <3> HAVE loop'.watchers[g] = w
    <3> QED BY <2>5, <2>6, Zenon DEF l
  <2> QED BY <2>4, <2>7, Zenon
<1>9. /\ file' \in [FDs -> Watchers \cup {Spare, Free}] /\ spare' \in FDs \cup {NoFd}
      /\ file'[f] = c
      /\ \A g \in FDs : g # f /\ file'[g] # file[g] =>
                          file[g] = Free /\ file'[g] = Spare
      /\ \A g \in FDs : file'[g] = Spare <=> spare' = g
  <2> DEFINE F == [file EXCEPT ![f] = c]
  <2>1. /\ F \in [FDs -> Watchers \cup {Spare, Free}] /\ F[f] = c
        /\ \A g \in FDs : g # f => F[g] = file[g]
    BY <1>5, <1>6, Zenon
  <2>2. \A g \in FDs : file[g] = Spare <=> spare = g
    BY Zenon DEF IInv, DescriptorsOwned
  <2>3. OpenSpare(F)
    BY <1>4, Zenon
  <2> HIDE DEF F
  <2>4. \/ spare' = spare /\ file' = F
        \/ \E g \in FDs : /\ spare = NoFd /\ F[g] = Free
                           /\ spare' = g /\ file' = [F EXCEPT ![g] = Spare]
    BY <2>3, OpenSpareEffect, Zenon
  <2> QED BY <1>5, <1>6, <1>7, <2>1, <2>2, <2>4, Names
<1>10. Types'
  BY <1>2, <1>3, <1>4, <1>5, <1>6, <1>8, <1>9, Zenon DEF IInv, Types
<1>11. DescriptorsOwned'
  <2>1. /\ \A g \in FDs, w \in Watchers : file[g] = w <=> fd[w] = g
        /\ \A d \in Conns : fd[d] # NoFd <=> st[d] = "open"
    BY Zenon DEF IInv, DescriptorsOwned
  <2>2. \A g \in FDs, w \in Watchers : file'[g] = w <=> fd'[w] = g
    BY <1>4, <1>5, <1>6, <1>7, <1>9, <2>1, Names
  <2>3. \A d \in Conns : fd'[d] # NoFd <=> st'[d] = "open"
    BY <1>2, <1>4, <1>5, <1>6, <1>7, <2>1
  <2> QED BY <1>9, <2>2, <2>3, Zenon DEF DescriptorsOwned
<1>12. TableOwned'
  <2>1. \A g \in FDs, w \in Watchers : loop.watchers[g] = w => fd[w] = g
    BY Zenon DEF IInv, TableOwned
  <2>2. \A w \in Watchers : w # c => fd'[w] = fd[w]
    BY <1>4, <1>5, Zenon
  <2>3. fd'[c] = f
    BY <1>4, <1>5, <1>6, Zenon
  <2> QED BY <1>6, <1>8, <2>1, <2>2, <2>3, Names DEF TableOwned
<1>13. BatchCurrent'
  <2> DEFINE E == [fd : FDs \cup {NoFd}, ev : SUBSET {"IN", "OUT"},
                   who : Watchers \cup {Spare, Free}]
  <2>1. /\ batch \in Seq(E)
        /\ \A k \in 1 .. Len(batch) : batch[k].fd # NoFd =>
             batch[k].who \in Watchers /\ file[batch[k].fd] = batch[k].who
    BY Zenon DEF IInv, BatchCurrent
  <2>2. \A b \in E : b.fd \in FDs \cup {NoFd}
    BY Zenon
  <2> HIDE DEF E
  <2>3. \A k \in 1 .. Len(batch) : batch[k] \in E
    BY <2>1
  <2>4. \A k \in 1 .. Len(batch) : batch[k].fd # NoFd =>
          batch[k].who \in Watchers /\ file'[batch[k].fd] = batch[k].who
    BY <1>4, <1>9, <2>1, <2>2, <2>3, Names, ZenonT(30)
  <2> QED BY <1>3, <2>1, <2>4, ZenonT(30) DEF BatchCurrent, E
<1>14. HandlesFresh'
  <2>0. \A d \in Range(closing) : st[d] = "closing"
    BY Zenon DEF IInv, HandlesFresh
  <2>1. \A d \in Range(closing) : d # c
    BY <1>6, <2>0, Zenon
  <2>2. Range(closing) \subseteq Conns
    BY DEF IInv, Types, Range
  <2> QED BY <1>2, <1>3, <1>4, <1>5, <2>1, <2>2, ZenonT(40) DEF IInv, HandlesFresh
<1>15. Started'
  BY <1>3, <1>4, <1>5, <1>6, <1>7, Names, ZenonT(40) DEF Started
<1> QED BY <1>10, <1>11, <1>12, <1>13, <1>14, <1>15, Zenon DEF IInv

-----------------------------------------------------------------------------
\* Every step keeps the invariant.
LEMMA StepKeeps == IInv /\ [Next]_vars => IInv'
<1> SUFFICES ASSUME IInv, [Next]_vars PROVE IInv'
  BY Zenon
<1>1. ASSUME NEW c \in Conns, Client(c) PROVE IInv'
  BY <1>1, ClientKeeps, Zenon
<1>2. CASE \/ epoll_ctl \/ epoll_timeout \/ SkipEvent \/ AcceptAborted
           \/ AcceptAgain \/ AcceptFails \/ TrickAccept \/ TrickDone
           \/ SystemFiles \/ UNCHANGED vars
  BY <1>2, LoopQuietKeeps, Zenon
<1>3. CASE uv__server_io \/ \E c \in Conns : StreamRead(c) \/ StreamWrite(c)
  BY <1>3, StreamKeeps, Zenon
<1>4. CASE main
  BY <1>4, MainKeeps, Zenon
<1>5. CASE epoll_wait
  BY <1>5, WaitKeeps, Zenon
<1>6. CASE BatchDone \/ uv__run_closing_handles
  BY <1>6, BatchDoneKeeps, ZenonT(40)
<1>7. ASSUME NEW c \in Conns, StreamEof(c) PROVE IInv'
  BY <1>7, CloseKeeps, Zenon
<1>8. CASE on_new_connection
  BY <1>8, ConnectionKeeps, Zenon
<1>9. CASE uv__emfile_trick \/ TrickReopen
  BY <1>9, TrickKeeps, Zenon
<1> QED
  BY <1>1, <1>2, <1>3, <1>4, <1>5, <1>6, <1>7, <1>8, <1>9, ZenonT(40)
  DEF Next, LoopThread

\* The invariant lets no event reach a watcher but its owner's.
LEMMA OwnersReached == IInv => EventsReachOwner
<1> SUFFICES ASSUME IInv, Dispatching, Event.fd # NoFd, Watcher # Null
             PROVE  Watcher = Event.who
  BY Zenon DEF EventsReachOwner
<1> DEFINE E == [fd : FDs \cup {NoFd}, ev : SUBSET {"IN", "OUT"},
                 who : Watchers \cup {Spare, Free}]
<1>1. /\ batch \in Seq(E) /\ i \in 1 .. Len(batch)
      /\ \A k \in 1 .. Len(batch) : batch[k].fd # NoFd =>
           batch[k].who \in Watchers /\ file[batch[k].fd] = batch[k].who
  <2>1. /\ batch \in Seq(E)
        /\ \A k \in 1 .. Len(batch) : batch[k].fd # NoFd =>
             batch[k].who \in Watchers /\ file[batch[k].fd] = batch[k].who
    BY Zenon DEF IInv, BatchCurrent
  <2>2. i \in Nat \ {0} /\ i <= Len(batch)
    BY Zenon DEF IInv, Types, Dispatching
  <2> HIDE DEF E
  <2>3. i \in 1 .. Len(batch)
    BY <2>1, <2>2
  <2> QED BY <2>1, <2>3, Zenon
<1>2. \A b \in E : b.fd \in FDs \cup {NoFd}
  BY Zenon
<1> HIDE DEF E
<1>3. batch[i] \in E
  BY <1>1
<1>4. Event.fd \in FDs /\ file[Event.fd] = Event.who
  BY <1>1, <1>2, <1>3, Zenon DEF Event
<1>5. Watcher \in Watchers
  BY <1>4, Names, ZenonT(30) DEF Watcher, IInv, Types, LoopShape
<1>6. fd[Watcher] = Event.fd
  BY <1>4, <1>5, Zenon DEF IInv, TableOwned, Watcher
<1>7. file[Event.fd] = Watcher
  BY <1>4, <1>5, <1>6, Zenon DEF IInv, DescriptorsOwned
<1> QED
  BY <1>4, <1>7, Zenon

\* For any number of connections and descriptors, no descriptor is leaked and
\* none has two owners, whatever accept, uv_close and uv__emfile_trick do.
THEOREM DescriptorsKeepOwners == Spec => []DescriptorsOwned
<1>1. IInv => DescriptorsOwned
  BY Zenon DEF IInv
<1> QED
  BY InitHolds, StepKeeps, <1>1, PTL DEF Spec

\* For any number of connections and any size of the batches, an event is
\* given to the connection it happened on or to nobody, although descriptors
\* are closed and reused within a batch of uv__io_poll.
THEOREM EventsKeepOwners == Spec => []EventsReachOwner
BY InitHolds, StepKeeps, OwnersReached, PTL DEF Spec

-----------------------------------------------------------------------------
(* The watchers and the epoll set.                                         *)

\* The entries of loop->watchers in use.
Used(l) == {f \in 0 .. MaxFd : l.watchers[f] # Null}

\* The fields of the loop that LoopShape leaves out.
LoopFields(l) ==
  /\ l.events \in [Watchers -> SUBSET {"IN", "OUT"}]
  /\ l.queue \in SUBSET Watchers
  /\ l.nfds = Cardinality(Used(l))

WatchTypes ==
  /\ LoopFields(loop)
  /\ epoll \in [FDs -> SUBSET {"IN", "OUT"}]
  /\ owes \in [Conns -> BOOLEAN]

\* The watchers of open handles, and no others, want events: input always, and
\* output if something is queued.
Wants ==
  /\ \A c \in Conns : loop.pevents[c] =
       IF st[c] = "open" THEN IF owes[c] THEN {"IN", "OUT"} ELSE {"IN"} ELSE {}
  /\ loop.pevents[Listener] = IF pc \in {"main", "exited"} THEN {} ELSE {"IN"}
  /\ \A c \in Conns : st[c] = "none" => ~owes[c]

\* The first conjunct of WatcherTable.
TableExact ==
  \A f \in FDs, w \in Watchers :
    loop.watchers[f] = w <=> fd[w] = f /\ loop.pevents[w] # {}

\* What the loop believes to be in the epoll set is there, and a watcher whose
\* wishes differ from it is in the queue.
Synced ==
  /\ \A w \in Watchers : loop.pevents[w] = {} => loop.events[w] = {}
  /\ \A w \in Watchers : fd[w] # NoFd =>
       /\ epoll[fd[w]] = loop.events[w]
       /\ loop.events[w] = loop.pevents[w] \/ w \in loop.queue
  /\ \A f \in FDs : file[f] \notin Watchers => epoll[f] = {}
  /\ \A w \in loop.queue : loop.pevents[w] # {} /\ fd[w] # NoFd

\* No handle is on the closing list twice.
ClosingOnce ==
  \A k, m \in DOMAIN closing : k # m => closing[k] # closing[m]

\* While uv__emfile_trick accepts and closes, the number of the spare is the
\* only free one, unless the system was out of files.
TrickFull ==
  /\ enfile \in Nat
  /\ pc = "trick" /\ enfile = 0 =>
       \E g \in FDs : /\ file[g] = Free
                      /\ \A f \in FDs : f # g => file[f] \in Watchers

Watch ==
  WatchTypes /\ Wants /\ TableExact /\ Synced /\ ClosingOnce /\ TrickFull
================================================================================
