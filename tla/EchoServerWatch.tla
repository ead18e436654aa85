---------------------------- MODULE EchoServerWatch ----------------------------
(***************************************************************************)
(* The watchers and the kernel agree, for any number of connections and    *)
(* descriptors, any backlog and any size of the epoll batches: every       *)
(* watcher libuv counts on is in the epoll set, or queued to be put there  *)
(* by the next uv__io_poll; the assertions of the functions that rely on   *)
(* it hold; and a connection is refused only when the descriptors are all  *)
(* in use.  Watch, the invariant, stands at the end of EchoServerProofs.   *)
(***************************************************************************)
EXTENDS EchoServerProofs

\* A table has finitely many entries in use.
LEMMA UsedFinite ==
  ASSUME NEW l PROVE IsFiniteSet(Used(l)) /\ Cardinality(Used(l)) \in Nat
<1>1. IsFiniteSet(0 .. MaxFd)
  BY FS_Interval, ServerAssumption
<1>2. Used(l) \in SUBSET (0 .. MaxFd)
  BY Zenon DEF Used
<1> QED BY <1>1, <1>2, FS_Subset, FS_CardinalityType, Zenon

\* What uv__io_start makes of the loop l.
IoStarted(l, m, w, f, e) ==
  /\ LoopFields(m)
  /\ m.pevents = [l.pevents EXCEPT ![w] = l.pevents[w] \cup {e}]
  /\ m.events = l.events
  /\ m.watchers = [l.watchers EXCEPT ![f] = w]
  /\ l.queue \subseteq m.queue /\ m.queue \subseteq l.queue \cup {w}
  /\ m.events[w] = m.pevents[w] \/ w \in m.queue

\* What uv__io_stop makes of it: with nothing left to want the watcher leaves
\* the table and the queue, otherwise it is queued.
IoStopped(l, m, w, f, p) ==
  /\ LoopFields(m)
  /\ m.pevents = [l.pevents EXCEPT ![w] = p]
  /\ p # {} => /\ m.watchers = l.watchers /\ m.events = l.events
               /\ m.queue = l.queue \cup {w}
  /\ p = {} => /\ m.watchers = [l.watchers EXCEPT ![f] = Null]
               /\ m.events = [l.events EXCEPT ![w] = {}]
               /\ m.queue = l.queue \ {w}

\* The loop keeps its watchers, the queue and nfds.
IoSame(l, m) ==
  /\ LoopFields(m) /\ m.pevents = l.pevents /\ m.watchers = l.watchers
  /\ m.events = l.events /\ m.queue = l.queue

\* uv__io_start of a watcher that is in the table already, or joins it.
LEMMA IoStartWatch ==
  ASSUME NEW l, LoopShape(l), LoopFields(l), NEW w \in Watchers,
         NEW f \in 0 .. MaxFd, NEW e \in {"IN", "OUT"},
         l.watchers[f] \in {Null, w},
         l.watchers[f] = Null => l.events[w] = {}
  PROVE  IoStarted(l, uv__io_start(l, w, f, e), w, f, e)
<1> DEFINE m == uv__io_start(l, w, f, e)
           p == l.pevents[w] \cup {e}
<1>0. Null \notin Watchers
  BY Names, Zenon
<1>1. m.pevents = [l.pevents EXCEPT ![w] = p] /\ m.events = l.events
  BY Zenon DEF LoopShape, uv__io_start
<1>2. m.pevents[w] = p
  BY <1>1, Zenon DEF LoopShape
<1>3. CASE l.events[w] = p
  <2>1. m.queue = l.queue /\ m.watchers = l.watchers /\ m.nfds = l.nfds
    BY <1>3, Zenon DEF LoopShape, uv__io_start
  <2>2. l.watchers[f] = w
    BY <1>3, Zenon
  <2>3. m.watchers = [l.watchers EXCEPT ![f] = w]
    BY <2>1, <2>2, Zenon DEF LoopShape
  <2>4. LoopFields(m)
    BY <1>1, <2>1, Zenon DEF LoopFields, Used
  <2>8. IoStarted(l, m, w, f, e)
    <3> HIDE DEF m
    <3> QED BY <1>1, <1>2, <1>3, <2>1, <2>3, <2>4, Zenon DEF IoStarted
  <2> QED BY <2>8, Zenon
<1>4. CASE l.events[w] # p
  <2>1. /\ m.queue = l.queue \cup {w}
        /\ m.watchers = [l.watchers EXCEPT ![f] =
                           IF l.watchers[f] = Null THEN w ELSE l.watchers[f]]
        /\ m.nfds = IF l.watchers[f] = Null THEN l.nfds + 1 ELSE l.nfds
    BY <1>4, Zenon DEF LoopShape, uv__io_start
  <2>2. m.watchers = [l.watchers EXCEPT ![f] = w]
    BY <2>1, Zenon
  <2>3. Used(m) = Used(l) \cup {f}
    BY <1>0, <2>2, Zenon DEF LoopShape, Used
  <2>4. m.nfds = Cardinality(Used(m))
    <3>1. Cardinality(Used(l) \cup {f}) =
            IF f \in Used(l) THEN Cardinality(Used(l)) ELSE Cardinality(Used(l)) + 1
      BY UsedFinite, FS_AddElement, Zenon
    <3>2. f \in Used(l) <=> l.watchers[f] # Null
      BY Zenon DEF Used
    <3> QED BY <2>1, <2>3, <3>1, <3>2, Zenon DEF LoopFields
  <2>5. LoopFields(m)
    BY <1>1, <2>1, <2>4, Zenon DEF LoopFields
  <2>8. IoStarted(l, m, w, f, e)
    <3> HIDE DEF m
    <3> QED BY <1>1, <1>2, <2>1, <2>2, <2>5, Zenon DEF IoStarted
  <2> QED BY <2>8, Zenon
<1> QED BY <1>3, <1>4, Zenon

\* uv__io_stop of a watcher in the table.
LEMMA IoStopWatch ==
  ASSUME NEW l, LoopShape(l), LoopFields(l), NEW w \in Watchers,
         NEW f \in 0 .. MaxFd, NEW es, l.watchers[f] = w
  PROVE  IoStopped(l, uv__io_stop(l, w, f, es), w, f, l.pevents[w] \ es)
<1> DEFINE m == uv__io_stop(l, w, f, es)
           p == l.pevents[w] \ es
<1>1. w # Null
  BY Names, Zenon
<1>2. ~(f = NoFd \/ f >= l.nwatchers)
  BY <1>1, ServerAssumption DEF LoopShape, NoFd
<1>3. CASE p # {}
  <2>1. m = [l EXCEPT !.pevents[w] = p, !.queue = l.queue \cup {w}]
    BY <1>2, <1>3, Zenon DEF uv__io_stop
  <2>2. /\ m.pevents = [l.pevents EXCEPT ![w] = p] /\ m.events = l.events
        /\ m.watchers = l.watchers /\ m.queue = l.queue \cup {w} /\ m.nfds = l.nfds
    BY <2>1, Zenon DEF LoopShape
  <2>3. LoopFields(m)
    BY <2>2, Zenon DEF LoopFields, Used
  <2>8. IoStopped(l, m, w, f, p)
    <3> HIDE DEF m, p
    <3> QED BY <1>3, <2>2, <2>3, Zenon DEF IoStopped
  <2> QED BY <2>8, Zenon
<1>4. CASE p = {}
  <2>1. /\ m.pevents = [l.pevents EXCEPT ![w] = {}]
        /\ m.events = [l.events EXCEPT ![w] = {}]
        /\ m.watchers = [l.watchers EXCEPT ![f] = Null]
        /\ m.queue = l.queue \ {w}
        /\ m.nfds = l.nfds - 1
    <3>1. m.pevents = [l.pevents EXCEPT ![w] = {}]
      BY <1>2, <1>4, Zenon DEF LoopShape, uv__io_stop
    <3>2. m.events = [l.events EXCEPT ![w] = {}]
      BY <1>1, <1>2, <1>4, Zenon DEF LoopShape, uv__io_stop
    <3>3. m.watchers = [l.watchers EXCEPT ![f] = Null]
      BY <1>2, <1>4, Zenon DEF LoopShape, uv__io_stop
    <3>4. m.queue = l.queue \ {w}
      BY <1>2, <1>4, Zenon DEF LoopShape, uv__io_stop
    <3>5. m.nfds = l.nfds - 1
      BY <1>1, <1>2, <1>4, Zenon DEF LoopShape, uv__io_stop
    <3> QED BY <3>1, <3>2, <3>3, <3>4, <3>5, Zenon
  <2>2. Used(m) = Used(l) \ {f} /\ f \in Used(l)
    BY <1>1, <2>1, ZenonT(30) DEF LoopShape, Used
  <2>3. m.nfds = Cardinality(Used(m))
    <3>1. Cardinality(Used(l) \ {f}) = Cardinality(Used(l)) - 1
      BY <2>2, UsedFinite, FS_RemoveElement, ZenonT(30)
    <3> QED BY <2>1, <2>2, <3>1, Zenon DEF LoopFields
  <2>4. LoopFields(m)
    BY <2>1, <2>3 DEF LoopFields
  <2>8. IoStopped(l, m, w, f, p)
    <3> HIDE DEF m, p
    <3> QED BY <1>4, <2>1, <2>4, Zenon DEF IoStopped
  <2> QED BY <2>8, Zenon
<1> QED BY <1>3, <1>4, Zenon

\* uv_read_stop in uv_close finds the watcher stopped and changes nothing.
LEMMA IoStopAgain ==
  ASSUME NEW l, LoopShape(l), LoopFields(l), NEW w \in Watchers,
         NEW f \in 0 .. MaxFd, NEW es,
         l.watchers[f] = Null, l.pevents[w] = {}, w \notin l.queue
  PROVE  IoSame(l, uv__io_stop(l, w, f, es))
<1> DEFINE m == uv__io_stop(l, w, f, es)
<1>1. CASE f = NoFd \/ f >= l.nwatchers
  BY <1>1, Zenon DEF uv__io_stop, IoSame
<1>2. CASE ~(f = NoFd \/ f >= l.nwatchers)
  <2>1. /\ m.pevents = [l.pevents EXCEPT ![w] = {}]
        /\ m.events = [l.events EXCEPT ![w] = l.events[w]]
        /\ m.watchers = [l.watchers EXCEPT ![f] = Null]
        /\ m.queue = l.queue \ {w}
        /\ m.nfds = l.nfds
    <3>1. m.pevents = [l.pevents EXCEPT ![w] = {}]
      BY <1>2, Zenon DEF LoopShape, uv__io_stop
    <3>2. m.events = [l.events EXCEPT ![w] = l.events[w]]
      BY <1>2, Zenon DEF LoopShape, uv__io_stop
    <3>3. m.watchers = [l.watchers EXCEPT ![f] = Null]
      BY <1>2, Zenon DEF LoopShape, uv__io_stop
    <3>4. m.queue = l.queue \ {w}
      BY <1>2, Zenon DEF LoopShape, uv__io_stop
    <3>5. m.nfds = l.nfds
      BY <1>2, Zenon DEF LoopShape, uv__io_stop
    <3> QED BY <3>1, <3>2, <3>3, <3>4, <3>5, Zenon
  <2>2. /\ m.pevents = l.pevents /\ m.events = l.events
        /\ m.watchers = l.watchers /\ m.queue = l.queue
    <3>1. m.pevents = l.pevents
      <4>1. l.pevents \in [Watchers -> SUBSET {"IN", "OUT"}]
        BY Zenon DEF LoopShape
      <4>2. l.pevents = [l.pevents EXCEPT ![w] = {}]
        BY <4>1, Zenon
      <4> QED BY <2>1, <4>2, Zenon
    <3>2. m.events = l.events
      <4>1. l.events \in [Watchers -> SUBSET {"IN", "OUT"}]
        BY Zenon DEF LoopFields
      <4>2. l.events = [l.events EXCEPT ![w] = l.events[w]]
        BY <4>1, Zenon
      <4> QED BY <2>1, <4>2, Zenon
    <3>3. m.watchers = l.watchers
      BY <2>1, Zenon DEF LoopShape
    <3> QED BY <2>1, <3>1, <3>2, <3>3, Zenon
  <2>3. LoopFields(m)
    BY <2>1, <2>2, ZenonT(30) DEF LoopFields, Used
  <2>4. IoSame(l, m)
    <3> HIDE DEF m
    <3> QED BY <2>2, <2>3, Zenon DEF IoSame
  <2> QED BY <2>4, Zenon
<1> QED BY <1>1, <1>2, Zenon

\* Nothing is watched before main().
LEMMA InitWatch == Init => Watch
<1> SUFFICES ASSUME Init PROVE Watch
  BY Zenon
<1>1. Used(loop) = {}
  BY Zenon DEF Init, Used
<1>2. WatchTypes
  BY <1>1, FS_EmptySet, Zenon DEF Init, WatchTypes, LoopFields
<1>3. Wants
  BY Names, Zenon DEF Init, Wants
<1>4. TableExact
  BY Names, Zenon DEF Init, TableExact
<1>5. Synced
  BY Zenon DEF Init, Synced
<1>6. ClosingOnce /\ TrickFull
  BY DEF Init, ClosingOnce, TrickFull
<1> QED BY <1>2, <1>3, <1>4, <1>5, <1>6, Zenon DEF Watch

\* Steps that change no watcher and nothing of the epoll set.
LEMMA QuietWatch ==
  ASSUME IInv, Watch, UNCHANGED <<epoll, owes, loop, st, fd, closing>>,
         \A f \in FDs : file'[f] \in Watchers <=> file[f] \in Watchers,
         pc' \in {"main", "exited"} <=> pc \in {"main", "exited"},
         TrickFull'
  PROVE  Watch'
<1>1. WatchTypes'
  BY Zenon DEF Watch, WatchTypes, LoopFields, Used
<1>2. Wants'
  BY Zenon DEF Watch, Wants
<1>3. TableExact'
  BY Zenon DEF Watch, TableExact
<1>4. Synced'
  BY Zenon DEF Watch, Synced
<1>5. ClosingOnce'
  BY Zenon DEF Watch, ClosingOnce
<1> QED BY <1>1, <1>2, <1>3, <1>4, <1>5, Zenon DEF Watch

\* The clients, and the steps of the loop thread between callbacks.
LEMMA QuietStepWatch ==
  ASSUME IInv, Watch,
         \/ \E c \in Conns : Client(c)
         \/ epoll_wait \/ epoll_timeout \/ BatchDone
         \/ AcceptAborted \/ AcceptAgain \/ AcceptFails
         \/ TrickAccept \/ TrickDone \/ SystemFiles \/ UNCHANGED vars
  PROVE  Watch'
<1> USE DEF Client, ClientConnect, ClientAbort, ClientSend, ClientRecv, ClientFin,
            epoll_wait, epoll_timeout, BatchDone, AcceptAborted, AcceptAgain,
            AcceptFails, TrickAccept, TrickDone, SystemFiles, vars, clients, server,
            handles, polling, Accepting, ServerIoReturn
<1>1. UNCHANGED <<epoll, owes, loop, st, fd, closing, file>>
  BY ZenonT(60)
<1>2. pc' \in {"main", "exited"} <=> pc \in {"main", "exited"}
  BY ZenonT(60)
<1>3. pc' = "trick" => pc = "trick"
  BY ZenonT(60)
<1>4. enfile' \in {enfile, enfile + 1}
  BY ZenonT(60)
<1> HIDE DEF Client, ClientConnect, ClientAbort, ClientSend, ClientRecv, ClientFin,
            epoll_wait, epoll_timeout, BatchDone, AcceptAborted, AcceptAgain,
            AcceptFails, TrickAccept, TrickDone, SystemFiles, vars, clients, server,
            handles, polling, Accepting, ServerIoReturn
<1>5. enfile \in Nat
  BY Zenon DEF Watch, TrickFull
<1>6. enfile' \in Nat /\ (enfile' = 0 => enfile = 0)
  BY <1>4, <1>5
<1>7. TrickFull'
  BY <1>1, <1>3, <1>6, Zenon DEF Watch, TrickFull
<1> QED BY <1>1, <1>2, <1>7, QuietWatch, Zenon

\* An event without a watcher is for a descriptor the epoll set does not hold
\* any more.
LEMMA SkipWatch == ASSUME IInv, Watch, SkipEvent PROVE Watch'
<1>1. /\ UNCHANGED <<owes, loop, st, fd, closing, file, pc, enfile>>
      /\ epoll' = [f \in FDs |-> IF f = Event.fd /\ Watcher = Null
                                 THEN {} ELSE epoll[f]]
  BY Zenon DEF SkipEvent, handles
<1>2. ASSUME NEW f \in FDs, f = Event.fd, Watcher = Null
      PROVE  epoll[f] = {}
  <2>1. loop.watchers[f] = Null
    BY <1>2, Zenon DEF Watcher
  <2>2. CASE file[f] \in Watchers
    <3> DEFINE w == file[f]
    <3>1. w \in Watchers /\ fd[w] = f
      BY <2>2, Zenon DEF IInv, DescriptorsOwned
    <3>2. loop.pevents[w] = {}
      BY <2>1, <3>1, Names, Zenon DEF Watch, TableExact
    <3>3. loop.events[w] = {} /\ epoll[fd[w]] = loop.events[w]
      BY <3>1, <3>2, Names, Zenon DEF Watch, Synced
    <3> QED BY <3>1, <3>3, Zenon
  <2>3. CASE file[f] \notin Watchers
    BY <2>3, Zenon DEF Watch, Synced
  <2> QED BY <2>2, <2>3, Zenon
<1>3. epoll' = epoll
  BY <1>1, <1>2, Zenon DEF Watch, WatchTypes
<1>4. TrickFull'
  BY <1>1, Zenon DEF Watch, TrickFull
<1> QED BY <1>1, <1>3, <1>4, QuietWatch, Zenon

\* With no shortage of files in the system the trick starts when all numbers
\* are taken, and frees one.
LEMMA TrickWatch == ASSUME IInv, Watch, uv__emfile_trick \/ TrickReopen PROVE Watch'
<1>1. /\ UNCHANGED <<epoll, owes, loop, st, fd, closing, enfile>>
      /\ pc \notin {"main", "exited"} /\ pc' \notin {"main", "exited"}
      /\ TrickReopen => pc' # "trick"
  BY Zenon DEF uv__emfile_trick, TrickReopen, Accepting, ServerIoReturn, handles, polling
<1>2. /\ file \in [FDs -> Watchers \cup {Spare, Free}] /\ spare \in FDs \cup {NoFd}
      /\ \A f \in FDs : file[f] = Spare <=> spare = f
  BY Zenon DEF IInv, Types, DescriptorsOwned
<1>3. CASE uv__emfile_trick
  <2>1. /\ file' = [file EXCEPT ![spare] = Free] /\ spare \in FDs
        /\ Full(file) \/ Enfile
    BY <1>2, <1>3, Zenon DEF uv__emfile_trick
  <2>2. \A f \in FDs : file'[f] \in Watchers <=> file[f] \in Watchers
    BY <1>2, <2>1, Names, Zenon
  <2>3. TrickFull'
    <3>1. enfile = 0 => Full(file)
      BY <2>1 DEF Enfile
    <3>2. file'[spare] = Free
      BY <1>2, <2>1, Zenon
    <3>3. Full(file) => \A f \in FDs : f # spare => file'[f] \in Watchers
      BY <1>2, <2>1, Zenon DEF Full
    <3>4. enfile \in Nat
      BY Zenon DEF Watch, TrickFull
    <3> QED BY <1>1, <2>1, <3>1, <3>2, <3>3, <3>4, Zenon DEF TrickFull
  <2> QED BY <1>1, <2>2, <2>3, QuietWatch, Zenon
<1>4. CASE TrickReopen
  <2>1. \/ spare' = spare /\ file' = file
        \/ \E g \in FDs : /\ spare = NoFd /\ file[g] = Free
                           /\ spare' = g /\ file' = [file EXCEPT ![g] = Spare]
    BY <1>4, OpenSpareEffect, Zenon DEF TrickReopen
  <2>2. \A f \in FDs : file'[f] \in Watchers <=> file[f] \in Watchers
    BY <1>2, <2>1, Names, Zenon
  <2>3. TrickFull'
    BY <1>1, <1>4, Zenon DEF Watch, TrickFull
  <2> QED BY <1>1, <2>2, <2>3, QuietWatch, Zenon
<1> QED BY <1>3, <1>4, Zenon

\* uv__io_poll brings the epoll set up to date: the watchers in the queue have
\* descriptors of their own.
LEMMA CtlWatch == ASSUME IInv, Watch, epoll_ctl PROVE Watch'
<1> DEFINE Q == loop.queue
<1>1. /\ UNCHANGED <<owes, st, fd, closing, file, enfile>>
      /\ pc = "poll" /\ pc' = "wait"
      /\ epoll' = [f \in FDs |-> IF \E w \in Q : fd[w] = f
                                 THEN loop.pevents[CHOOSE w \in Q : fd[w] = f]
                                 ELSE epoll[f]]
  BY Zenon DEF epoll_ctl, handles
<1>2. LoopShape(loop) /\ LoopFields(loop)
  BY Zenon DEF IInv, Types, Watch, WatchTypes
<1>3. /\ loop'.pevents = loop.pevents /\ loop'.watchers = loop.watchers
      /\ loop'.nfds = loop.nfds /\ loop'.queue = {}
      /\ loop'.events = [w \in Watchers |-> IF w \in Q THEN loop.pevents[w]
                                                       ELSE loop.events[w]]
  <2> DEFINE e == [w \in Watchers |-> IF w \in Q THEN loop.pevents[w]
                                                 ELSE loop.events[w]]
  <2>1. loop' = [loop EXCEPT !.events = e, !.queue = {}]
    BY Zenon DEF epoll_ctl
  <2> HIDE DEF e
  <2>2. /\ loop'.pevents = loop.pevents /\ loop'.watchers = loop.watchers
        /\ loop'.nfds = loop.nfds /\ loop'.queue = {} /\ loop'.events = e
    BY <1>2, <2>1, Zenon DEF LoopShape
  <2> QED BY <2>2, Zenon DEF e
<1>4. /\ Q \subseteq Watchers /\ loop.pevents \in [Watchers -> SUBSET {"IN", "OUT"}]
      /\ loop.events \in [Watchers -> SUBSET {"IN", "OUT"}]
      /\ epoll \in [FDs -> SUBSET {"IN", "OUT"}]
      /\ fd \in [Watchers -> FDs \cup {NoFd}]
  BY <1>2, Zenon DEF LoopShape, LoopFields, IInv, Types, Watch, WatchTypes
<1>5. \A v, w \in Watchers : fd[v] \in FDs /\ fd[v] = fd[w] => v = w
  BY DEF IInv, DescriptorsOwned
<1>6. \A w \in Watchers : fd[w] \in FDs =>
        epoll'[fd[w]] = IF w \in Q THEN loop.pevents[w] ELSE epoll[fd[w]]
  <2> TAKE w \in Watchers
  <2> HAVE fd[w] \in FDs
  <2>1. CASE w \in Q
    <3>1. \E v \in Q : fd[v] = fd[w]
      BY <2>1, Zenon
    <3>2. (CHOOSE v \in Q : fd[v] = fd[w]) = w
      BY <1>4, <1>5, <3>1, Zenon
    <3> QED BY <1>1, <2>1, <3>1, <3>2, Zenon
  <2>2. CASE w \notin Q
    <3>1. ~ \E v \in Q : fd[v] = fd[w]
      BY <1>4, <1>5, <2>2, Zenon
    <3> QED BY <1>1, <2>2, <3>1, Zenon
  <2> QED BY <2>1, <2>2, Zenon
<1>7. WatchTypes'
  <2>1. loop'.events \in [Watchers -> SUBSET {"IN", "OUT"}]
    BY <1>3, <1>4, Zenon
  <2>2. LoopFields(loop')
    BY <1>2, <1>3, <2>1, Zenon DEF LoopFields, Used
  <2>3. \A f \in FDs : epoll'[f] \in SUBSET {"IN", "OUT"}
    <3> TAKE f \in FDs
    <3>1. CASE \E w \in Q : fd[w] = f
      BY <1>4, <1>6, <3>1, Zenon
    <3>2. CASE ~ \E w \in Q : fd[w] = f
      BY <1>1, <1>4, <3>2, Zenon
    <3> QED BY <3>1, <3>2, Zenon
  <2>4. epoll' \in [FDs -> SUBSET {"IN", "OUT"}]
    BY <1>1, <2>3, Zenon
  <2> QED BY <1>1, <2>2, <2>4, Zenon DEF Watch, WatchTypes
<1>8. Wants' /\ TableExact' /\ ClosingOnce' /\ TrickFull'
  BY <1>1, <1>3 DEF Watch, Wants, TableExact, ClosingOnce, TrickFull
<1>9. Synced'
  <2>1. \A w \in Watchers : loop.pevents[w] = {} => loop'.events[w] = {}
    BY <1>3, <1>4 DEF Watch, Synced
  <2>2. \A w \in Watchers : fd[w] # NoFd =>
          /\ epoll'[fd[w]] = loop'.events[w] /\ loop'.events[w] = loop.pevents[w]
    BY <1>3, <1>4, <1>6 DEF Watch, Synced
  <2>3. \A f \in FDs : file[f] \notin Watchers => epoll'[f] = {}
    <3> TAKE f \in FDs
    <3> HAVE file[f] \notin Watchers
    <3>1. ~ \E w \in Q : fd[w] = f
      BY <1>4 DEF IInv, DescriptorsOwned
    <3> QED BY <1>1, <3>1, Zenon DEF Watch, Synced
  <2> QED BY <1>1, <1>3, <2>1, <2>2, <2>3 DEF Synced
<1> QED BY <1>7, <1>8, <1>9, Zenon DEF Watch

\* uv__run_closing_handles finishes handles that are not open.
LEMMA ClosingWatch == ASSUME IInv, Watch, uv__run_closing_handles PROVE Watch'
<1>1. /\ UNCHANGED <<epoll, loop, fd, file, enfile>>
      /\ st' = [c \in Conns |-> IF c \in Range(closing) THEN "closed" ELSE st[c]]
      /\ owes' = [c \in Conns |-> owes[c] /\ c \notin Range(closing)]
      /\ closing' = <<>> /\ pc = "closing" /\ pc' = "poll"
  BY Zenon DEF uv__run_closing_handles
<1>2. \A c \in Range(closing) : st[c] = "closing"
  BY Zenon DEF IInv, HandlesFresh
<1>3. \A c \in Conns : /\ st'[c] = "open" <=> st[c] = "open"
                       /\ st'[c] = "none" <=> st[c] = "none"
  BY <1>1, <1>2, Zenon
<1>4. \A c \in Conns : st[c] \in {"open", "none"} => owes'[c] = owes[c]
  <2> TAKE c \in Conns
  <2> HAVE st[c] \in {"open", "none"}
  <2>1. c \notin Range(closing)
    BY <1>2, Zenon
  <2>2. owes[c] \in BOOLEAN
    BY Zenon DEF Watch, WatchTypes
  <2>3. owes'[c] = (owes[c] /\ c \notin Range(closing))
    BY <1>1, Zenon
  <2> QED BY <2>1, <2>2, <2>3, Zenon
<1>5. WatchTypes'
  BY <1>1, Zenon DEF Watch, WatchTypes, LoopFields, Used
<1>6. Wants'
  <2>1. \A c \in Conns : loop.pevents[c] =
          IF st'[c] = "open" THEN IF owes'[c] THEN {"IN", "OUT"} ELSE {"IN"} ELSE {}
    BY <1>3, <1>4, Zenon DEF Watch, Wants
  <2>2. \A c \in Conns : st'[c] = "none" => ~owes'[c]
    BY <1>3, <1>4, Zenon DEF Watch, Wants
  <2> QED BY <1>1, <2>1, <2>2, Zenon DEF Watch, Wants
<1>7. TableExact' /\ Synced' /\ TrickFull'
  BY <1>1 DEF Watch, TableExact, Synced, TrickFull
<1>8. ClosingOnce'
  BY <1>1 DEF ClosingOnce
<1> QED BY <1>5, <1>6, <1>7, <1>8, Zenon DEF Watch

\* The loop updates a watcher that stays in the table.
LEMMA RewatchWatch ==
  ASSUME IInv, Watch, NEW w \in Watchers, fd[w] \in FDs,
         NEW p \in SUBSET {"IN", "OUT"}, p # {},
         LoopFields(loop'), loop'.pevents = [loop.pevents EXCEPT ![w] = p],
         loop.pevents[w] # {},
         loop'.events = loop.events, loop'.watchers = loop.watchers,
         loop.queue \subseteq loop'.queue, loop'.queue \subseteq loop.queue \cup {w},
         loop'.events[w] = loop'.pevents[w] \/ w \in loop'.queue,
         UNCHANGED <<fd, file, st, closing, epoll>>, owes' \in [Conns -> BOOLEAN]
  PROVE  WatchTypes' /\ TableExact' /\ Synced' /\ ClosingOnce'
<1>1. loop.pevents \in [Watchers -> SUBSET {"IN", "OUT"}]
  BY Zenon DEF IInv, Types, LoopShape
<1>2. \A v \in Watchers : loop'.pevents[v] = IF v = w THEN p ELSE loop.pevents[v]
  BY <1>1, Zenon
<1>3. WatchTypes'
  BY Zenon DEF Watch, WatchTypes
<1>4. TableExact'
  BY <1>2 DEF Watch, TableExact
<1>5. loop.queue \subseteq Watchers /\ loop'.queue \subseteq Watchers
  BY Zenon DEF Watch, WatchTypes, LoopFields
<1>6. Synced'
  <2>1. \A v \in Watchers : loop'.pevents[v] = {} => loop'.events[v] = {}
    BY <1>2, Zenon DEF Watch, Synced
  <2>2. \A v \in Watchers : fd[v] # NoFd =>
          /\ epoll[fd[v]] = loop'.events[v]
          /\ loop'.events[v] = loop'.pevents[v] \/ v \in loop'.queue
    BY <1>2, ZenonT(40) DEF Watch, Synced
  <2>3. \A v \in loop'.queue : loop'.pevents[v] # {} /\ fd[v] # NoFd
    BY <1>2, <1>5, Names DEF Watch, Synced
  <2>4. \A f \in FDs : file[f] \notin Watchers => epoll[f] = {}
    BY Zenon DEF Watch, Synced
  <2> QED BY <2>1, <2>2, <2>3, <2>4, Zenon DEF Synced
<1>7. ClosingOnce'
  BY Zenon DEF Watch, ClosingOnce
<1> QED BY <1>3, <1>4, <1>6, <1>7, Zenon

\* uv__server_io starts the listener's watcher, which is started already.
LEMMA ServerIoWatch == ASSUME IInv, Watch, uv__server_io PROVE Watch'
<1> DEFINE f == fd[Listener]
<1>1. /\ Dispatching /\ Event.fd # NoFd /\ Watcher = Listener
      /\ loop' = uv__io_start(loop, Listener, f, "IN")
      /\ UNCHANGED <<epoll, owes, st, fd, closing, file, enfile>>
      /\ pc = "dispatch" /\ pc' = "accept"
  BY Zenon DEF uv__server_io, Dispatching, handles
<1>2. /\ Listener \in Watchers /\ f \in FDs /\ f \in 0 .. MaxFd
      /\ loop.watchers[f] = Listener
  BY <1>1, Names, WatcherHolds, Zenon
<1>3. LoopShape(loop) /\ LoopFields(loop) /\ owes \in [Conns -> BOOLEAN]
  BY Zenon DEF IInv, Types, Watch, WatchTypes
<1>4. loop.pevents[Listener] = {"IN"}
  BY <1>1, Zenon DEF Watch, Wants
<1> HIDE DEF f
<1>5. IoStarted(loop, loop', Listener, f, "IN")
  <2>1. /\ loop.watchers[f] \in {Null, Listener} /\ "IN" \in {"IN", "OUT"}
        /\ loop.watchers[f] = Null => loop.events[Listener] = {}
    BY <1>2, Names, Zenon
  <2> QED BY <1>1, <1>2, <1>3, <2>1, IoStartWatch, Zenon
<1>6. loop'.watchers = loop.watchers
  BY <1>2, <1>3, <1>5, Zenon DEF LoopShape, IoStarted
<1>7. loop'.pevents = [loop.pevents EXCEPT ![Listener] = {"IN"}]
  <2>1. {"IN"} \cup {"IN"} = {"IN"}
    BY Zenon
  <2> QED BY <1>4, <1>5, <2>1, Zenon DEF IoStarted
<1>8. WatchTypes' /\ TableExact' /\ Synced' /\ ClosingOnce'
  <2>1. fd[Listener] \in FDs /\ {"IN"} \in SUBSET {"IN", "OUT"} /\ {"IN"} # {}
    BY <1>2, Zenon DEF f
  <2> QED
    BY <1>1, <1>2, <1>3, <1>4, <1>5, <1>6, <1>7, <2>1, RewatchWatch, Zenon
       DEF IoStarted
<1>9. Wants'
  <2>1. loop'.pevents = loop.pevents
    BY <1>3, <1>4, <1>7, Zenon DEF LoopShape
  <2> QED BY <1>1, <2>1, Zenon DEF Watch, Wants
<1>10. TrickFull'
  BY <1>1, Zenon DEF Watch, TrickFull
<1> QED BY <1>8, <1>9, <1>10, Zenon DEF Watch

\* Reading and writing leave the watcher wanting input, and output if
\* something stays queued.
LEMMA StreamWatch ==
  ASSUME IInv, Watch, NEW c \in Conns, StreamRead(c) \/ StreamWrite(c)
  PROVE  Watch'
<1> DEFINE f == fd[c]
<1>1. /\ Dispatching /\ Event.fd # NoFd /\ Watcher = c
      /\ UNCHANGED <<epoll, st, fd, closing, file, enfile, pc>>
      /\ pc = "dispatch"
      /\ StreamWrite(c) => "OUT" \in Wanted
  BY Zenon DEF StreamRead, StreamWrite, StreamIo, Dispatching, NextEvent
<1>2. /\ c \in Watchers /\ f \in FDs /\ f \in 0 .. MaxFd
      /\ loop.watchers[f] = c /\ c # Listener
  BY <1>1, Names, WatcherHolds, Zenon
<1>3. LoopShape(loop) /\ LoopFields(loop) /\ owes \in [Conns -> BOOLEAN]
  BY Zenon DEF IInv, Types, Watch, WatchTypes
<1>4. st[c] = "open"
  BY <1>2, Names, Zenon DEF IInv, DescriptorsOwned
<1>5. loop.pevents[c] = IF owes[c] THEN {"IN", "OUT"} ELSE {"IN"}
  BY <1>4, Zenon DEF Watch, Wants
<1>6. \/ owes' = [owes EXCEPT ![c] = FALSE] /\ loop' = loop /\ ~owes[c]
      \/ /\ owes' = [owes EXCEPT ![c] = FALSE] /\ owes[c]
         /\ loop' = uv__io_stop(loop, c, f, {"OUT"})
      \/ /\ owes' = [owes EXCEPT ![c] = TRUE]
         /\ loop' = uv__io_start(loop, c, f, "OUT")
  <2>1. CASE StreamWrite(c)
    <3>1. "OUT" \in loop.pevents[c]
      BY <1>1, <2>1, Zenon DEF Wanted
    <3>2. owes[c]
      BY <1>5, <3>1
    <3> QED BY <2>1, <3>2, Zenon DEF StreamWrite
  <2>2. CASE StreamRead(c)
    BY <2>2, ZenonT(30) DEF StreamRead
  <2> QED BY <2>1, <2>2, Zenon
<1> HIDE DEF f
<1>7. /\ owes' \in [Conns -> BOOLEAN]
      /\ \A d \in Conns : d # c => owes'[d] = owes[d]
  BY <1>3, <1>6, Zenon
<1>8. \E p \in SUBSET {"IN", "OUT"} :
        /\ p = IF owes'[c] THEN {"IN", "OUT"} ELSE {"IN"}
        /\ LoopFields(loop') /\ loop'.pevents = [loop.pevents EXCEPT ![c] = p]
        /\ loop'.events = loop.events /\ loop'.watchers = loop.watchers
        /\ loop.queue \subseteq loop'.queue /\ loop'.queue \subseteq loop.queue \cup {c}
        /\ loop'.events[c] = loop'.pevents[c] \/ c \in loop'.queue
  <2>1. CASE owes' = [owes EXCEPT ![c] = FALSE] /\ loop' = loop /\ ~owes[c]
    <3>1. ~owes'[c]
      BY <1>3, <2>1, Zenon
    <3>2. loop.pevents = [loop.pevents EXCEPT ![c] = {"IN"}]
      BY <1>2, <1>3, <1>5, <2>1, Zenon DEF LoopShape
    <3>3. loop.events[c] = loop.pevents[c] \/ c \in loop.queue
      <4>1. \A w \in Watchers : fd[w] # NoFd =>
              loop.events[w] = loop.pevents[w] \/ w \in loop.queue
        BY Zenon DEF Watch, Synced
      <4>2. fd[c] # NoFd
        BY <1>2, Names, Zenon DEF f
      <4> QED BY <1>2, <4>1, <4>2, Zenon
    <3> QED BY <1>3, <2>1, <3>1, <3>2, <3>3, ZenonT(40)
  <2>2. CASE /\ owes' = [owes EXCEPT ![c] = FALSE] /\ owes[c]
             /\ loop' = uv__io_stop(loop, c, f, {"OUT"})
    <3>1. ~owes'[c]
      BY <1>3, <2>2, Zenon
    <3> DEFINE p == loop.pevents[c] \ {"OUT"}
    <3>2. p = {"IN"}
      BY <1>5, <2>2, Zenon
    <3>3. IoStopped(loop, loop', c, f, p)
      BY <1>2, <1>3, <2>2, IoStopWatch, Zenon
    <3> HIDE DEF p
    <3>4. c \in loop'.queue
      BY <3>2, <3>3, Zenon DEF IoStopped
    <3> QED BY <3>1, <3>2, <3>3, <3>4, Zenon DEF IoStopped
  <2>3. CASE /\ owes' = [owes EXCEPT ![c] = TRUE]
             /\ loop' = uv__io_start(loop, c, f, "OUT")
    <3>1. owes'[c]
      BY <1>3, <2>3, Zenon
    <3> DEFINE p == loop.pevents[c] \cup {"OUT"}
    <3>2. p = {"IN", "OUT"}
      BY <1>5, Zenon
    <3>3. /\ loop.watchers[f] \in {Null, c} /\ "OUT" \in {"IN", "OUT"}
          /\ loop.watchers[f] = Null => loop.events[c] = {}
      BY <1>2, Names, Zenon
    <3>4. IoStarted(loop, loop', c, f, "OUT")
      BY <1>2, <1>3, <2>3, <3>3, IoStartWatch, Zenon
    <3>5. loop'.watchers = loop.watchers
      BY <1>2, <1>3, <3>4, Zenon DEF LoopShape, IoStarted
    <3>6. loop'.pevents = [loop.pevents EXCEPT ![c] = p]
      BY <3>4, Zenon DEF IoStarted
    <3> HIDE DEF p
    <3> QED BY <3>1, <3>2, <3>4, <3>5, <3>6, Zenon DEF IoStarted
  <2> QED BY <1>6, <2>1, <2>2, <2>3, Zenon
<1>9. PICK p \in SUBSET {"IN", "OUT"} :
        /\ p = IF owes'[c] THEN {"IN", "OUT"} ELSE {"IN"}
        /\ LoopFields(loop') /\ loop'.pevents = [loop.pevents EXCEPT ![c] = p]
        /\ loop'.events = loop.events /\ loop'.watchers = loop.watchers
        /\ loop.queue \subseteq loop'.queue /\ loop'.queue \subseteq loop.queue \cup {c}
        /\ loop'.events[c] = loop'.pevents[c] \/ c \in loop'.queue
  BY <1>8, ZenonT(30)
<1>10. WatchTypes' /\ TableExact' /\ Synced' /\ ClosingOnce'
  <2>1. fd[c] \in FDs /\ p # {} /\ loop.pevents[c] # {}
    BY <1>2, <1>5, <1>9, Zenon DEF f
  <2> QED BY <1>1, <1>2, <1>7, <1>9, <2>1, RewatchWatch, Zenon
<1>11. Wants'
  <2>1. /\ \A d \in Conns : d # c => loop'.pevents[d] = loop.pevents[d]
        /\ loop'.pevents[c] = p /\ loop'.pevents[Listener] = loop.pevents[Listener]
    BY <1>2, <1>3, <1>9, Names, Zenon DEF LoopShape
  <2>2. \A d \in Conns : loop'.pevents[d] =
          IF st[d] = "open" THEN IF owes'[d] THEN {"IN", "OUT"} ELSE {"IN"} ELSE {}
    BY <1>4, <1>7, <1>9, <2>1, ZenonT(30) DEF Watch, Wants
  <2>3. \A d \in Conns : st[d] = "none" => ~owes'[d]
    BY <1>4, <1>7, Zenon DEF Watch, Wants
  <2> QED BY <1>1, <2>1, <2>2, <2>3, Zenon DEF Watch, Wants
<1>12. TrickFull'
  BY <1>1, Zenon DEF Watch, TrickFull
<1> QED BY <1>10, <1>11, <1>12, Zenon DEF Watch

\* main() starts the listener's watcher, or returns with nothing watched.
LEMMA MainWatch == ASSUME IInv, Watch, main PROVE Watch'
<1> DEFINE f == FirstFd + 1
<1>1. /\ UNCHANGED <<epoll, owes, st, closing, enfile>> /\ pc = "main"
      /\ fd' = [fd EXCEPT ![Listener] = f]
      /\ file' = [file EXCEPT ![FirstFd] = Spare, ![f] = Listener]
      /\ \/ loop' = uv__io_start(loop, Listener, f, "IN") /\ pc' = "poll"
         \/ loop' = loop /\ pc' = "exited"
  BY Zenon DEF main
<1>2. FirstFd \in FDs /\ f \in FDs /\ f \in 0 .. MaxFd /\ FirstFd # f
  BY ServerAssumption DEF FDs
<1> HIDE DEF f
<1>3. /\ \A g \in FDs : file[g] = Free /\ loop.watchers[g] = Null
      /\ \A w \in Watchers : fd[w] = NoFd
      /\ file \in [FDs -> Watchers \cup {Spare, Free}]
      /\ fd \in [Watchers -> FDs \cup {NoFd}]
      /\ LoopShape(loop) /\ LoopFields(loop)
  BY <1>1, Zenon DEF IInv, Types, Started, Watch, WatchTypes
<1>4. \A c \in Conns : st[c] # "open"
  BY <1>3, Names, Zenon DEF IInv, DescriptorsOwned
<1>5. /\ \A w \in Watchers : loop.pevents[w] = {}
      /\ \A w \in Watchers : loop.events[w] = {}
      /\ loop.queue = {}
  <2>1. \A w \in Watchers : loop.pevents[w] = {}
    BY <1>1, <1>4, Zenon DEF Watch, Wants, Watchers
  <2>2. \A w \in Watchers : loop.events[w] = {}
    BY <2>1, Zenon DEF Watch, Synced
  <2>3. loop.queue = {}
    BY <1>3, <2>1, Zenon DEF Watch, Synced, LoopFields
  <2> QED BY <2>1, <2>2, <2>3, Zenon
<1>6. \A g \in FDs : epoll[g] = {}
  BY <1>3, Names DEF Watch, Synced
<1>7. /\ \A w \in Watchers : fd'[w] = IF w = Listener THEN f ELSE NoFd
      /\ \A g \in FDs : file'[g] \in Watchers => g = f
  BY <1>1, <1>2, <1>3, Names, Zenon
<1>8. ClosingOnce' /\ TrickFull'
  BY <1>1, Zenon DEF Watch, ClosingOnce, TrickFull
<1>9. CASE loop' = loop /\ pc' = "exited"
  <2>1. WatchTypes'
    BY <1>1, <1>9, Zenon DEF Watch, WatchTypes, LoopFields, Used
  <2>2. Wants'
    BY <1>1, <1>5, <1>9, Names, Zenon DEF Watch, Wants
  <2>3. TableExact'
    BY <1>3, <1>5, <1>9, Names, Zenon DEF TableExact
  <2>4. Synced'
    BY <1>1, <1>2, <1>5, <1>6, <1>7, <1>9, Zenon DEF Synced
  <2> QED BY <1>8, <2>1, <2>2, <2>3, <2>4, Zenon DEF Watch
<1>10. CASE loop' = uv__io_start(loop, Listener, f, "IN") /\ pc' = "poll"
  <2>1. IoStarted(loop, loop', Listener, f, "IN")
    <3>1. /\ loop.watchers[f] \in {Null, Listener} /\ "IN" \in {"IN", "OUT"}
          /\ loop.watchers[f] = Null => loop.events[Listener] = {}
          /\ Listener \in Watchers
      BY <1>2, <1>3, <1>5, Names, Zenon
    <3> QED BY <1>2, <1>3, <1>10, <3>1, IoStartWatch, Zenon
  <2>2. /\ \A w \in Watchers : loop'.pevents[w] = IF w = Listener THEN {"IN"} ELSE {}
        /\ \A w \in Watchers : loop'.events[w] = {}
        /\ loop'.queue \subseteq {Listener}
    <3>1. loop'.pevents =
            [loop.pevents EXCEPT ![Listener] = loop.pevents[Listener] \cup {"IN"}]
      BY <2>1, Zenon DEF IoStarted
    <3>2. \A w \in Watchers : loop'.pevents[w] = IF w = Listener THEN {"IN"} ELSE {}
      BY <1>3, <1>5, <3>1, Zenon DEF LoopShape
    <3> QED BY <1>5, <2>1, <3>2, Zenon DEF IoStarted
  <2>3. \A g \in FDs : loop'.watchers[g] = IF g = f THEN Listener ELSE Null
    BY <1>2, <1>3, <2>1, Names, ZenonT(40) DEF LoopShape, IoStarted
  <2>4. WatchTypes'
    BY <1>1, <2>1, Zenon DEF Watch, WatchTypes, IoStarted
  <2>5. Wants'
    BY <1>1, <1>4, <1>10, <2>2, Names, Zenon DEF Watch, Wants
  <2>6. TableExact'
    BY <1>2, <1>7, <2>2, <2>3, Names DEF TableExact
  <2>7. Synced'
    <3>1. \A w \in Watchers : loop'.pevents[w] = {} => loop'.events[w] = {}
      BY <2>2, Zenon
    <3>2. Listener \in loop'.queue
      BY <2>1, <2>2, Names, Zenon DEF IoStarted
    <3>3. \A w \in Watchers : fd'[w] # NoFd =>
            /\ epoll[fd'[w]] = loop'.events[w]
            /\ loop'.events[w] = loop'.pevents[w] \/ w \in loop'.queue
      BY <1>2, <1>6, <1>7, <2>2, <3>2, Zenon
    <3>4. \A w \in loop'.queue : loop'.pevents[w] # {} /\ fd'[w] # NoFd
      BY <1>2, <1>7, <2>2, Names, Zenon
    <3> QED BY <1>1, <1>6, <3>1, <3>3, <3>4, Zenon DEF Synced
  <2> QED BY <1>8, <2>4, <2>5, <2>6, <2>7, Zenon DEF Watch
<1> QED BY <1>1, <1>9, <1>10, Zenon

\* uv_close leaves no trace of the handle in the table, the queue and the
\* epoll set, and puts it on the closing list once.
LEMMA CloseWatch == ASSUME IInv, Watch, NEW c \in Conns, StreamEof(c) PROVE Watch'
<1> DEFINE f == fd[c]
<1>1. /\ Dispatching /\ Event.fd # NoFd /\ Watcher = c
      /\ pc = "dispatch" /\ UNCHANGED <<pc, enfile, owes>>
      /\ loop' = uv__io_stop(uv__io_stop(loop, c, f, {"IN", "OUT"}), c, f, {"IN"})
      /\ epoll' = [epoll EXCEPT ![f] = {}]
      /\ file' = [file EXCEPT ![f] = Free]
      /\ fd' = [fd EXCEPT ![c] = NoFd]
      /\ st' = [st EXCEPT ![c] = "closing"]
      /\ closing' = <<c>> \o closing
  BY Zenon DEF StreamEof, uv_close, StreamIo, Dispatching, NextEvent
<1>2. /\ c \in Watchers /\ f \in FDs /\ f \in 0 .. MaxFd
      /\ loop.watchers[f] = c /\ c # Listener
  BY <1>1, Names, WatcherHolds, Zenon
<1>3. /\ LoopShape(loop) /\ LoopFields(loop)
      /\ epoll \in [FDs -> SUBSET {"IN", "OUT"}] /\ closing \in Seq(Conns)
      /\ file \in [FDs -> Watchers \cup {Spare, Free}]
      /\ fd \in [Watchers -> FDs \cup {NoFd}]
      /\ st \in [Conns -> {"none", "open", "closing", "closed"}]
      /\ owes \in [Conns -> BOOLEAN]
  BY Zenon DEF IInv, Types, Watch, WatchTypes
<1>4. /\ st[c] = "open"
      /\ \A w \in Watchers : w # c => fd[w] # f
  BY <1>2, Names DEF IInv, DescriptorsOwned
<1> HIDE DEF f
<1>5. /\ LoopFields(loop') /\ loop'.pevents = [loop.pevents EXCEPT ![c] = {}]
      /\ loop'.watchers = [loop.watchers EXCEPT ![f] = Null]
      /\ loop'.events = [loop.events EXCEPT ![c] = {}]
      /\ loop'.queue = loop.queue \ {c}
  <2> DEFINE m == uv__io_stop(loop, c, f, {"IN", "OUT"})
             p == loop.pevents[c] \ {"IN", "OUT"}
  <2>1. IoStopped(loop, m, c, f, p)
    BY <1>2, <1>3, IoStopWatch, Zenon
  <2>2. LoopShape(m)
    BY <1>2, <1>3, IoStopEffect, Zenon
  <2>3. p = {}
    BY <1>2, <1>3, Zenon DEF LoopShape
  <2>4. loop' = uv__io_stop(m, c, f, {"IN"})
    BY <1>1, Zenon
  <2> HIDE DEF m, p
  <2>5. /\ LoopFields(m) /\ m.pevents = [loop.pevents EXCEPT ![c] = {}]
        /\ m.watchers = [loop.watchers EXCEPT ![f] = Null]
        /\ m.events = [loop.events EXCEPT ![c] = {}]
        /\ m.queue = loop.queue \ {c}
    BY <2>1, <2>3, Zenon DEF IoStopped
  <2>6. m.watchers[f] = Null /\ m.pevents[c] = {} /\ c \notin m.queue
    <3>1. m.watchers[f] = Null
      BY <1>2, <1>3, <2>5, Zenon DEF LoopShape
    <3>2. m.pevents[c] = {}
      BY <1>2, <1>3, <2>5, Zenon DEF LoopShape
    <3>3. c \notin m.queue
      BY <2>5, Zenon
    <3> QED BY <3>1, <3>2, <3>3, Zenon
  <2>7. IoSame(m, loop')
    BY <1>2, <2>2, <2>4, <2>5, <2>6, IoStopAgain, Zenon
  <2> QED BY <2>5, <2>7, Zenon DEF IoSame
<1>6. /\ \A w \in Watchers : loop'.pevents[w] = IF w = c THEN {} ELSE loop.pevents[w]
      /\ \A w \in Watchers : loop'.events[w] = IF w = c THEN {} ELSE loop.events[w]
      /\ \A g \in FDs : loop'.watchers[g] = IF g = f THEN Null ELSE loop.watchers[g]
  <2>1. /\ loop.pevents \in [Watchers -> SUBSET {"IN", "OUT"}]
        /\ loop.events \in [Watchers -> SUBSET {"IN", "OUT"}]
        /\ loop.watchers \in [0 .. MaxFd -> Watchers \cup {Null}]
    BY <1>3, Zenon DEF LoopShape, LoopFields
  <2> QED BY <1>2, <1>5, <2>1, Names, Zenon
<1>7. /\ \A w \in Watchers : fd'[w] = IF w = c THEN NoFd ELSE fd[w]
      /\ \A g \in FDs : epoll'[g] = IF g = f THEN {} ELSE epoll[g]
      /\ \A g \in FDs : file'[g] = IF g = f THEN Free ELSE file[g]
      /\ \A d \in Conns : st'[d] = IF d = c THEN "closing" ELSE st[d]
  BY <1>1, <1>2, <1>3, Zenon
<1>8. WatchTypes'
  BY <1>1, <1>2, <1>3, <1>5, Zenon DEF WatchTypes
<1>9. Wants'
  <2>1. \A d \in Conns : loop'.pevents[d] =
          IF st'[d] = "open" THEN IF owes[d] THEN {"IN", "OUT"} ELSE {"IN"} ELSE {}
    BY <1>6, <1>7, Names, ZenonT(40) DEF Watch, Wants
  <2>2. loop'.pevents[Listener] = loop.pevents[Listener]
    BY <1>2, <1>6, Names, Zenon
  <2>3. \A d \in Conns : st'[d] = "none" => ~owes[d]
    BY <1>7, Zenon DEF Watch, Wants
  <2> QED BY <1>1, <2>1, <2>2, <2>3, Zenon DEF Watch, Wants
<1>10. TableExact'
  <2>1. \A g \in FDs, w \in Watchers :
          loop.watchers[g] = w <=> fd[w] = g /\ loop.pevents[w] # {}
    BY Zenon DEF Watch, TableExact
  <2>2. ASSUME NEW g \in FDs, NEW w \in Watchers
        PROVE  loop'.watchers[g] = w <=> fd'[w] = g /\ loop'.pevents[w] # {}
    <3>1. w # Null /\ g # NoFd
      BY Names, Zenon
    <3>2. CASE w = c
      <4>1. fd'[w] # g
        BY <1>7, <3>1, <3>2, Zenon
      <4>2. loop'.watchers[g] # w
        BY <1>6, <2>1, <3>1, <3>2 DEF f
      <4> QED BY <4>1, <4>2, Zenon
    <3>3. CASE w # c
      BY <1>2, <1>4, <1>6, <1>7, <2>1, <3>1, <3>3
    <3> QED BY <3>2, <3>3, Zenon
  <2> QED BY <2>2, Zenon DEF TableExact
<1>11. Synced'
  <2>1. \A w \in Watchers : loop'.pevents[w] = {} => loop'.events[w] = {}
    BY <1>6, Zenon DEF Watch, Synced
  <2>2. \A w \in Watchers : fd'[w] # NoFd =>
          /\ epoll'[fd'[w]] = loop'.events[w]
          /\ loop'.events[w] = loop'.pevents[w] \/ w \in loop'.queue
    <3> SUFFICES ASSUME NEW w \in Watchers, fd'[w] # NoFd
                 PROVE  /\ epoll'[fd'[w]] = loop'.events[w]
                        /\ loop'.events[w] = loop'.pevents[w] \/ w \in loop'.queue
      BY Zenon
    <3>1. w # c /\ fd'[w] = fd[w] /\ fd[w] # NoFd
      BY <1>7, Zenon
    <3>2. fd[w] \in FDs /\ fd[w] # f
      BY <1>3, <1>4, <3>1, Zenon
    <3>3. epoll'[fd[w]] = epoll[fd[w]]
      BY <1>7, <3>2, Zenon
    <3>4. loop'.events[w] = loop.events[w] /\ loop'.pevents[w] = loop.pevents[w]
      BY <1>6, <3>1, Zenon
    <3>5. w \in loop.queue => w \in loop'.queue
      BY <1>5, <3>1, Zenon
    <3>6. /\ epoll[fd[w]] = loop.events[w]
          /\ loop.events[w] = loop.pevents[w] \/ w \in loop.queue
      BY <3>1, Zenon DEF Watch, Synced
    <3> QED BY <3>1, <3>3, <3>4, <3>5, <3>6, Zenon
  <2>3. \A g \in FDs : file'[g] \notin Watchers => epoll'[g] = {}
    BY <1>7, Zenon DEF Watch, Synced
  <2>4. \A w \in loop'.queue : loop'.pevents[w] # {} /\ fd'[w] # NoFd
    <3>1. loop.queue \subseteq Watchers
      BY <1>3, Zenon DEF LoopFields
    <3> QED BY <1>5, <1>6, <1>7, <3>1, Zenon DEF Watch, Synced
  <2> QED BY <2>1, <2>2, <2>3, <2>4, ZenonT(30) DEF Synced
<1>12. ClosingOnce'
  <2>1. \A k \in DOMAIN closing : closing[k] # c
    <3>1. c \notin Range(closing)
      BY <1>4, Zenon DEF IInv, HandlesFresh
    <3> QED BY <3>1, Zenon DEF Range
  <2>2. /\ DOMAIN closing = 1 .. Len(closing) /\ Len(closing) \in Nat
        /\ DOMAIN closing' = 1 .. Len(closing) + 1
        /\ \A k \in 1 .. Len(closing) + 1 :
             closing'[k] = IF k = 1 THEN c ELSE closing[k - 1]
    <3>1. closing' = <<c>> \o closing /\ closing \in Seq(Conns)
      BY <1>1, <1>3, Zenon
    <3> QED BY <3>1
  <2>3. \A k, m \in DOMAIN closing : k # m => closing[k] # closing[m]
    BY Zenon DEF Watch, ClosingOnce
  <2>4. ASSUME NEW k \in DOMAIN closing', NEW m \in DOMAIN closing', k # m
        PROVE  closing'[k] # closing'[m]
    <3>1. k # 1 => k - 1 \in DOMAIN closing
      BY <2>2
    <3>2. m # 1 => m - 1 \in DOMAIN closing
      BY <2>2
    <3>3. k # 1 /\ m # 1 => k - 1 # m - 1
      BY <2>2, <2>4
    <3> QED BY <2>1, <2>2, <2>3, <2>4, <3>1, <3>2, <3>3
  <2> QED BY <2>4, Zenon DEF ClosingOnce
<1>13. TrickFull'
  BY <1>1, Zenon DEF Watch, TrickFull
<1> QED BY <1>8, <1>9, <1>10, <1>11, <1>12, <1>13, Zenon DEF Watch

\* on_new_connection starts the listener's watcher again and that of the new
\* connection, on a number whose previous owner left no trace.
LEMMA ConnectionWatch == ASSUME IInv, Watch, on_new_connection PROVE Watch'
<1> DEFINE c == Head(backlog)
           l == fd[Listener]
<1>1. backlog \in Seq(Conns) /\ backlog # <<>>
  BY Zenon DEF IInv, Types, on_new_connection
<1>2. c \in Conns
  BY <1>1
<1>3. /\ peer[c] = "queued" /\ pc = "accept" /\ pc' = pc
      /\ UNCHANGED <<closing, epoll, owes, enfile>>
  BY Zenon DEF on_new_connection, Accepting
<1>4. PICK f \in FDs :
        /\ file[f] = Free
        /\ OpenSpare([file EXCEPT ![f] = c])
        /\ fd' = [fd EXCEPT ![c] = f]
        /\ st' = [st EXCEPT ![c] = "open"]
        /\ loop' = uv__io_start(uv__io_start(loop, Listener, l, "IN"), c, f, "IN")
  BY ZenonT(30) DEF on_new_connection, IsLowestFree
<1> HIDE DEF c
<1>5. /\ file \in [FDs -> Watchers \cup {Spare, Free}]
      /\ fd \in [Watchers -> FDs \cup {NoFd}]
      /\ st \in [Conns -> {"none", "open", "closing", "closed"}]
      /\ LoopShape(loop) /\ LoopFields(loop)
      /\ epoll \in [FDs -> SUBSET {"IN", "OUT"}] /\ owes \in [Conns -> BOOLEAN]
  BY Zenon DEF IInv, Types, Watch, WatchTypes
<1>6. st[c] = "none" /\ fd[c] = NoFd /\ c \in Watchers /\ c # Listener
  BY <1>2, <1>3, Names, Zenon DEF IInv, HandlesFresh, DescriptorsOwned
<1>7. /\ l \in FDs /\ l \in 0 .. MaxFd /\ f \in 0 .. MaxFd /\ l # f /\ f # NoFd
      /\ \A w \in Watchers : fd[w] # f
  <2>1. l \in FDs /\ \A w \in Watchers : fd[w] # f
    BY <1>3, <1>4, Names DEF IInv, Started, DescriptorsOwned
  <2>2. l # f
    BY <2>1, Names, Zenon
  <2>3. l \in 0 .. MaxFd /\ f \in 0 .. MaxFd /\ f # NoFd
    BY <2>1, Names, ZenonT(30)
  <2> QED BY <2>1, <2>2, <2>3, Zenon
<1>8. /\ loop.pevents[c] = {} /\ loop.events[c] = {} /\ c \notin loop.queue
      /\ ~owes[c] /\ loop.pevents[Listener] = {"IN"} /\ epoll[f] = {}
  <2>1. /\ loop.pevents[c] = {} /\ ~owes[c] /\ loop.pevents[Listener] = {"IN"}
    BY <1>2, <1>3, <1>6, Zenon DEF Watch, Wants
  <2>2. loop.events[c] = {} /\ c \notin loop.queue
    BY <1>6, <2>1, Zenon DEF Watch, Synced
  <2>3. epoll[f] = {}
    BY <1>4, Names, Zenon DEF Watch, Synced
  <2> QED BY <2>1, <2>2, <2>3, Zenon
<1>9. /\ loop.watchers[l] = Listener /\ loop.watchers[f] = Null
  <2>1. loop.watchers[l] = Listener
    BY <1>7, <1>8, Names, Zenon DEF Watch, TableExact
  <2>2. loop.watchers[f] \notin Watchers
    BY <1>4, <1>7, Zenon DEF Watch, TableExact
  <2>3. loop.watchers[f] = Null
    BY <1>5, <1>7, <2>2, Zenon DEF LoopShape
  <2> QED BY <2>1, <2>3, Zenon
<1> HIDE DEF l
<1>10. /\ LoopFields(loop')
       /\ loop'.pevents = [loop.pevents EXCEPT ![c] = {"IN"}]
       /\ loop'.events = loop.events
       /\ loop'.watchers = [loop.watchers EXCEPT ![f] = c]
       /\ loop.queue \cup {c} \subseteq loop'.queue
       /\ loop'.queue \subseteq loop.queue \cup {Listener, c}
  <2> DEFINE m == uv__io_start(loop, Listener, l, "IN")
  <2>1. /\ loop.watchers[l] \in {Null, Listener} /\ "IN" \in {"IN", "OUT"}
        /\ loop.watchers[l] = Null => loop.events[Listener] = {}
        /\ Listener \in Watchers
    BY <1>9, Names, Zenon
  <2>2. IoStarted(loop, m, Listener, l, "IN")
    BY <1>5, <1>7, <2>1, IoStartWatch, Zenon
  <2>3. LoopShape(m)
    BY <1>5, <1>7, <2>1, IoStartEffect, Zenon
  <2>4. loop' = uv__io_start(m, c, f, "IN")
    BY <1>4, Zenon
  <2> HIDE DEF m
  <2>5. m.pevents = loop.pevents
    <3>1. loop.pevents \in [Watchers -> SUBSET {"IN", "OUT"}]
      BY <1>5, Zenon DEF LoopShape
    <3>2. loop.pevents[Listener] \cup {"IN"} = loop.pevents[Listener]
      BY <1>8, Zenon
    <3>3. loop.pevents = [loop.pevents EXCEPT ![Listener] = loop.pevents[Listener]]
      BY <2>1, <3>1, Zenon
    <3> QED BY <2>2, <3>2, <3>3, Zenon DEF IoStarted
  <2>6. m.watchers = loop.watchers
    <3>1. loop.watchers \in [0 .. MaxFd -> Watchers \cup {Null}]
      BY <1>5, Zenon DEF LoopShape
    <3>2. loop.watchers = [loop.watchers EXCEPT ![l] = Listener]
      BY <1>7, <1>9, <3>1, Zenon
    <3> QED BY <2>2, <3>2, Zenon DEF IoStarted
  <2>7. /\ LoopFields(m) /\ m.events = loop.events
        /\ loop.queue \subseteq m.queue /\ m.queue \subseteq loop.queue \cup {Listener}
    BY <2>2, Zenon DEF IoStarted
  <2>8. /\ m.watchers[f] \in {Null, c}
        /\ m.watchers[f] = Null => m.events[c] = {}
    BY <1>8, <1>9, <2>6, <2>7, Zenon
  <2>9. IoStarted(m, loop', c, f, "IN")
    BY <1>6, <1>7, <2>1, <2>3, <2>4, <2>7, <2>8, IoStartWatch, Zenon
  <2>10. m.pevents[c] \cup {"IN"} = {"IN"}
    BY <1>8, <2>5, Zenon
  <2>11. loop'.pevents = [loop.pevents EXCEPT ![c] = {"IN"}]
    BY <2>5, <2>9, <2>10, Zenon DEF IoStarted
  <2>12. loop'.pevents[c] = {"IN"}
    BY <1>5, <1>6, <2>11, Zenon DEF LoopShape
  <2>13. c \in loop'.queue
    BY <1>8, <2>7, <2>9, <2>12, Zenon DEF IoStarted
  <2>14. /\ LoopFields(loop') /\ loop'.events = m.events
         /\ loop'.watchers = [m.watchers EXCEPT ![f] = c]
         /\ m.queue \subseteq loop'.queue /\ loop'.queue \subseteq m.queue \cup {c}
    BY <2>9, Zenon DEF IoStarted
  <2> QED BY <2>6, <2>7, <2>11, <2>13, <2>14, Zenon
<1>11. /\ \A w \in Watchers : loop'.pevents[w] = IF w = c THEN {"IN"} ELSE loop.pevents[w]
       /\ \A g \in FDs : loop'.watchers[g] = IF g = f THEN c ELSE loop.watchers[g]
  <2>1. /\ loop.pevents \in [Watchers -> SUBSET {"IN", "OUT"}]
        /\ loop.watchers \in [0 .. MaxFd -> Watchers \cup {Null}]
    BY <1>5, Zenon DEF LoopShape
  <2> QED BY <1>6, <1>7, <1>10, <2>1, Names, Zenon
<1>12. /\ \A w \in Watchers : fd'[w] = IF w = c THEN f ELSE fd[w]
       /\ \A d \in Conns : st'[d] = IF d = c THEN "open" ELSE st[d]
  BY <1>2, <1>4, <1>5, <1>6, Zenon
<1>13. \A g \in FDs : file'[g] \notin Watchers => g # f /\ file[g] \notin Watchers
  <2> DEFINE F == [file EXCEPT ![f] = c]
  <2>1. /\ F \in [FDs -> Watchers \cup {Spare, Free}] /\ F[f] = c
        /\ \A g \in FDs : g # f => F[g] = file[g]
    BY <1>5, <1>6, Zenon
  <2>2. OpenSpare(F)
    BY <1>4, Zenon
  <2> HIDE DEF F
  <2>3. \/ spare' = spare /\ file' = F
        \/ \E g \in FDs : /\ spare = NoFd /\ F[g] = Free
                           /\ spare' = g /\ file' = [F EXCEPT ![g] = Spare]
    BY <2>2, OpenSpareEffect, Zenon
  <2>4. CASE file' = F
    BY <1>6, <2>1, <2>4, Zenon
  <2>5. ASSUME NEW h \in FDs, F[h] = Free, file' = [F EXCEPT ![h] = Spare]
        PROVE  \A g \in FDs : file'[g] \notin Watchers => g # f /\ file[g] \notin Watchers
    BY <1>4, <1>6, <2>1, <2>5, Names, Zenon
  <2> QED BY <2>3, <2>4, <2>5, Zenon
<1>14. WatchTypes'
  BY <1>3, <1>5, <1>10, Zenon DEF WatchTypes
<1>15. Wants'
  <2>1. \A d \in Conns : loop'.pevents[d] =
          IF st'[d] = "open" THEN IF owes[d] THEN {"IN", "OUT"} ELSE {"IN"} ELSE {}
    BY <1>8, <1>11, <1>12, Names, Zenon DEF Watch, Wants
  <2>2. loop'.pevents[Listener] = loop.pevents[Listener]
    BY <1>6, <1>11, Names, Zenon
  <2>3. \A d \in Conns : st'[d] = "none" => ~owes[d]
    BY <1>12, Zenon DEF Watch, Wants
  <2> QED BY <1>3, <2>1, <2>2, <2>3, ZenonT(30) DEF Watch, Wants
<1>16. TableExact'
  <2>1. \A g \in FDs, w \in Watchers :
          loop.watchers[g] = w <=> fd[w] = g /\ loop.pevents[w] # {}
    BY Zenon DEF Watch, TableExact
  <2>2. ASSUME NEW g \in FDs, NEW w \in Watchers
        PROVE  loop'.watchers[g] = w <=> fd'[w] = g /\ loop'.pevents[w] # {}
    <3>1. CASE w = c
      BY <1>6, <1>7, <1>8, <1>11, <1>12, <2>1, <3>1, Names
    <3>2. CASE w # c
      BY <1>7, <1>9, <1>11, <1>12, <2>1, <3>2, Names
    <3> QED BY <3>1, <3>2, Zenon
  <2> QED BY <2>2, Zenon DEF TableExact
<1>17. Synced'
  <2>1. \A w \in Watchers : loop'.pevents[w] = {} => loop'.events[w] = {}
    BY <1>10, <1>11, Zenon DEF Watch, Synced
  <2>2. \A w \in Watchers : fd'[w] # NoFd =>
          /\ epoll[fd'[w]] = loop'.events[w]
          /\ loop'.events[w] = loop'.pevents[w] \/ w \in loop'.queue
    BY <1>8, <1>10, <1>11, <1>12, ZenonT(30) DEF Watch, Synced
  <2>3. \A g \in FDs : file'[g] \notin Watchers => epoll[g] = {}
    BY <1>13, ZenonT(30) DEF Watch, Synced
  <2>4. \A w \in loop'.queue : loop'.pevents[w] # {} /\ fd'[w] # NoFd
    <3>1. loop.queue \subseteq Watchers
      BY <1>5, Zenon DEF LoopFields
    <3>2. l # NoFd /\ fd[Listener] = l
      BY <1>7, Names, Zenon DEF l
    <3>3. \A w \in loop.queue : loop.pevents[w] # {} /\ fd[w] # NoFd
      BY Zenon DEF Watch, Synced
    <3>4. ASSUME NEW w \in loop'.queue PROVE loop'.pevents[w] # {} /\ fd'[w] # NoFd
      <4>1. CASE w = c
        BY <1>6, <1>11, <1>12, <4>1, Names
      <4>2. CASE w # c
        <5>1. w \in Watchers /\ (w \in loop.queue \/ w = Listener)
          <6>1. w \in loop.queue \cup {Listener, c} /\ Listener \in Watchers
            BY <1>10, Names, Zenon
          <6> QED BY <3>1, <4>2, <6>1, Zenon
        <5>2. loop.pevents[w] # {} /\ fd[w] # NoFd
          BY <1>8, <3>2, <3>3, <5>1, Zenon
        <5> QED BY <1>11, <1>12, <4>2, <5>1, <5>2, Zenon
      <4> QED BY <4>1, <4>2, Zenon
    <3> QED BY <3>4, Zenon
  <2> QED BY <1>3, <2>1, <2>2, <2>3, <2>4, Zenon DEF Synced
<1>18. ClosingOnce' /\ TrickFull'
  BY <1>3, Zenon DEF Watch, ClosingOnce, TrickFull
<1> QED BY <1>14, <1>15, <1>16, <1>17, <1>18, Zenon DEF Watch

\* Every step keeps the watchers and the epoll set in step.
LEMMA StepWatch == IInv /\ Watch /\ [Next]_vars => Watch'
<1> SUFFICES ASSUME IInv, Watch, [Next]_vars PROVE Watch'
  BY Zenon
<1>1. CASE \/ \E c \in Conns : Client(c)
           \/ epoll_wait \/ epoll_timeout \/ BatchDone
           \/ AcceptAborted \/ AcceptAgain \/ AcceptFails
           \/ TrickAccept \/ TrickDone \/ SystemFiles \/ UNCHANGED vars
  BY <1>1, QuietStepWatch, Zenon
<1>2. CASE main
  BY <1>2, MainWatch, Zenon
<1>3. CASE epoll_ctl
  BY <1>3, CtlWatch, Zenon
<1>4. CASE uv__run_closing_handles
  BY <1>4, ClosingWatch, Zenon
<1>5. CASE SkipEvent
  BY <1>5, SkipWatch, Zenon
<1>6. CASE uv__server_io
  BY <1>6, ServerIoWatch, Zenon
<1>7. ASSUME NEW c \in Conns, StreamRead(c) \/ StreamWrite(c) PROVE Watch'
  BY <1>7, StreamWatch, Zenon
<1>8. ASSUME NEW c \in Conns, StreamEof(c) PROVE Watch'
  BY <1>8, CloseWatch, Zenon
<1>9. CASE on_new_connection
  BY <1>9, ConnectionWatch, Zenon
<1>10. CASE uv__emfile_trick \/ TrickReopen
  BY <1>10, TrickWatch, Zenon
<1> QED
  BY <1>1, <1>2, <1>3, <1>4, <1>5, <1>6, <1>7, <1>8, <1>9, <1>10, Zenon
  DEF Next, LoopThread

\* When the loop blocks, what the kernel watches is what the watchers want.
LEMMA KernelInStep == IInv /\ Watch => KernelWatches
<1> SUFFICES ASSUME IInv, Watch PROVE KernelWatches
  BY Zenon
<1>1. WatcherTable
  <2>1. loop.nfds = Cardinality({f \in 0 .. MaxFd : loop.watchers[f] # Null})
    BY Zenon DEF Watch, WatchTypes, LoopFields, Used
  <2>2. \A w \in Watchers :
          w \in loop.queue => loop.pevents[w] # {} /\ fd[w] # NoFd
    BY Zenon DEF Watch, Synced
  <2> QED BY <2>1, <2>2, Zenon DEF WatcherTable, Watch, TableExact
<1>2. ASSUME pc = "wait", loop.queue = {}
      PROVE  /\ epoll[fd[Listener]] = {"IN"}
             /\ \A c \in Conns : st[c] = "open" =>
                  epoll[fd[c]] = IF owes[c] THEN {"IN", "OUT"} ELSE {"IN"}
  <2>1. \A w \in Watchers : fd[w] # NoFd => epoll[fd[w]] = loop.pevents[w]
    BY <1>2, Zenon DEF Watch, Synced
  <2>2. fd[Listener] # NoFd /\ loop.pevents[Listener] = {"IN"}
    BY <1>2, Names, Zenon DEF IInv, Started, Watch, Wants
  <2>3. \A c \in Conns : st[c] = "open" =>
          /\ fd[c] # NoFd
          /\ loop.pevents[c] = IF owes[c] THEN {"IN", "OUT"} ELSE {"IN"}
    BY Zenon DEF IInv, DescriptorsOwned, Watch, Wants
  <2> QED BY <2>1, <2>2, <2>3, Names, Zenon
<1> QED BY <1>1, <1>2, Zenon DEF KernelWatches

\* The assertions hold wherever the loop thread is.
LEMMA Asserted == IInv /\ Watch => AssertsHold
<1> SUFFICES ASSUME IInv, Watch PROVE AssertsHold
  BY Zenon
<1>1. ASSUME Dispatching, Event.fd # NoFd PROVE Event.fd < loop.nwatchers
  <2> DEFINE E == [fd : FDs \cup {NoFd}, ev : SUBSET {"IN", "OUT"},
                   who : Watchers \cup {Spare, Free}]
  <2>1. /\ batch \in Seq(E)
        /\ \A k \in 1 .. Len(batch) : batch[k].fd # NoFd =>
             batch[k].who \in Watchers /\ file[batch[k].fd] = batch[k].who
    BY Zenon DEF IInv, BatchCurrent
  <2>2. i \in Nat \ {0} /\ i <= Len(batch) /\ pc = "dispatch"
    BY <1>1, Zenon DEF IInv, Types, Dispatching
  <2>3. \A b \in E : b.fd \in FDs \cup {NoFd}
    BY Zenon
  <2> HIDE DEF E
  <2>4. i \in 1 .. Len(batch) /\ batch[i] \in E
    BY <2>1, <2>2
  <2> DEFINE w == Event.who
             f == Event.fd
  <2>5. w \in Watchers /\ f \in FDs /\ file[f] = w
    BY <1>1, <2>1, <2>3, <2>4, Zenon DEF Event
  <2> HIDE DEF w, f
  <2>6. fd[w] = f
    BY <2>5, Zenon DEF IInv, DescriptorsOwned
  <2>7. loop.pevents[w] # {}
    <3>1. CASE w = Listener
      BY <2>2, <3>1, Zenon DEF Watch, Wants
    <3>2. CASE w \in Conns
      <4>1. st[w] = "open"
        BY <2>5, <2>6, <3>2, Names DEF IInv, DescriptorsOwned
      <4> QED BY <3>2, <4>1, Zenon DEF Watch, Wants
    <3> QED BY <2>5, <3>1, <3>2, Zenon DEF Watchers
  <2>8. loop.watchers[f] = w
    BY <2>5, <2>6, <2>7, Zenon DEF Watch, TableExact
  <2>9. f \in 0 .. MaxFd /\ loop.watchers[f] # Null
    BY <2>5, <2>8, Names, Zenon
  <2>10. f < loop.nwatchers
    BY <2>9, Zenon DEF IInv, Types, LoopShape
  <2> QED BY <2>10, Zenon DEF f
<1>2. pc = "accept" => fd[Listener] # NoFd
  BY Names, Zenon DEF IInv, Started
<1>3. \A w \in loop.queue : loop.events[w] # {} => epoll[fd[w]] # {}
  BY Zenon DEF Watch, WatchTypes, LoopFields, Synced
<1>4. \A c \in Range(closing) : st[c] = "closing"
  BY Zenon DEF IInv, HandlesFresh
<1> QED BY <1>1, <1>2, <1>3, <1>4, Zenon DEF AssertsHold, Watch, ClosingOnce

\* All numbers but one and the listener's belong to open connections, one each.
LEMMA FullCount ==
  ASSUME IInv, pc # "main", NEW g \in FDs, file[g] = Free,
         \A f \in FDs : f # g => file[f] \in Watchers
  PROVE  Cardinality({d \in Conns : st[d] = "open"}) = MaxFd - FirstFd - 1
<1> DEFINE O == {d \in Conns : st[d] = "open"}
           l == fd[Listener]
           S == (FDs \ {g}) \ {l}
           h == [f \in S |-> file[f]]
<1>1. /\ l \in FDs /\ file[l] = Listener /\ g # l
      /\ \A f \in FDs, w \in Watchers : file[f] = w <=> fd[w] = f
      /\ \A c \in Conns : fd[c] # NoFd <=> st[c] = "open"
      /\ \A c \in Conns : fd[c] \in FDs \cup {NoFd}
  <2>1. /\ \A f \in FDs, w \in Watchers : file[f] = w <=> fd[w] = f
        /\ \A c \in Conns : fd[c] # NoFd <=> st[c] = "open"
        /\ l \in FDs /\ \A c \in Conns : fd[c] \in FDs \cup {NoFd}
    BY Names, Zenon DEF IInv, Types, Started, DescriptorsOwned
  <2>2. file[l] = Listener
    BY <2>1, Names, Zenon
  <2>3. g # l
    BY <2>2, Names, Zenon
  <2> QED BY <2>1, <2>2, <2>3, Zenon
<1>2. /\ IsFiniteSet(S) /\ Cardinality(S) = MaxFd - FirstFd - 1
  <2>1. IsFiniteSet(FDs) /\ Cardinality(FDs) = MaxFd - FirstFd + 1
    <3>1. FirstFd \in Int /\ MaxFd \in Int /\ ~(FirstFd > MaxFd)
      BY ServerAssumption
    <3> QED BY <3>1, FS_Interval, Zenon DEF FDs
  <2>2. IsFiniteSet(FDs \ {g}) /\ Cardinality(FDs \ {g}) = Cardinality(FDs) - 1
    BY <2>1, FS_RemoveElement, Zenon
  <2>3. l \in FDs \ {g}
    BY <1>1, Zenon
  <2>4. IsFiniteSet(S) /\ Cardinality(S) = Cardinality(FDs \ {g}) - 1
    BY <2>2, <2>3, FS_RemoveElement, Zenon
  <2> QED BY <2>1, <2>2, <2>4, ServerAssumption
<1>3. \A f \in S : h[f] \in O /\ fd[h[f]] = f
  <2> TAKE f \in S
  <2>1. f \in FDs /\ f # g /\ f # l /\ h[f] = file[f] /\ file[f] \in Watchers
    BY Zenon
  <2>2. file[f] # Listener
    BY <1>1, <2>1, Names, Zenon
  <2>3. file[f] \in Conns /\ fd[file[f]] = f
    BY <1>1, <2>1, <2>2, Zenon DEF Watchers
  <2>4. st[file[f]] = "open"
    BY <1>1, <2>1, <2>3, Names
  <2> QED BY <2>1, <2>3, <2>4, Zenon
<1>4. \A d \in O : fd[d] \in S /\ h[fd[d]] = d
  <2> TAKE d \in O
  <2>1. fd[d] \in FDs /\ d \in Watchers /\ d # Listener
    BY <1>1, Names, Zenon
  <2>2. file[fd[d]] = d
    BY <1>1, <2>1, Zenon
  <2>3. fd[d] # g /\ fd[d] # l
    BY <1>1, <2>1, <2>2, Names, Zenon
  <2> QED BY <2>1, <2>2, <2>3, Zenon
<1>5. h \in Bijection(S, O)
  <2> HIDE DEF S, O
  <2>1. h \in [S -> O]
    BY <1>3, Zenon
  <2>2. \A a, b \in S : h[a] = h[b] => a = b
    BY <1>3, Zenon
  <2>3. \A d \in O : \E f \in S : h[f] = d
    BY <1>4, Zenon
  <2> HIDE DEF h
  <2> QED BY <2>1, <2>2, <2>3, Zenon DEF Bijection, Injection, Surjection, IsInjective
<1>6. ExistsBijection(S, O)
  BY <1>5, Zenon DEF ExistsBijection
<1> HIDE DEF S
<1>7. Cardinality(O) = Cardinality(S)
  BY <1>2, <1>6, FS_Bijection, Zenon
<1> QED BY <1>2, <1>7, Zenon

\* Only uv__emfile_trick turns a client away.
LEMMA OnlyTrickRefuses ==
  ASSUME IInv, [Next]_vars, NEW c \in Conns, peer[c] = "queued", peer'[c] = "refused"
  PROVE  TrickAccept
<1> SUFFICES ASSUME ~TrickAccept PROVE FALSE
  BY Zenon
<1>1. peer \in [Conns -> {"idle", "queued", "up", "fin", "aborted", "refused"}]
  BY Zenon DEF IInv, Types
<1>2. \/ peer' = peer
      \/ \E d : peer' \in {[peer EXCEPT ![d] = "queued"], [peer EXCEPT ![d] = "aborted"],
                           [peer EXCEPT ![d] = "fin"], [peer EXCEPT ![d] = "up"]}
  <2>1. ASSUME NEW d \in Conns, Client(d)
        PROVE  \/ peer' = peer
               \/ peer' \in {[peer EXCEPT ![d] = "queued"], [peer EXCEPT ![d] = "aborted"],
                             [peer EXCEPT ![d] = "fin"]}
    BY <2>1, Zenon DEF Client, ClientConnect, ClientAbort, ClientSend, ClientRecv, ClientFin
  <2>2. CASE on_new_connection
    BY <2>2, ZenonT(30) DEF on_new_connection
  <2>3. ASSUME NEW d \in Conns, StreamRead(d) \/ StreamEof(d) \/ StreamWrite(d)
        PROVE  peer' = peer
    BY <2>3, Zenon DEF StreamRead, StreamEof, StreamWrite, clients
  <2>4. CASE \/ main \/ epoll_ctl \/ epoll_wait \/ epoll_timeout \/ BatchDone
             \/ uv__run_closing_handles \/ SkipEvent \/ uv__server_io
    BY <2>4, ZenonT(30) DEF main, epoll_ctl, epoll_wait, epoll_timeout, BatchDone,
       uv__run_closing_handles, SkipEvent, uv__server_io, clients
  <2>5. CASE \/ AcceptAborted \/ AcceptAgain \/ AcceptFails \/ uv__emfile_trick
             \/ TrickDone \/ TrickReopen \/ SystemFiles \/ UNCHANGED vars
    BY <2>5, ZenonT(30) DEF AcceptAborted, AcceptAgain, AcceptFails, uv__emfile_trick,
       TrickDone, TrickReopen, SystemFiles, clients, vars
  <2> QED BY <2>1, <2>2, <2>3, <2>4, <2>5, ZenonT(30) DEF Next, LoopThread
<1> QED BY <1>1, <1>2, Zenon

\* A client is turned away only when no number is left.
LEMMA RefusalStep ==
  ASSUME IInv, Watch, [Next]_vars, NEW c \in Conns,
         peer[c] = "queued", peer'[c] = "refused", enfile = 0
  PROVE  Cardinality({d \in Conns : st[d] = "open"}) = MaxFd - FirstFd - 1
<1>1. pc = "trick"
  BY OnlyTrickRefuses, Zenon DEF TrickAccept
<1>2. PICK g \in FDs : file[g] = Free /\ \A f \in FDs : f # g => file[f] \in Watchers
  BY <1>1, Zenon DEF Watch, TrickFull
<1> QED BY <1>1, <1>2, FullCount, Zenon

\* For any number of connections and descriptors, when the loop blocks the
\* kernel watches every open connection and the listener for what their
\* handles want, and loop->watchers, nfds and the queue describe them.
THEOREM WatchedByKernel == Spec => []KernelWatches
BY InitHolds, StepKeeps, InitWatch, StepWatch, KernelInStep, PTL DEF Spec

\* For any number of connections and descriptors, no assertion of
\* uv__server_io, uv__io_stop and uv__finish_close fails, no event is for a
\* number outside the table, and no epoll_ctl fails.
THEOREM AssertionsHold == Spec => []AssertsHold
BY InitHolds, StepKeeps, InitWatch, StepWatch, Asserted, PTL DEF Spec

\* For any limit on descriptors, uv__emfile_trick turns a client away only
\* when every number but the spare one and the listener's has a connection.
THEOREM RefusesWhenFull == Spec => RefusedOnlyWhenFull
<1> DEFINE A == \A c \in Conns :
                  peer[c] = "queued" /\ peer'[c] = "refused" /\ enfile = 0
                    => Cardinality({d \in Conns : st[d] = "open"}) = MaxFd - FirstFd - 1
<1>1. IInv /\ Watch /\ [Next]_vars => [A]_vars
  BY RefusalStep, Zenon
<1> QED
  BY InitHolds, StepKeeps, InitWatch, StepWatch, <1>1, PTL DEF Spec, RefusedOnlyWhenFull
================================================================================
