------------------------------ MODULE MCServices ------------------------------
(***************************************************************************)
(* The components of Services and PoolService, and three more that share   *)
(* no state: a behaviour is one of one component, which the initial state  *)
(* chooses, and the rest stay as they are.                                 *)
(***************************************************************************)
EXTENDS Services, PoolService, SequencesExt

VARIABLES
  which,
  heap, set,                                                    \* TimerHeap
  msg, cut, words, failed, players, left, id, player, line,     \* MsgPacket
  stream, rwire, buf, pos, rstack, reply, err, at, replies      \* RedisReader

heapVars == <<heap, set>>
packetVars == <<msg, cut, words, failed, players, left, id, player, line>>
readerVars == <<stream, rwire, buf, pos, rstack, reply, err, at, replies>>

-----------------------------------------------------------------------------
(* The instances.                                                          *)

\* Nine nodes: four rows, and replacements from another subtree.
Heap == INSTANCE TimerHeap WITH Nodes <- 1 .. 9, Nil <- 0

\* Messages of up to three players, one of them perhaps with a NaN, and
\* cuts before, in and after each of them.
Fields == {"SessionId", "X", "Y", "Z", "VX", "VY", "VZ", "Yaw", "Pitch", "Roll",
           "IsAlive", "HealthValue", "IsAttacking"}
Char(n) == [f \in Fields |-> [of |-> n, field |-> f, form |-> "exact"]]
Bad == [Char("c") EXCEPT !["VY"].form = "nan"]
SomeMessages == UNION {[S -> {Char("a"), Char("b"), Bad}] : S \in SUBSET (1 .. 3)}
Packet == INSTANCE MsgPacket WITH
  Ids <- 1 .. 3, Messages <- SomeMessages,
  Cuts <- {0, 1, 2, 3, 8, 15, 16, 17, 21, 29, 30, 40, 43}

\* Streams: the replies as sequences of their nodes, then their bytes.
N(p, t, v) == [pos |-> p, node |-> [type |-> t, val |-> v]]
CRLF == <<"CR", "LF">>
Decimal == [n \in {0, 1, 2, 19, -20} |->
  CASE n = 0 -> <<"0">> [] n = 1 -> <<"1">> [] n = 2 -> <<"2">>
    [] n = 19 -> <<"1", "9">> [] n = -20 -> <<"-", "2", "0">>]
Encoded(n) ==
  CASE n.type = "status" -> <<"+">> \o n.val \o CRLF
    [] n.type = "error" -> <<"-">> \o n.val \o CRLF
    [] n.type = "integer" -> <<":">> \o Decimal[n.val[1]] \o CRLF
    [] n.type = "string" -> <<"$">> \o Decimal[Len(n.val)] \o CRLF \o n.val \o CRLF
    [] n.type = "nil" -> <<"$", "-", "1">> \o CRLF
    [] n.type = "array" ->
         <<"*">> \o Decimal[IF n.val = <<>> THEN 0 ELSE n.val[1]] \o CRLF
Bytes(o) == FlattenSeq([k \in DOMAIN o |-> Encoded(o[k].node)])
Object(o) ==
  [p \in {o[k].pos : k \in DOMAIN o} |-> o[CHOOSE k \in DOMAIN o : o[k].pos = p].node]
Stream(os, rest) ==
  [replies |-> [k \in DOMAIN os |-> Object(os[k])],
   ends |-> [k \in DOMAIN os |-> Len(FlattenSeq([j \in 1 .. k |-> Bytes(os[j])]))],
   bytes |-> FlattenSeq([k \in DOMAIN os |-> Bytes(os[k])]) \o rest,
   bad |-> rest # <<>>]

Status == <<N(<<>>, "status", <<"O", "CR">>)>>
Error == <<N(<<>>, "error", <<"E">>)>>
Newline == <<N(<<>>, "string", <<"CR", "LF">>)>>
Nested == <<N(<<>>, "array", <<2>>), N(<<0>>, "array", <<2>>),
            N(<<0, 0>>, "integer", <<-20>>), N(<<0, 1>>, "nil", <<>>),
            N(<<1>>, "string", <<"$">>)>>
EmptyInside == <<N(<<>>, "array", <<2>>), N(<<0>>, "array", <<>>),
                 N(<<1>>, "integer", <<19>>)>>
EmptyArray == <<N(<<>>, "array", <<>>)>>
EmptyString == <<N(<<>>, "string", <<>>)>>

\* No bytes, two good streams, and one for each way a stream is bad: a byte that is no
\* type, numbers too large, with a leading zero, negative or empty, arrays too
\* deep.
SomeStreams ==
  {Stream(<<>>, <<>>),
   Stream(<<Status, Newline, Nested, EmptyArray>>, <<>>),
   Stream(<<Nested, EmptyInside, EmptyString, Error>>, <<>>)}
  \cup {Stream(<<Newline>>, rest) : rest \in
          {<<"*", "2">> \o CRLF \o <<"@">>, <<":", "2", "0">> \o CRLF,
           <<":", "0", "1">> \o CRLF, <<"$", "-", "2">> \o CRLF,
           <<"*", "1", "9">> \o CRLF, <<"$">> \o CRLF,
           <<"*", "1">> \o CRLF \o <<"*", "1">> \o CRLF \o <<"*", "1">> \o CRLF}}
Reader == INSTANCE RedisReader WITH
  wire <- rwire, Streams <- SomeStreams, MaxChunk <- 4, MaxRidx <- 2, Discard <- 6,
  LLMax <- 19, IntMax <- 15

-----------------------------------------------------------------------------
MCInit ==
  /\ which \in {"singleton", "heap", "db", "packet", "reader", "async", "pool"}
  /\ Init /\ DB!Init /\ Async!Init /\ Pool!Init
  /\ Reader!Init /\ (which = "reader" <=> stream.bytes # <<>>)
  /\ IF which = "heap" THEN Heap!Init ELSE heap = 0 /\ set = 0
  /\ IF which = "packet" THEN Packet!Init
     ELSE /\ msg = 0 /\ cut = 0 /\ words = 0 /\ failed = 0 /\ players = 0
          /\ left = 0 /\ id = 0 /\ player = 0 /\ line = 0

MCNext ==
  /\ UNCHANGED which
  /\ \/ /\ which = "singleton" /\ Next
        /\ UNCHANGED <<heapVars, dbVars, packetVars, readerVars, asyncVars, poolVars>>
     \/ /\ which = "heap" /\ Heap!Next
        /\ UNCHANGED <<vars, dbVars, packetVars, readerVars, asyncVars, poolVars>>
     \/ /\ which = "db" /\ DB!Next
        /\ UNCHANGED <<vars, heapVars, packetVars, readerVars, asyncVars, poolVars>>
     \/ /\ which = "packet" /\ Packet!Next
        /\ UNCHANGED <<vars, heapVars, dbVars, readerVars, asyncVars, poolVars>>
     \/ /\ which = "reader" /\ Reader!Next
        /\ UNCHANGED <<vars, heapVars, dbVars, packetVars, asyncVars, poolVars>>
     \/ /\ which = "async" /\ Async!Next
        /\ UNCHANGED <<vars, heapVars, dbVars, packetVars, readerVars, poolVars>>
     \/ /\ which = "pool" /\ Pool!Next
        /\ UNCHANGED <<vars, heapVars, dbVars, packetVars, readerVars, asyncVars>>

allVars == <<which, vars, heapVars, dbVars, packetVars, readerVars, asyncVars,
             poolVars>>

\* The fairness of each component's FairSpec, for the one that runs.
MCSpec ==
  /\ MCInit /\ [][MCNext]_allVars
  /\ \A t \in Threads : SF_vars(which = "singleton" /\ GetInstance(t))
  /\ WF_dbVars(which = "db" /\ DB!Thread)
  /\ WF_dbVars(which = "db" /\ DB!ServerExecutes)
  /\ WF_readerVars(which = "reader" /\ Reader!Next)
  /\ \A t \in Threads : WF_asyncVars(which = "async" /\ Async!uv_async_send(t))
  /\ WF_asyncVars(which = "async" /\ Async!Loop)
  /\ \A w \in Workers : WF_poolVars(which = "pool" /\ Pool!worker(w))
  /\ WF_poolVars(which = "pool" /\ Pool!Loop)

-----------------------------------------------------------------------------
(* Properties of the three, and what the calls of all of them lead to.     *)

\* heap-inl.h: whatever is inserted and removed, the heap is a complete tree of
\* the inserted nodes, no child is less than its parent and heap_min is least.
HeapSound == which = "heap" => Heap!Complete /\ Heap!Ordered /\ Heap!RootIsLeast

\* operator>> of the players inverts operator<< or fails, and a message that
\* breaks off spoils one player.
PacketsFaithful == which = "packet" => Packet!RoundTrip /\ Packet!OneSpoiled

\* redisGetReply returns the replies that were sent, however the stream is cut
\* up, each as soon as it is there, and fails on a bad stream after its good
\* replies; the assertions of read.c and hiredis.c hold.
ReaderFaithful ==
  which = "reader" => /\ Reader!RepliesAsSent /\ Reader!NothingHeldBack
                      /\ Reader!BadStreamsFail /\ Reader!AssertsHold

\* The calls of GetInstance (unless a constructor throws) and of DBConnector
\* return, and redisGetReply comes to the end of its input.
CallsEnd == CallsReturn /\ DB!CallsReturn /\ Reader!StreamEnds

\* Every uv_async_send to a handle that stays open is followed by a callback,
\* every request of uv_queue_work is called back unless the process exits, and
\* the exit joins all workers.
WorkServed == Async!SendsSeen /\ Pool!EveryRequestDone /\ Pool!ExitJoins
================================================================================
