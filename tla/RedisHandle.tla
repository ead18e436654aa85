---------------------------- MODULE RedisHandle ----------------------------
(***************************************************************************)
(* RedisHandle (server/source/RedisHandle.cpp) on top of the blocking      *)
(* hiredis context it uses (hiredis/linux/hiredis.c, net.c).               *)
(*                                                                         *)
(* One thread calls Init, SetString and GetString.  A call may have to     *)
(* replace a broken context (ConnectRedis); then redisCommand appends the  *)
(* command to the output buffer, takes a reply the reader already holds    *)
(* if there is one, else writes the buffer and reads until a reply is      *)
(* complete.  Meanwhile the Redis server executes commands, other clients  *)
(* change the database, and any connection may break; bytes that were sent *)
(* may still be executed after the break, after the close and after a      *)
(* later connection was made.                                              *)
(*                                                                         *)
(* Calls are numbered by their place in log.  The context a call makes has *)
(* the call's number, and every command and reply carries the number of    *)
(* the call it belongs to; the number is not on the wire, it is how the    *)
(* properties say which command a reply answers.                           *)
(***************************************************************************)
EXTENDS Naturals, Sequences

CONSTANTS
    Keys, Values,
    Nil,          \* the database's answer for a key that is not set
    NoValue,      \* StrValue was not assigned
    MaxCalls      \* bound on the number of calls, hence of contexts

ASSUME DataAssumption ==
    Nil \notin Values \cup Keys /\ NoValue \notin Values \cup {Nil}
ASSUME CallsAssumption == MaxCalls \in Nat

VARIABLES
    RedisInfo,     \* the shared_ptr was set by Init
    RedisContext,  \* number of the context the handle points to, 0: nullptr
    live,          \* contexts allocated by hiredis and not yet freed
    err,           \* RedisContext->err # 0
    obuf,          \* RedisContext->obuf: commands not yet written
    reader,        \* RedisContext->reader: replies fed and not yet taken
    net,           \* per connection: what is in flight, whether it is up
    db,            \* the server's database
    pc,            \* where the current call is
    log,           \* the calls so far: arguments and result
    executed,      \* calls whose SET the server applied
    seen,          \* values the current call's key held since it began
    alone          \* no other client has written to the database yet

ctxVars == <<RedisContext, live, err, obuf, reader>>
serverVars == <<db, executed, seen, alone>>
vars == <<RedisInfo, ctxVars, net, serverVars, pc, log>>

Ids == 1 .. MaxCalls
Data == Values \cup {Nil}
Commands == [id : Ids, op : {"set", "get"}, key : Keys, val : Data]
\* The status reply is SET's "OK"; only a string reply carries a value.
Replies == [id : Ids, type : {"status", "string", "nil", "error"}, val : Data]
Connections == [toServer : Seq(Commands), toClient : Seq(Replies),
                up : BOOLEAN]
Calls == [op : {"init", "set", "get"}, key : Keys \cup {Nil}, val : Data,
          result : {"pending", "true", "false"},
          out : Values \cup {NoValue}]

me == Len(log)
cur == log[me]

Init ==
    /\ RedisInfo = FALSE
    /\ RedisContext = 0 /\ live = {} /\ err = FALSE
    /\ obuf = <<>> /\ reader = <<>>
    /\ net = [c \in Ids |->
                [toServer |-> <<>>, toClient |-> <<>>, up |-> FALSE]]
    /\ db = [k \in Keys |-> Nil] /\ executed = {} /\ seen = {}
    /\ alone = TRUE
    /\ pc = "idle" /\ log = <<>>

-----------------------------------------------------------------------------
(* The handle.                                                             *)

\* RedisContext == nullptr || RedisContext->err != 0
LostConnect == RedisContext = 0 \/ err

\* The first step of a call.  ConnectRedis reads RedisInfo->redisAddress, a
\* null dereference when Init was never called.
Begin(op, k, v, reconnect) ==
    /\ pc = "idle" /\ me < MaxCalls
    /\ log' = Append(log, [op |-> op, key |-> k, val |-> v,
                           result |-> "pending", out |-> NoValue])
    /\ pc' = IF ~reconnect THEN "command"
             ELSE IF RedisInfo \/ op = "init" THEN "connect" ELSE "crashed"
    /\ seen' = {db[x] : x \in Keys \cap {k}}
    /\ UNCHANGED <<ctxVars, net, db, executed, alone>>

\* ServerConf's constructor makes the stRedisInfo, so Init never finds it null.
InitCall ==
    /\ Begin("init", Nil, Nil, TRUE)
    /\ RedisInfo' = TRUE

SetString(k, v) ==
    /\ Begin("set", k, v, LostConnect)
    /\ UNCHANGED RedisInfo

GetString(k) ==
    /\ Begin("get", k, Nil, LostConnect)
    /\ UNCHANGED RedisInfo

\* The call returns; the handle is idle until the next one.
Return(ok, out) ==
    /\ log' = [log EXCEPT ![me].result = IF ok THEN "true" ELSE "false",
                          ![me].out = out]
    /\ pc' = "idle"

\* Mutant: any reply counts as success.
SetReturnAny(reply) == Return(TRUE, NoValue)

\* What SetString makes of a reply.
SetReturn(reply) == Return(reply.type = "status", NoValue)

\* What GetString makes of a reply: one that is not a string is logged as a
\* failure, and the function still returns true.
GetReturn(reply) ==
    Return(TRUE, IF reply.type = "string" THEN reply.val ELSE NoValue)

ReplyReturn(reply) ==
    \/ cur.op = "set" /\ SetReturn(reply)
    \/ cur.op = "get" /\ GetReturn(reply)

\* The old socket is closed: what it had received is gone, what it had sent
\* may still arrive.  redisFree(NULL) does nothing.
redisFree ==
    [c \in Ids |-> IF c = RedisContext
                   THEN [net[c] EXCEPT !.toClient = <<>>, !.up = FALSE]
                   ELSE net[c]]

\* Mutant: the old context is not freed.
ConnectedLeaking(outcome) ==
    /\ RedisContext' = IF outcome = "null" THEN 0 ELSE me
    /\ live' = live \cup IF outcome = "null" THEN {} ELSE {me}
    /\ err' = (outcome = "error")
    /\ obuf' = <<>> /\ reader' = <<>>
    /\ net' = [redisFree EXCEPT ![me].up = (outcome = "up")]

\* A context with empty buffers that is connected, has err set (refused,
\* unreachable, no answer within 1.5 s), or could not be allocated.
Connected(outcome) ==
    /\ RedisContext' = IF outcome = "null" THEN 0 ELSE me
    /\ live' = (live \ {RedisContext})
               \cup IF outcome = "null" THEN {} ELSE {me}
    /\ err' = (outcome = "error")
    /\ obuf' = <<>> /\ reader' = <<>>
    /\ net' = [redisFree EXCEPT ![me].up = (outcome = "up")]

ConnectRedis(outcome) ==
    /\ pc = "connect"
    /\ Connected(outcome)
    /\ \/ outcome = "up" /\ cur.op # "init"
          /\ pc' = "command" /\ UNCHANGED log
       \/ outcome = "up" /\ cur.op = "init" /\ Return(TRUE, NoValue)
       \/ outcome # "up" /\ Return(FALSE, NoValue)
    /\ UNCHANGED <<RedisInfo, serverVars>>

\* ~RedisHandle, when the singletons are destroyed.
Destroy ==
    /\ pc = "idle"
    /\ live' = live \ {RedisContext} /\ RedisContext' = 0
    /\ net' = redisFree
    /\ pc' = "destroyed"
    /\ UNCHANGED <<RedisInfo, err, obuf, reader, serverVars, log>>

-----------------------------------------------------------------------------
(* hiredis: redisCommand on a blocking context.                            *)

\* redisvAppendCommand, then redisGetReply looks in the reader before it
\* writes anything.
redisCommand ==
    /\ pc = "command"
    /\ obuf' = Append(obuf, [id |-> me, op |-> cur.op,
                             key |-> cur.key, val |-> cur.val])
    /\ IF reader # <<>>
       THEN ReplyReturn(Head(reader)) /\ reader' = Tail(reader)
       ELSE pc' = "write" /\ UNCHANGED <<log, reader>>
    /\ UNCHANGED <<RedisInfo, RedisContext, live, err, net, serverVars>>

\* Mutant: the failure is reported but not remembered in the context.
SocketErrorForgotten ==
    /\ UNCHANGED err
    /\ Return(FALSE, NoValue)

\* A socket call failed: c->err is set, redisCommand returns NULL.
SocketError ==
    /\ err' = TRUE
    /\ Return(FALSE, NoValue)

\* A write on a connection that has broken may still succeed, into the void.
redisBufferWrite ==
    /\ pc = "write"
    /\ \/ /\ obuf' = <<>>
          /\ net' = [net EXCEPT ![RedisContext].toServer =
                       IF net[RedisContext].up THEN @ \o obuf ELSE @]
          /\ pc' = "read" /\ UNCHANGED <<err, log>>
       \/ /\ ~net[RedisContext].up
          /\ SocketError /\ UNCHANGED <<obuf, net>>
    /\ UNCHANGED <<RedisInfo, RedisContext, live, reader, serverVars>>

\* One read may bring several replies: the first is the result, the others
\* stay in the reader.
ReadReplies(n) ==
    /\ n \in 1 .. Len(net[RedisContext].toClient)
    /\ net' = [net EXCEPT ![RedisContext].toClient =
                            SubSeq(@, n + 1, Len(@))]
    /\ reader' = SubSeq(net[RedisContext].toClient, 2, n)
    /\ ReplyReturn(Head(net[RedisContext].toClient))
    /\ UNCHANGED err

\* Mutant: a read that has to wait gives up and leaves the context in use.
ReadGivesUp ==
    /\ net[RedisContext].toClient = <<>>
    /\ Return(FALSE, NoValue)
    /\ UNCHANGED <<err, reader, net>>

\* Mutant: end of file is taken for "try again".
ReadRetriesEof ==
    /\ net[RedisContext].toClient = <<>> /\ ~net[RedisContext].up
    /\ UNCHANGED <<err, log, pc, reader, net>>

\* End of file or a reset, once nothing is left to read.
ReadFails ==
    /\ net[RedisContext].toClient = <<>> /\ ~net[RedisContext].up
    /\ SocketError
    /\ UNCHANGED <<reader, net>>

redisBufferRead ==
    /\ pc = "read"
    /\ (\E n \in Ids : ReadReplies(n)) \/ ReadFails
    /\ UNCHANGED <<RedisInfo, RedisContext, live, obuf, serverVars>>

-----------------------------------------------------------------------------
(* The Redis server and the network, as the client code meets them.        *)

\* The database changes; the history variables follow it.
Store(k, v) ==
    /\ db' = [db EXCEPT ![k] = v]
    /\ seen' = IF pc # "idle" /\ me > 0 /\ cur.key = k
               THEN seen \cup {v} ELSE seen

Answer(c, type, v) ==
    net' = [net EXCEPT
              ![c].toServer = Tail(@),
              ![c].toClient =
                IF net[c].up
                THEN Append(@, [id |-> Head(net[c].toServer).id,
                                type |-> type, val |-> v])
                ELSE @]

\* The server executes the next command of a connection, whether or not the
\* client still listens; it may refuse any command.
ServerExecutes(c) ==
    /\ net[c].toServer # <<>>
    /\ LET cmd == Head(net[c].toServer) IN
        \/ /\ cmd.op = "set"
           /\ Store(cmd.key, cmd.val) /\ executed' = executed \cup {cmd.id}
           /\ Answer(c, "status", Nil) /\ UNCHANGED alone
        \/ /\ cmd.op = "get" /\ Answer(c, IF db[cmd.key] = Nil THEN "nil"
                                          ELSE "string", db[cmd.key])
           /\ UNCHANGED serverVars
        \/ /\ Answer(c, "error", Nil)
           /\ UNCHANGED serverVars
    /\ UNCHANGED <<RedisInfo, ctxVars, pc, log>>

\* The connection breaks; a suffix of each direction is lost.
Break(c) ==
    /\ net[c].up
    /\ \E i \in 0 .. Len(net[c].toServer), j \in 0 .. Len(net[c].toClient) :
        net' = [net EXCEPT ![c] =
                  [toServer |-> SubSeq(@.toServer, 1, i),
                   toClient |-> SubSeq(@.toClient, 1, j), up |-> FALSE]]
    /\ UNCHANGED <<RedisInfo, ctxVars, serverVars, pc, log>>

OtherClient(k, v) ==
    /\ Store(k, v) /\ alone' = FALSE
    /\ UNCHANGED <<RedisInfo, ctxVars, net, executed, pc, log>>

-----------------------------------------------------------------------------
Thread ==
    \/ \E outcome \in {"up", "error", "null"} : ConnectRedis(outcome)
    \/ redisCommand \/ redisBufferWrite \/ redisBufferRead

Caller ==
    \/ InitCall
    \/ \E k \in Keys : GetString(k) \/ \E v \in Values : SetString(k, v)
    \/ Destroy

World ==
    \/ \E c \in Ids : ServerExecutes(c) \/ Break(c)
    \/ \E k \in Keys, v \in Data : OtherClient(k, v)

Next == Thread \/ Caller \/ World

Spec == Init /\ [][Next]_vars

\* The thread keeps running, and the server or the network deals with what
\* was sent on the connection in use: the client sets no timeout on reads.
FairSpec ==
    /\ Spec
    /\ WF_vars(Thread)
    /\ WF_vars(\E c \in Ids \cap {RedisContext} : ServerExecutes(c) \/ Break(c))

-----------------------------------------------------------------------------
(* Properties.                                                             *)

\* The variables hold what their declarations say.
TypeOK ==
    /\ RedisInfo \in BOOLEAN /\ err \in BOOLEAN
    /\ RedisContext \in 0 .. MaxCalls /\ live \subseteq Ids
    /\ obuf \in Seq(Commands) /\ reader \in Seq(Replies)
    /\ net \in [Ids -> Connections]
    /\ db \in [Keys -> Data] /\ executed \subseteq Ids /\ seen \subseteq Data
    /\ pc \in {"idle", "connect", "command", "write", "read",
               "crashed", "destroyed"}
    /\ log \in Seq(Calls) /\ me <= MaxCalls /\ alone \in BOOLEAN

\* ConnectRedis and the destructor free the context the handle points to
\* exactly once: over any sequence of calls, failed connects and errors the
\* one context alive is the one RedisContext points to.
OneContext == live = {RedisContext} \ {0}

\* Whatever breaks between calls, the replies a usable context still holds
\* or will receive answer the call in progress, and none is left over when a
\* call returns: redisGetReply would hand a leftover to the next command.
RepliesMatchCalls ==
    RedisContext # 0 /\ ~err =>
        LET conn == net[RedisContext]
            left == Len(obuf) + Len(conn.toServer)
                    + Len(conn.toClient) + Len(reader)
        IN  /\ left = 0 \/ (left = 1 /\ pc \in {"write", "read"})
            /\ \A i \in 1 .. Len(conn.toServer) : conn.toServer[i].id = me
            /\ \A i \in 1 .. Len(conn.toClient) : conn.toClient[i].id = me

\* SetString returns true only for a value the server stored by this very
\* call's command.
AckedSetStored ==
    \A i \in 1 .. me :
        log[i].op = "set" /\ log[i].result = "true" => i \in executed

\* A value GetString returns is one the key had at some moment between the
\* call and its return, never the answer to an earlier call.
ReadsCurrent ==
    pc = "idle" /\ me > 0 /\ cur.op = "get" /\ cur.out # NoValue
        => cur.out \in seen

SetsOf(k) == {i \in 1 .. me : log[i].op = "set" /\ log[i].key = k}
Acked(k) == {i \in SetsOf(k) : log[i].result = "true"}

\* As long as nobody else has written, a key holds the value of the last SetString
\* that returned true, or of one that did not return true (before or after
\* it: a command whose reply was lost may be executed late).
LastAckedOrInDoubt ==
    alone =>
        \A k \in Keys :
            \/ \E i \in SetsOf(k) \ Acked(k) : db[k] = log[i].val
            \/ \E i \in Acked(k) :
                  db[k] = log[i].val /\ \A j \in Acked(k) : j <= i
            \/ Acked(k) = {} /\ db[k] = Nil

\* After Init was called once, every call returns: no reconnect finds
\* RedisInfo null, and a broken connection ends the wait for its reply.
EveryCallReturns ==
    RedisInfo /\ pc \notin {"idle", "destroyed"} ~> pc = "idle"

\* GetString logs "get string value failed!" for a reply that holds no
\* string: a call that returns true has given its caller a value.
GetTrueHasValue ==
    \A i \in 1 .. me :
        log[i].op = "get" /\ log[i].result = "true" => log[i].out # NoValue

=============================================================================
