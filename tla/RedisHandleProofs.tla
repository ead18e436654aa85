-------------------------- MODULE RedisHandleProofs --------------------------
(***************************************************************************)
(* The inductive invariant of RedisHandle, that every step preserves it,   *)
(* and the safety properties that follow, for every set of keys and values *)
(* and every number of calls.                                              *)
(*                                                                         *)
(* The argument: a context that may be used again has nothing in flight    *)
(* between two calls, and during a call only this call's command or its    *)
(* answer (Buffers).  That needs c->err to be set on every failed read or  *)
(* write, and a new context to start on a connection nobody used (Fresh).  *)
(* A SET that may still arrive at the server was not acknowledged          *)
(* (InFlight), so a late one leaves a key with a value in doubt (Doubt).   *)
(***************************************************************************)
EXTENDS RedisHandle, TLAPS

Busy == {"command", "write", "read"}

Control ==
    /\ RedisContext <= me
    /\ pc \in Busy \cup {"connect", "crashed"} =>
         me > 0 /\ cur.result = "pending"
    /\ pc \in Busy => RedisContext # 0 /\ ~err /\ cur.op # "init"
    /\ pc = "connect" => RedisContext < me
    /\ \A i \in 1 .. me : log[i].op # "init" => log[i].key \in Keys
    /\ \A i \in executed : i <= me

Idle(c) == net[c].toServer = <<>> /\ net[c].toClient = <<>>

Fresh ==
    \A c \in Ids : c > me \/ (c = me /\ pc = "connect") => Idle(c)

MyCommand == [id |-> me, op |-> cur.op, key |-> cur.key, val |-> cur.val]

MyReply(r) ==
    /\ r \in Replies
    /\ r.id = me
    /\ cur.op = "set" /\ r.type = "status" => me \in executed
    /\ cur.op = "get" /\ r.type = "string" => r.val \in seen \cap Values

Buffers ==
    RedisContext # 0 /\ ~err =>
        /\ reader = <<>>
        /\ obuf = IF pc = "write" THEN <<MyCommand>> ELSE <<>>
        /\ \/ Idle(RedisContext)
           \/ /\ pc = "read" /\ net[RedisContext].toServer = <<MyCommand>>
              /\ net[RedisContext].toClient = <<>>
           \/ /\ pc = "read" /\ net[RedisContext].toServer = <<>>
              /\ \E r \in Replies :
                    MyReply(r) /\ net[RedisContext].toClient = <<r>>

Sent(c, cmd) ==
    /\ cmd.id <= me
    /\ cmd.op = log[cmd.id].op
    /\ cmd.key = log[cmd.id].key
    /\ cmd.val = log[cmd.id].val
    /\ log[cmd.id].result # "true"
    /\ cmd.id = me /\ cur.result = "pending" => c = RedisContext /\ pc = "read"

InFlight ==
    \A c \in Ids : \A i \in 1 .. Len(net[c].toServer) :
        Sent(c, net[c].toServer[i])

SeenNow ==
    pc \in Busy \cup {"connect"} /\ cur.op # "init" => db[cur.key] \in seen

InDoubt(k) == \E i \in SetsOf(k) \ Acked(k) : db[k] = log[i].val

Doubt ==
    alone /\ me > 0 /\ cur.op = "set" /\ cur.result = "pending"
        /\ me \in executed => InDoubt(cur.key)

IInv ==
    /\ TypeOK /\ Control /\ OneContext /\ Fresh /\ Buffers
    /\ InFlight /\ SeenNow /\ AckedSetStored /\ ReadsCurrent
    /\ Doubt /\ LastAckedOrInDoubt

-----------------------------------------------------------------------------
(* Sequences and the log.                                                  *)

\* What appending one element returns.
LEMMA AppendOne ==
  ASSUME NEW S, NEW s \in Seq(S), NEW e \in S
  PROVE  /\ Append(s, e) \in Seq(S) /\ Len(Append(s, e)) = Len(s) + 1
         /\ \A i \in 1 .. Len(s) : Append(s, e)[i] = s[i]
         /\ Append(s, e)[Len(s) + 1] = e
  OBVIOUS

\* Appending to the empty sequence, and putting it before another.
LEMMA AppendEmpty ==
  ASSUME NEW S, NEW e, NEW s \in Seq(S)
  PROVE  Append(<<>>, e) = <<e>> /\ <<>> \o s = s
  OBVIOUS

\* What taking the first element off returns.
LEMMA TakeOne ==
  ASSUME NEW S, NEW s \in Seq(S), s # <<>>
  PROVE  /\ Head(s) = s[1] /\ Head(s) \in S /\ 1 \in 1 .. Len(s)
         /\ Tail(s) \in Seq(S)
         /\ \A i \in 1 .. Len(Tail(s)) :
               i + 1 \in 1 .. Len(s) /\ Tail(s)[i] = s[i + 1]
  OBVIOUS

\* The head and the tail of a sequence of one element.
LEMMA Single ==
  ASSUME NEW S, NEW e \in S
  PROVE  /\ <<e>> \in Seq(S) /\ Len(<<e>>) = 1 /\ <<e>>[1] = e
         /\ Head(<<e>>) = e /\ Tail(<<e>>) = <<>> /\ <<e>> # <<>>
         /\ SubSeq(<<e>>, 2, 1) = <<>>
  OBVIOUS

\* The length of a sequence of one element, and of none.
LEMMA Lengths ==
  ASSUME NEW e
  PROVE  Len(<<e>>) = 1 /\ Len(<<>>) = 0
  BY Zenon

\* What a prefix is.
LEMMA Prefix ==
  ASSUME NEW S, NEW s \in Seq(S), NEW n \in 0 .. Len(s)
  PROVE  /\ SubSeq(s, 1, n) \in Seq(S) /\ Len(SubSeq(s, 1, n)) = n
         /\ n <= Len(s)
         /\ \A i \in 1 .. n : SubSeq(s, 1, n)[i] = s[i]
  OBVIOUS

\* The numbers and the fields of the calls.
LEMMA Numbers ==
  ASSUME TypeOK
  PROVE  /\ me \in Nat /\ me <= MaxCalls /\ MaxCalls \in Nat
         /\ \A i \in 1 .. me : log[i] \in Calls
         /\ me > 0 => me \in Ids /\ cur \in Calls
         /\ \A i \in 1 .. me : i \in Ids
  <1>1. log \in Seq(Calls) /\ Len(log) <= MaxCalls
    BY Zenon DEF TypeOK, me
  <1>2. Len(log) \in Nat /\ \A i \in 1 .. Len(log) : log[i] \in Calls
    BY <1>1
  <1> QED BY <1>1, <1>2, CallsAssumption DEF me, cur, Ids

\* A returning call changes its own result and nothing else of the log.
Returned(ok, out) ==
  /\ log' \in Seq(Calls) /\ me' = me /\ pc' = "idle"
  /\ \A i \in 1 .. me : i # me => log'[i] = log[i]
  /\ \A i \in 1 .. me : /\ log'[i].op = log[i].op
                        /\ log'[i].key = log[i].key
                        /\ log'[i].val = log[i].val
  /\ log'[me].result = (IF ok THEN "true" ELSE "false")
  /\ log'[me].out = out

\* What Return does to the log.
LEMMA ReturnEffect ==
  ASSUME TypeOK, me > 0, NEW ok \in BOOLEAN, NEW out \in Values \cup {NoValue},
         Return(ok, out)
  PROVE  Returned(ok, out)
  <1> DEFINE r == [log[me] EXCEPT !.result = IF ok THEN "true" ELSE "false",
                                  !.out = out]
  <1>1. me \in 1 .. Len(log) /\ log[me] \in Calls /\ log \in Seq(Calls)
    BY Numbers DEF me, cur, TypeOK
  <1>2. /\ r \in Calls
        /\ r.op = log[me].op /\ r.key = log[me].key /\ r.val = log[me].val
        /\ r.result = (IF ok THEN "true" ELSE "false") /\ r.out = out
    BY <1>1, Zenon DEF Calls
  <1>3. log' = [log EXCEPT ![me] = r] /\ pc' = "idle"
    BY Zenon, <1>1 DEF Return
  <1> HIDE DEF r
  <1>4. /\ log' \in Seq(Calls) /\ Len(log') = Len(log) /\ log'[me] = r
        /\ \A i \in 1 .. Len(log) : i # me => log'[i] = log[i]
    BY <1>1, <1>2, <1>3
  <1> QED
    BY Zenon, <1>1, <1>2, <1>3, <1>4 DEF Returned, me

-----------------------------------------------------------------------------
(* A call returns: ConnectRedis fails or ends Init, a socket call fails, a *)
(* reply was read.                                                         *)

\* The server and what was sent to it are as before, and a call that returns
\* true has no command left on the way.
Quiet(ok) ==
  /\ UNCHANGED serverVars
  /\ \A c \in Ids : /\ net'[c].toServer = net[c].toServer
                    /\ net'[c].toClient = <<>>
                         \/ net'[c].toClient = net[c].toClient
  /\ ok => \A c \in Ids : \A i \in 1 .. Len(net[c].toServer) :
             net[c].toServer[i].id # me

\* SetString returns true only for a command that was executed, GetString
\* gives a value the key had.
Honest(ok, out) ==
  /\ ok /\ cur.op = "set" => me \in executed
  /\ cur.op = "get" /\ out # NoValue => out \in seen

\* Commands in flight have numbers of calls.
LEMMA CommandIds ==
  ASSUME TypeOK, NEW c \in Ids, NEW i \in 1 .. Len(net[c].toServer)
  PROVE  /\ net[c].toServer[i] \in Commands
         /\ net[c].toServer[i].id \in Ids
         /\ Len(net[c].toServer) \in Nat
  <1>1. net[c].toServer \in Seq(Commands)
    BY Zenon DEF TypeOK, Connections
  <1>2. net[c].toServer[i] \in Commands /\ Len(net[c].toServer) \in Nat
    BY <1>1
  <1> QED
    BY <1>2, Zenon DEF Commands

\* Returning keeps what is in flight unacknowledged.
LEMMA ReturnInFlight ==
  ASSUME IInv, me > 0, NEW ok \in BOOLEAN, NEW out, Returned(ok, out), Quiet(ok)
  PROVE  InFlight'
  <1> SUFFICES ASSUME NEW c \in Ids, NEW i \in 1 .. Len(net'[c].toServer)
               PROVE  Sent(c, net[c].toServer[i])'
    BY Zenon DEF InFlight
  <1> DEFINE cmd == net[c].toServer[i]
  <1>1. net'[c].toServer = net[c].toServer
    BY Zenon DEF Quiet
  <1>2. i \in 1 .. Len(net[c].toServer) /\ net'[c].toServer[i] = cmd
    BY <1>1, Zenon
  <1>3. Sent(c, cmd) /\ cmd.id \in Ids
    BY <1>2, CommandIds, Zenon DEF IInv, InFlight
  <1>4. ok => cmd.id # me
    BY <1>2, Zenon DEF Quiet
  <1> HIDE DEF cmd
  <1>5. cmd.id \in 1 .. me /\ me \in 1 .. me
    BY <1>3, Numbers DEF Sent, IInv, Ids
  <1>6. log'[cmd.id].result # "true"
    <2>1. CASE cmd.id = me
      BY <2>1, <1>4, Zenon DEF Returned
    <2>2. CASE cmd.id # me
      BY <2>2, <1>3, <1>5, Zenon DEF Returned, Sent
    <2> QED BY <2>1, <2>2, Zenon
  <1>7. cur'.result # "pending"
    BY Zenon DEF Returned, cur
  <1>8. /\ cmd.id <= me' /\ cmd.op = log'[cmd.id].op
        /\ cmd.key = log'[cmd.id].key /\ cmd.val = log'[cmd.id].val
    BY <1>3, <1>5, Zenon DEF Returned, Sent
  <1> QED
    BY <1>2, <1>6, <1>7, <1>8, Zenon DEF Sent

\* Returning keeps the last acknowledged value, or one in doubt, in the
\* database.
LEMMA ReturnLastAcked ==
  ASSUME IInv, me > 0, NEW ok \in BOOLEAN, NEW out, Returned(ok, out), Quiet(ok),
         Honest(ok, out), cur.result = "pending"
  PROVE  LastAckedOrInDoubt'
  <1> SUFFICES ASSUME alone', NEW k \in Keys
               PROVE  \/ \E i \in (SetsOf(k) \ Acked(k))' : db'[k] = log'[i].val
                      \/ \E i \in Acked(k)' :
                           db'[k] = log'[i].val /\ \A j \in Acked(k)' : j <= i
                      \/ Acked(k)' = {} /\ db'[k] = Nil
    BY Zenon DEF LastAckedOrInDoubt
  <1>1. /\ db' = db /\ me' = me /\ me \in Nat /\ alone' = alone
        /\ SetsOf(k)' = SetsOf(k) /\ SetsOf(k) \subseteq 1 .. me
        /\ \A i \in SetsOf(k) : log'[i].val = log[i].val
    BY Numbers, ZenonT(40) DEF IInv, Returned, Quiet, serverVars, SetsOf
  <1>2. LastAckedOrInDoubt /\ Doubt
    BY Zenon DEF IInv
  <1>3. CASE ok /\ me \in SetsOf(k)
    <2>1. cur.op = "set" /\ cur.key = k
      BY <1>3, Zenon DEF SetsOf, cur
    <2>2. InDoubt(k)
      BY <2>1, <1>1, <1>2, <1>3, Zenon DEF Doubt, Honest
    <2>3. PICK i \in SetsOf(k) \ Acked(k) : db[k] = log[i].val
      BY <2>2, Zenon DEF InDoubt
    <2>4. me \in Acked(k)'
      BY <1>1, <1>3, Zenon DEF Acked, Returned
    <2>5. \A j \in Acked(k)' : j <= me
      BY <1>1 DEF Acked
    <2>6. CASE i = me
      BY <2>3, <2>4, <2>5, <2>6, <1>1, <1>3, Zenon
    <2>7. CASE i # me
      BY <2>3, <2>7, <1>1, Zenon DEF Acked, Returned
    <2> QED BY <2>6, <2>7, Zenon
  <1>4. CASE ~(ok /\ me \in SetsOf(k))
    <2>1. Acked(k)' = Acked(k)
      BY <1>1, <1>4, Zenon DEF Acked, Returned, cur
    <2> QED
      BY <2>1, <1>1, <1>2, Zenon DEF LastAckedOrInDoubt, Acked
  <1> QED BY <1>3, <1>4, Zenon

\* What returning preserves whatever the reason.
LEMMA ReturnKeeps ==
  ASSUME IInv, me > 0, NEW ok \in BOOLEAN, NEW out, Returned(ok, out), Quiet(ok),
         Honest(ok, out), cur.result = "pending", RedisContext' <= me
  PROVE  /\ Control' /\ Fresh' /\ InFlight' /\ SeenNow' /\ AckedSetStored'
         /\ ReadsCurrent' /\ Doubt' /\ LastAckedOrInDoubt'
  <1>0. me \in Nat /\ me \in 1 .. me /\ me' = me /\ pc' = "idle"
    BY Numbers DEF IInv, Returned
  <1>1. Control'
    BY <1>0, Zenon DEF IInv, Control, Returned, Quiet, serverVars, Busy
  <1>2. Fresh'
    BY <1>0, Zenon DEF IInv, Fresh, Quiet, Idle
  <1>3. AckedSetStored'
    <2> SUFFICES ASSUME NEW i \in 1 .. me, log'[i].op = "set",
                        log'[i].result = "true"
                 PROVE  i \in executed
      BY <1>0, Zenon DEF AckedSetStored, Quiet, serverVars
    <2>1. CASE i = me
      BY <2>1, Zenon DEF Returned, Honest, cur
    <2>2. CASE i # me
      BY <2>2, Zenon DEF Returned, IInv, AckedSetStored
    <2> QED BY <2>1, <2>2, Zenon
  <1>4. ReadsCurrent'
    BY <1>0, Zenon DEF ReadsCurrent, Returned, Quiet, serverVars, Honest, cur
  <1>5. SeenNow' /\ Doubt'
    BY <1>0, Zenon DEF SeenNow, Doubt, Returned, Busy, cur
  <1> QED
    BY <1>1, <1>2, <1>3, <1>4, <1>5, ReturnInFlight, ReturnLastAcked, Zenon

-----------------------------------------------------------------------------
(* The steps of the thread.                                                *)

\* c->err remembers a failed read or write.
LEMMA SocketErrorStep ==
  ASSUME IInv, pc \in {"write", "read"}, SocketError,
         UNCHANGED <<RedisInfo, RedisContext, live, obuf, reader, net, serverVars>>
  PROVE  IInv'
  <1>1. me > 0 /\ cur.result = "pending" /\ RedisContext <= me
    BY Zenon DEF IInv, Control, Busy
  <1>2. Returned(FALSE, NoValue)
    BY Zenon, <1>1, ReturnEffect DEF SocketError, IInv
  <1>3. Quiet(FALSE) /\ Honest(FALSE, NoValue)
    BY Zenon DEF Quiet, Honest
  <1>4. TypeOK'
    BY <1>2, Zenon DEF IInv, TypeOK, SocketError, serverVars, Returned
  <1>5. Buffers' /\ OneContext'
    BY Zenon DEF SocketError, Buffers, OneContext, IInv
  <1> QED
    BY Zenon, <1>1, <1>2, <1>3, <1>4, <1>5, ReturnKeeps DEF IInv

\* The one reply a read finds is this call's.
LEMMA ReadFinds ==
  ASSUME IInv, pc = "read", NEW n \in Ids, ReadReplies(n)
  PROVE  \E r \in Replies :
           /\ MyReply(r) /\ net[RedisContext].toClient = <<r>>
           /\ net[RedisContext].toServer = <<>> /\ reader' = <<>>
           /\ net' = [net EXCEPT ![RedisContext].toClient = <<>>]
           /\ ReplyReturn(r)
  <1>1. RedisContext # 0 /\ ~err
    BY Zenon DEF IInv, Control, Busy
  <1>2. net[RedisContext].toClient # <<>> /\ n >= 1
        /\ n <= Len(net[RedisContext].toClient)
    BY DEF ReadReplies, Ids
  <1>3. PICK r \in Replies :
           /\ MyReply(r) /\ net[RedisContext].toClient = <<r>>
           /\ net[RedisContext].toServer = <<>>
    BY <1>1, <1>2, Zenon DEF IInv, Buffers, Idle
  <1>4. Len(<<r>>) = 1 /\ Head(<<r>>) = r /\ SubSeq(<<r>>, 2, 1) = <<>>
    BY Single, Zenon
  <1>5. n = 1
    BY <1>2, <1>3, <1>4 DEF Ids
  <1>6. SubSeq(net[RedisContext].toClient, n + 1, Len(net[RedisContext].toClient))
          = <<>>
    BY <1>3, <1>4, <1>5
  <1>7. net' = [net EXCEPT ![RedisContext].toClient = <<>>]
    BY Zenon, <1>6 DEF ReadReplies
  <1>8. reader' = <<>> /\ ReplyReturn(r)
    BY <1>3, <1>4, <1>5, Zenon DEF ReadReplies
  <1> QED
    BY <1>3, <1>7, <1>8, Zenon

\* The result SetString and GetString make of this call's reply.
LEMMA ReplyResult ==
  ASSUME IInv, pc = "read", NEW r \in Replies, MyReply(r), ReplyReturn(r)
  PROVE  \E ok \in BOOLEAN, out \in Values \cup {NoValue} :
            Returned(ok, out) /\ Honest(ok, out)
  <1>1. me > 0
    BY Zenon DEF IInv, Control, Busy
  <1>2. CASE cur.op = "set" /\ SetReturn(r)
    <2>1. Returned(r.type = "status", NoValue)
      BY Zenon, <1>1, <1>2, ReturnEffect DEF SetReturn, IInv
    <2>2. Honest(r.type = "status", NoValue)
      BY <1>2, Zenon DEF Honest, MyReply
    <2> QED BY Zenon, <2>1, <2>2
  <1>3. CASE cur.op = "get" /\ GetReturn(r)
    <2> DEFINE out == IF r.type = "string" THEN r.val ELSE NoValue
    <2>1. out \in Values \cup {NoValue} /\ (out # NoValue => out \in seen)
      BY <1>3, Zenon DEF MyReply
    <2>2. Return(TRUE, out)
      BY Zenon, <1>3 DEF GetReturn
    <2> HIDE DEF out
    <2>3. Returned(TRUE, out)
      BY Zenon, <1>1, <2>1, <2>2, ReturnEffect DEF IInv
    <2>4. Honest(TRUE, out)
      BY <1>3, <2>1, Zenon DEF Honest
    <2> QED BY Zenon, <2>1, <2>3, <2>4
  <1> QED
    BY <1>2, <1>3, Zenon DEF ReplyReturn

\* A usable context has nothing left when its call has read the reply.
LEMMA ReadStep ==
  ASSUME IInv, redisBufferRead
  PROVE  IInv'
  <1>0. pc = "read" /\ RedisContext # 0 /\ RedisContext \in Ids /\ ~err
        /\ me > 0 /\ cur.result = "pending" /\ RedisContext <= me
    BY DEF IInv, Control, Busy, redisBufferRead, TypeOK, Ids
  <1>1. CASE ReadFails
    BY <1>0, <1>1, SocketErrorStep, Zenon DEF redisBufferRead, ReadFails
  <1>2. ASSUME NEW n \in Ids, ReadReplies(n)
        PROVE  IInv'
    <2>1. PICK r \in Replies :
           /\ MyReply(r) /\ net[RedisContext].toClient = <<r>>
           /\ net[RedisContext].toServer = <<>> /\ reader' = <<>>
           /\ net' = [net EXCEPT ![RedisContext].toClient = <<>>]
           /\ ReplyReturn(r)
      BY <1>0, <1>2, ReadFinds, Zenon
    <2>2. PICK ok \in BOOLEAN, out \in Values \cup {NoValue} :
            Returned(ok, out) /\ Honest(ok, out)
      BY <1>0, <2>1, ReplyResult, Zenon
    <2>3. /\ net' \in [Ids -> Connections]
          /\ \A c \in Ids : net'[c].toServer = net[c].toServer
          /\ \A c \in Ids : c # RedisContext => net'[c] = net[c]
          /\ net'[RedisContext].toClient = <<>>
      <3>1. net \in [Ids -> Connections] /\ <<>> \in Seq(Replies)
        BY DEF IInv, TypeOK
      <3> QED BY Zenon, <1>0, <2>1, <3>1 DEF Connections
    <2>4. Quiet(ok)
      <3>1. ASSUME NEW c \in Ids, NEW i \in 1 .. Len(net[c].toServer)
            PROVE  net[c].toServer[i].id # me
        <4>1. Sent(c, net[c].toServer[i])
          BY <3>1, Zenon DEF IInv, InFlight
        <4>2. c # RedisContext
          BY <3>1, <2>1
        <4> QED BY <4>1, <4>2, <1>0, Zenon DEF Sent
      <3>2. UNCHANGED serverVars
        BY Zenon DEF redisBufferRead
      <3> QED BY <3>1, <3>2, <2>3, Zenon DEF Quiet
    <2>5. UNCHANGED <<RedisInfo, RedisContext, live, obuf, err,
                      db, executed, seen, alone>>
      BY <1>2, Zenon DEF redisBufferRead, serverVars, ReadReplies
    <2>6. TypeOK'
      <3>1. reader' \in Seq(Replies)
        BY <2>1
      <3> QED BY <2>2, <2>3, <2>5, <3>1, Zenon DEF IInv, TypeOK, Returned
    <2>7. Buffers'
      BY <1>0, <2>1, <2>2, <2>3, <2>5, Zenon DEF IInv, Buffers, Idle, Returned
    <2>8. OneContext'
      BY <2>5, Zenon DEF IInv, OneContext
    <2> QED
      BY <1>0, <2>2, <2>4, <2>5, <2>6, <2>7, <2>8, ReturnKeeps, Zenon DEF IInv
  <1> QED
    BY <1>1, <1>2, Zenon DEF redisBufferRead

\* What the steps inside a call keep: they change neither the log nor the
\* server, and send at most this call's command.
LEMMA InsideCall ==
  ASSUME IInv, pc \in {"command", "write"}, pc' \in Busy,
         UNCHANGED <<RedisContext, err, log, db, executed, seen, alone>>,
         \A c \in Ids : c # RedisContext => net'[c] = net[c],
         \/ net'[RedisContext].toServer = net[RedisContext].toServer
         \/ pc' = "read" /\ net'[RedisContext].toServer = <<MyCommand>>
  PROVE  /\ Control' /\ Fresh' /\ InFlight' /\ SeenNow' /\ AckedSetStored'
         /\ ReadsCurrent' /\ Doubt' /\ LastAckedOrInDoubt'
  <1>0. /\ me' = me /\ cur' = cur /\ me \in Nat /\ me > 0 /\ me \in 1 .. me
        /\ RedisContext <= me /\ RedisContext \in Ids /\ cur.result = "pending"
    BY Numbers DEF IInv, Control, me, cur, TypeOK, Ids, Busy
  <1>1. Control'
    BY <1>0, Zenon DEF IInv, Control, Busy
  <1>2. Fresh'
    <2> SUFFICES ASSUME NEW c \in Ids, c > me PROVE Idle(c)'
      BY <1>0, Zenon DEF Fresh, Busy
    <2>1. net'[c] = net[c]
      BY <1>0 DEF Ids
    <2>2. Idle(c)
      BY Zenon DEF IInv, Fresh
    <2> QED BY <2>1, <2>2, Zenon DEF Idle
  <1>3. InFlight'
    <2> SUFFICES ASSUME NEW c \in Ids, NEW i \in 1 .. Len(net'[c].toServer)
                 PROVE  Sent(c, net[c].toServer[i])'
      BY Zenon DEF InFlight
    <2>1. CASE net'[c].toServer = net[c].toServer
      <3>1. Sent(c, net[c].toServer[i])
        BY ZenonT(60), <2>1 DEF IInv, InFlight
      <3>2. net[c].toServer[i].id # me
        BY <3>1, <1>0, Zenon DEF Sent
      <3> QED BY Zenon, <3>1, <3>2, <2>1, <1>0 DEF Sent
    <2>2. CASE /\ c = RedisContext /\ pc' = "read"
               /\ net'[c].toServer = <<MyCommand>>
      <3>1. net'[c].toServer[i] = MyCommand
        BY <2>2
      <3>2. /\ MyCommand.id = me /\ MyCommand.op = cur.op
            /\ MyCommand.key = cur.key /\ MyCommand.val = cur.val
        BY Zenon DEF MyCommand
      <3> QED BY <3>1, <3>2, <2>2, <1>0 DEF Sent, cur
    <2> QED BY <2>1, <2>2, Zenon
  <1>4. SeenNow' /\ Doubt'
    BY <1>0, Zenon DEF IInv, SeenNow, Doubt, Busy, InDoubt, SetsOf, Acked
  <1>5. AckedSetStored' /\ ReadsCurrent'
    BY <1>0, Zenon DEF IInv, AckedSetStored, ReadsCurrent, Busy
  <1>6. LastAckedOrInDoubt'
    BY <1>0 DEF IInv, LastAckedOrInDoubt, SetsOf, Acked
  <1> QED BY <1>1, <1>2, <1>3, <1>4, <1>5, <1>6, Zenon

\* redisCommand on a usable context always goes on to write.
LEMMA CommandStep ==
  ASSUME IInv, redisCommand
  PROVE  IInv'
  <1>0. /\ pc = "command" /\ RedisContext # 0 /\ ~err /\ RedisContext \in Ids
        /\ me > 0 /\ cur.op # "init" /\ me \in Ids /\ cur \in Calls
        /\ cur.key \in Keys
    BY Numbers DEF IInv, Control, Busy, redisCommand, TypeOK, Ids, cur, me
  <1>1. reader = <<>> /\ obuf = <<>> /\ Idle(RedisContext)
    BY <1>0, Zenon DEF IInv, Buffers
  <1>2. MyCommand \in Commands
    BY <1>0, Zenon DEF MyCommand, Commands, Calls
  <1>3. /\ obuf' = <<MyCommand>> /\ pc' = "write"
        /\ UNCHANGED <<log, reader, RedisInfo, RedisContext, live, err, net,
                      db, executed, seen, alone>>
    <2>1. obuf' = Append(<<>>, MyCommand)
      BY <1>1, Zenon DEF redisCommand, MyCommand
    <2> QED BY <2>1, <1>1, AppendEmpty DEF redisCommand, serverVars
  <1>4. TypeOK'
    <2>1. obuf' \in Seq(Commands) /\ me' = me
      BY <1>2, <1>3, Single, Zenon DEF me
    <2> QED BY <2>1, <1>3, Zenon DEF IInv, TypeOK
  <1>5. Buffers'
    <2>1. MyCommand' = MyCommand
      BY <1>3, Zenon DEF MyCommand, me, cur
    <2> QED BY <1>1, <1>3, <2>1, Zenon DEF Buffers, Idle
  <1>6. OneContext'
    BY <1>3, Zenon DEF IInv, OneContext
  <1> QED
    BY <1>0, <1>3, <1>4, <1>5, <1>6, InsideCall, Zenon DEF IInv, Busy

\* A write sends this call's command or puts the context in error.
LEMMA WriteStep ==
  ASSUME IInv, redisBufferWrite
  PROVE  IInv'
  <1>0. /\ pc = "write" /\ RedisContext # 0 /\ ~err /\ RedisContext \in Ids
        /\ me > 0
    BY DEF IInv, Control, Busy, redisBufferWrite, TypeOK, Ids
  <1>1. /\ reader = <<>> /\ obuf = <<MyCommand>>
        /\ net[RedisContext].toServer = <<>>
        /\ net[RedisContext].toClient = <<>>
    BY <1>0, Zenon DEF IInv, Buffers, Idle
  <1>2. CASE SocketError /\ UNCHANGED <<obuf, net>>
    BY <1>0, <1>2, SocketErrorStep, Zenon DEF redisBufferWrite
  <1>3. CASE ~(SocketError /\ UNCHANGED <<obuf, net>>)
    <2> DEFINE sent == IF net[RedisContext].up
                       THEN net[RedisContext].toServer \o obuf
                       ELSE net[RedisContext].toServer
    <2>1. /\ obuf' = <<>> /\ pc' = "read"
          /\ net' = [net EXCEPT ![RedisContext].toServer = sent]
          /\ UNCHANGED <<log, reader, RedisInfo, RedisContext, live, err,
                        db, executed, seen, alone>>
      BY <1>3, Zenon DEF redisBufferWrite, serverVars
    <2>2. obuf \in Seq(Commands) /\ net \in [Ids -> Connections]
      BY Zenon DEF IInv, TypeOK
    <2>3. sent = <<MyCommand>> \/ sent = <<>>
      BY <1>1, <2>2, AppendEmpty, Zenon
    <2>4. sent \in Seq(Commands)
      BY <2>2, <2>3, <1>1
    <2> HIDE DEF sent
    <2>5. /\ net' \in [Ids -> Connections]
          /\ \A c \in Ids : c # RedisContext => net'[c] = net[c]
          /\ net'[RedisContext].toServer = sent
          /\ net'[RedisContext].toClient = <<>>
      BY Zenon, <1>0, <1>1, <2>1, <2>2, <2>4 DEF Connections
    <2>6. TypeOK'
      <3>1. obuf' \in Seq(Commands) /\ me' = me
        BY <2>1 DEF me
      <3> QED BY <3>1, <2>1, <2>5, Zenon DEF IInv, TypeOK
    <2>7. Buffers'
      <3>1. MyCommand' = MyCommand
        BY <2>1, Zenon DEF MyCommand, me, cur
      <3> QED BY <1>1, <2>1, <2>3, <2>5, <3>1, Zenon DEF Buffers, Idle
    <2>8. OneContext'
      BY <2>1, Zenon DEF IInv, OneContext
    <2> QED
      BY <1>0, <1>1, <2>1, <2>3, <2>5, <2>6, <2>7, <2>8, InsideCall, Zenon
      DEF IInv, Busy
  <1> QED BY <1>2, <1>3, Zenon

\* A new context starts on a connection nobody used, and replaces the old one.
LEMMA ConnectStep ==
  ASSUME IInv, NEW outcome \in {"up", "error", "null"}, ConnectRedis(outcome)
  PROVE  IInv'
  <1>0. /\ pc = "connect" /\ me > 0 /\ cur.result = "pending" /\ me \in Ids
        /\ RedisContext < me /\ me \in Nat /\ cur \in Calls
        /\ RedisContext \in Nat
    BY Numbers DEF IInv, Control, ConnectRedis, TypeOK
  <1>1. UNCHANGED <<RedisInfo, db, executed, seen, alone>>
    BY Zenon DEF ConnectRedis, serverVars
  <1>2. /\ RedisContext' = (IF outcome = "null" THEN 0 ELSE me)
        /\ live' = (live \ {RedisContext})
                   \cup (IF outcome = "null" THEN {} ELSE {me})
        /\ err' = (outcome = "error")
        /\ obuf' = <<>> /\ reader' = <<>>
    BY Zenon DEF ConnectRedis, Connected
  <1>3. /\ net' \in [Ids -> Connections]
        /\ \A c \in Ids : /\ net'[c].toServer = net[c].toServer
                          /\ net'[c].toClient = <<>>
                               \/ net'[c].toClient = net[c].toClient
    <2>1. net' = [redisFree EXCEPT ![me].up = (outcome = "up")]
      BY Zenon DEF ConnectRedis, Connected
    <2>2. net \in [Ids -> Connections] /\ <<>> \in Seq(Replies)
      BY DEF IInv, TypeOK
    <2>3. /\ redisFree \in [Ids -> Connections]
          /\ \A c \in Ids : /\ redisFree[c].toServer = net[c].toServer
                            /\ redisFree[c].toClient = <<>>
                                 \/ redisFree[c].toClient = net[c].toClient
      BY <2>2, Zenon DEF redisFree, Connections
    <2> HIDE DEF redisFree
    <2> QED BY ZenonT(60), <2>1, <2>3, <1>0 DEF Connections
  <1>4. net'[me].toServer = <<>> /\ net'[me].toClient = <<>>
    <2>1. Idle(me)
      BY <1>0, Zenon DEF IInv, Fresh
    <2> QED BY <2>1, <1>0, <1>3, Zenon DEF Idle
  <1>5. OneContext'
    BY <1>0, <1>2 DEF IInv, OneContext
  <1>6. /\ RedisContext' \in 0 .. MaxCalls /\ live' \subseteq Ids
        /\ err' \in BOOLEAN /\ obuf' \in Seq(Commands) /\ reader' \in Seq(Replies)
        /\ RedisContext' <= me
    <2>1. live \subseteq Ids /\ me \in 0 .. MaxCalls /\ 0 \in 0 .. MaxCalls
      BY <1>0, CallsAssumption DEF IInv, TypeOK, Ids
    <2> QED BY <2>1, <1>0, <1>2
  <1>7. CASE outcome = "up" /\ cur.op # "init" /\ pc' = "command" /\ log' = log
    <2>0. /\ me' = me /\ cur' = cur /\ RedisContext' = me /\ ~err'
          /\ pc' \in Busy
      BY Zenon, <1>0, <1>2, <1>7 DEF me, cur, Busy
    <2>1. TypeOK'
      BY <1>1, <1>3, <1>6, <1>7, <2>0, Zenon DEF IInv, TypeOK
    <2>2. Control'
      BY <1>0, <1>1, <1>7, <2>0 DEF IInv, Control, Busy
    <2>3. Fresh'
      BY <1>3, <1>7, <2>0, Zenon DEF IInv, Fresh, Idle
    <2>4. Buffers'
      BY ZenonT(60), <1>2, <1>4, <1>7, <2>0 DEF Buffers, Idle
    <2>5. InFlight'
      <3> SUFFICES ASSUME NEW c \in Ids, NEW i \in 1 .. Len(net'[c].toServer)
                   PROVE  Sent(c, net[c].toServer[i])'
        BY Zenon DEF InFlight
      <3>1. net'[c].toServer = net[c].toServer
        BY <1>3, Zenon
      <3>2. Sent(c, net[c].toServer[i])
        BY <3>1, Zenon DEF IInv, InFlight
      <3> QED BY <3>1, <3>2, <1>0, <1>7, <2>0, Zenon DEF Sent
    <2>6. SeenNow' /\ Doubt'
      BY <1>0, <1>1, <1>7, <2>0, Zenon DEF IInv, SeenNow, Doubt, Busy, InDoubt, SetsOf,
                                   Acked
    <2>7. AckedSetStored' /\ ReadsCurrent'
      BY <1>1, <1>7, <2>0, Zenon DEF IInv, AckedSetStored, ReadsCurrent
    <2>8. LastAckedOrInDoubt'
      BY <1>1, <1>7, <2>0 DEF IInv, LastAckedOrInDoubt, SetsOf, Acked
    <2> QED
      BY <1>5, <2>1, <2>2, <2>3, <2>4, <2>5, <2>6, <2>7, <2>8, Zenon DEF IInv
  <1>8. ASSUME NEW ok \in BOOLEAN, Return(ok, NoValue),
               ok => cur.op = "init" /\ outcome = "up",
               ~ok => outcome # "up"
        PROVE  IInv'
    <2>1. Returned(ok, NoValue)
      BY <1>0, <1>8, ReturnEffect, Zenon DEF IInv
    <2>2. Quiet(ok)
      <3>1. ASSUME ok, NEW c \in Ids, NEW i \in 1 .. Len(net[c].toServer)
            PROVE  net[c].toServer[i].id # me
        <4>1. Sent(c, net[c].toServer[i])
          BY <3>1, Zenon DEF IInv, InFlight
        <4> QED BY <4>1, <1>0, Zenon DEF Sent
      <3> QED BY <3>1, <1>1, <1>3, Zenon DEF Quiet, serverVars
    <2>3. Honest(ok, NoValue)
      BY <1>8, Zenon DEF Honest
    <2>4. TypeOK'
      BY <1>1, <1>3, <1>6, <2>1, Zenon DEF IInv, TypeOK, Returned
    <2>5. Buffers'
      BY <1>2, <1>4, <2>1, Zenon DEF Buffers, Idle, Returned
    <2> QED
      BY <1>0, <1>5, <1>6, <2>1, <2>2, <2>3, <2>4, <2>5, ReturnKeeps, Zenon DEF IInv
  <1>9. CASE Return(TRUE, NoValue) /\ outcome = "up" /\ cur.op = "init"
    BY Zenon, <1>8, <1>9
  <1>10. CASE Return(FALSE, NoValue) /\ outcome # "up"
    BY Zenon, <1>8, <1>10
  <1> QED
    BY Zenon, <1>7, <1>9, <1>10 DEF ConnectRedis

-----------------------------------------------------------------------------
(* The caller: a call begins, the handle is destroyed.                      *)

\* A call begins: its entry is added to the log and nothing was sent for it.
LEMMA BeginStep ==
  ASSUME IInv, NEW op \in {"init", "set", "get"}, NEW k \in Keys \cup {Nil},
         NEW v \in Data, NEW reconnect \in BOOLEAN, Begin(op, k, v, reconnect),
         op # "init" => k \in Keys, op = "init" => reconnect,
         ~reconnect => ~LostConnect, RedisInfo' \in BOOLEAN
  PROVE  IInv'
  <1> DEFINE r == [op |-> op, key |-> k, val |-> v,
                   result |-> "pending", out |-> NoValue]
  <1>0. me \in Nat /\ me < MaxCalls /\ MaxCalls \in Nat /\ pc = "idle"
        /\ log \in Seq(Calls) /\ Len(log) = me
    BY Numbers, Zenon DEF IInv, Begin, TypeOK, me
  <1>1. r \in Calls /\ r.op = op /\ r.key = k /\ r.val = v
        /\ r.result = "pending" /\ r.out = NoValue
    BY Zenon DEF Calls
  <1>2. log' = Append(log, r)
    BY Zenon DEF Begin
  <1> HIDE DEF r
  <1>3. /\ log' \in Seq(Calls) /\ me' = me + 1 /\ cur' = r
        /\ log'[me + 1] = r
        /\ \A i \in 1 .. me : log'[i] = log[i]
    BY <1>0, <1>1, <1>2, AppendOne DEF me, cur
  <1>a. \A i \in 1 .. me' : i = me + 1 \/ i \in 1 .. me
    BY <1>0, <1>3
  <1>4. /\ UNCHANGED <<RedisContext, live, err, obuf, reader, net, db,
                       executed, alone>>
        /\ seen' = {db[x] : x \in Keys \cap {k}}
        /\ pc' \in {"command", "connect", "crashed"}
        /\ (pc' = "command" => ~reconnect)
    BY Zenon DEF Begin, ctxVars
  <1>5. TypeOK'
    <2>1. seen' \subseteq Data
      BY <1>4, Zenon DEF IInv, TypeOK
    <2>2. me' <= MaxCalls
      BY <1>0, <1>3
    <2>3. pc' \in {"idle", "connect", "command", "write", "read",
                   "crashed", "destroyed"}
      BY <1>4, Zenon
    <2> QED BY <1>3, <1>4, <2>1, <2>2, <2>3, Zenon DEF IInv, TypeOK
  <1>6. Control'
    <2>1. /\ RedisContext' < me' /\ RedisContext' <= me' /\ me' > 0
          /\ cur'.result = "pending"
      BY <1>0, <1>1, <1>3, <1>4 DEF IInv, Control, TypeOK
    <2>2. pc' \in Busy => RedisContext' # 0 /\ ~err' /\ cur'.op # "init"
      BY <1>1, <1>3, <1>4, Zenon DEF Busy, LostConnect
    <2>3. \A i \in 1 .. me' : log'[i].op # "init" => log'[i].key \in Keys
      BY <1>1, <1>3, <1>a, Zenon DEF IInv, Control
    <2>4. \A i \in executed' : i <= me'
      BY <1>0, <1>3, <1>4 DEF IInv, Control, TypeOK, Ids
    <2> QED BY <2>1, <2>2, <2>3, <2>4, Zenon DEF Control
  <1>7. OneContext'
    BY <1>4, Zenon DEF IInv, OneContext
  <1>8. Fresh'
    BY <1>0, <1>3, <1>4 DEF IInv, Fresh, Idle, Ids
  <1>9. Buffers'
    BY ZenonT(60), <1>0, <1>4 DEF IInv, Buffers, Idle
  <1>10. InFlight'
    <2> SUFFICES ASSUME NEW c \in Ids, NEW i \in 1 .. Len(net[c].toServer)
                 PROVE  Sent(c, net[c].toServer[i])'
      BY <1>4, Zenon DEF InFlight
    <2>1. Sent(c, net[c].toServer[i]) /\ net[c].toServer[i].id \in Ids
      BY CommandIds, ZenonT(40) DEF IInv, InFlight
    <2>2. net[c].toServer[i].id \in 1 .. me
      BY <2>1, <1>0 DEF Sent, Ids
    <2>3. net[c].toServer[i].id <= me' /\ net[c].toServer[i].id # me'
      <3>1. me \in Nat /\ me' = me + 1
        BY <1>0, <1>3, Zenon
      <3> QED BY <2>2, <3>1
    <2>4. log'[net[c].toServer[i].id] = log[net[c].toServer[i].id]
      BY <2>2, <1>3, Zenon
    <2> QED BY ZenonT(60), <2>1, <2>3, <2>4, <1>4 DEF Sent
  <1>11. SeenNow'
    BY <1>1, <1>3, <1>4, Zenon DEF SeenNow
  <1>12. AckedSetStored'
    BY <1>1, <1>3, <1>4, <1>a, Zenon DEF IInv, AckedSetStored
  <1>13. ReadsCurrent'
    BY <1>4, Zenon DEF ReadsCurrent
  <1>14. Doubt'
    <2>1. me + 1 \notin executed
      BY <1>0 DEF IInv, Control, TypeOK, Ids
    <2> QED BY <2>1, <1>3, <1>4, Zenon DEF Doubt
  <1>15. LastAckedOrInDoubt'
    <2> SUFFICES ASSUME alone', NEW x \in Keys
                 PROVE  \/ \E i \in (SetsOf(x) \ Acked(x))' : db'[x] = log'[i].val
                        \/ \E i \in Acked(x)' :
                             db'[x] = log'[i].val /\ \A j \in Acked(x)' : j <= i
                        \/ Acked(x)' = {} /\ db'[x] = Nil
      BY Zenon DEF LastAckedOrInDoubt
    <2>1. Acked(x)' = Acked(x) /\ Acked(x) \subseteq 1 .. me
      <3>1. \A i \in 1 .. me : i \in 1 .. me'
        BY <1>0, <1>3
      <3> QED BY <3>1, <1>1, <1>3, <1>a, Zenon DEF Acked, SetsOf
    <2>2. SetsOf(x) \subseteq SetsOf(x)' /\ SetsOf(x) \subseteq 1 .. me
      BY <1>0, <1>3 DEF SetsOf
    <2>3. LastAckedOrInDoubt
      BY Zenon DEF IInv
    <2> QED BY <2>1, <2>2, <2>3, <1>3, <1>4, Zenon DEF LastAckedOrInDoubt
  <1> QED
    BY <1>5, <1>6, <1>7, <1>8, <1>9, <1>10, <1>11, <1>12, <1>13, <1>14, <1>15, Zenon
    DEF IInv

\* Init, SetString and GetString begin a call.
LEMMA CallStep ==
  ASSUME IInv,
         \/ InitCall
         \/ \E k \in Keys : GetString(k) \/ \E v \in Values : SetString(k, v)
  PROVE  IInv'
  <1>1. RedisInfo \in BOOLEAN /\ Nil \in Data /\ Values \subseteq Data
        /\ LostConnect \in BOOLEAN
    BY Zenon DEF IInv, TypeOK, Data, LostConnect
  <1>2. CASE InitCall
    BY Zenon, <1>1, <1>2, BeginStep DEF InitCall
  <1>3. ASSUME NEW k \in Keys, GetString(k) PROVE IInv'
    BY <1>1, <1>3, BeginStep, Zenon DEF GetString
  <1>4. ASSUME NEW k \in Keys, NEW v \in Values, SetString(k, v) PROVE IInv'
    BY <1>1, <1>4, BeginStep, Zenon DEF SetString
  <1> QED BY <1>2, <1>3, <1>4, Zenon

\* The destructor frees the context.
LEMMA DestroyStep ==
  ASSUME IInv, Destroy
  PROVE  IInv'
  <1>0. /\ RedisContext' = 0 /\ pc' = "destroyed" /\ me' = me
        /\ live' = live \ {RedisContext} /\ me \in Nat
        /\ UNCHANGED <<RedisInfo, err, obuf, reader, log,
                      db, executed, seen, alone>>
    BY Numbers, Zenon DEF Destroy, serverVars, IInv, me
  <1>1. /\ net' \in [Ids -> Connections]
        /\ \A c \in Ids : /\ net'[c].toServer = net[c].toServer
                          /\ net'[c].toClient = <<>>
                               \/ net'[c].toClient = net[c].toClient
    <2>1. net \in [Ids -> Connections] /\ <<>> \in Seq(Replies)
      BY DEF IInv, TypeOK
    <2> QED BY <2>1, Zenon DEF Destroy, redisFree, Connections
  <1>2. TypeOK'
    <2>1. 0 \in 0 .. MaxCalls /\ live' \subseteq Ids
      BY <1>0, CallsAssumption DEF IInv, TypeOK
    <2> QED BY <1>0, <1>1, <2>1, Zenon DEF IInv, TypeOK
  <1>3. Control'
    BY <1>0 DEF IInv, Control, Busy
  <1>4. OneContext' /\ Buffers'
    BY <1>0, Zenon DEF IInv, OneContext, Buffers
  <1>5. Fresh'
    BY ZenonT(60), <1>0, <1>1 DEF IInv, Fresh, Idle
  <1>6. InFlight'
    <2> SUFFICES ASSUME NEW c \in Ids, NEW i \in 1 .. Len(net'[c].toServer)
                 PROVE  Sent(c, net[c].toServer[i])'
      BY Zenon DEF InFlight
    <2>1. net'[c].toServer = net[c].toServer
      BY <1>1, Zenon
    <2>2. Sent(c, net[c].toServer[i])
      BY <2>1, Zenon DEF IInv, InFlight
    <2>3. pc # "read"
      BY Zenon DEF Destroy
    <2> QED BY <2>1, <2>2, <2>3, <1>0, Zenon DEF Sent, cur
  <1>7. SeenNow' /\ ReadsCurrent'
    BY <1>0, Zenon DEF SeenNow, ReadsCurrent, Busy
  <1>8. AckedSetStored' /\ Doubt'
    BY <1>0, Zenon DEF IInv, AckedSetStored, Doubt, cur, InDoubt, SetsOf, Acked
  <1>9. LastAckedOrInDoubt'
    BY <1>0 DEF IInv, LastAckedOrInDoubt, SetsOf, Acked
  <1> QED
    BY <1>2, <1>3, <1>4, <1>5, <1>6, <1>7, <1>8, <1>9, Zenon DEF IInv

-----------------------------------------------------------------------------
(* The steps of the world.                                                 *)

\* A connection breaks: what is left in flight was in flight before.
LEMMA BreakStep ==
  ASSUME IInv, NEW c \in Ids, Break(c)
  PROVE  IInv'
  <1>0. /\ me' = me /\ cur' = cur /\ me \in Nat
        /\ UNCHANGED <<RedisInfo, RedisContext, live, err, obuf, reader,
                      db, executed, seen, alone, pc, log>>
    BY Numbers, Zenon DEF Break, ctxVars, serverVars, IInv, me, cur
  <1>1. net[c].toServer \in Seq(Commands) /\ net[c].toClient \in Seq(Replies)
        /\ net \in [Ids -> Connections]
    BY Zenon DEF IInv, TypeOK, Connections
  <1>2. PICK i \in 0 .. Len(net[c].toServer), j \in 0 .. Len(net[c].toClient) :
          net' = [net EXCEPT ![c] =
                    [toServer |-> SubSeq(net[c].toServer, 1, i),
                     toClient |-> SubSeq(net[c].toClient, 1, j), up |-> FALSE]]
    BY Zenon DEF Break
  <1> DEFINE s == SubSeq(net[c].toServer, 1, i)
             t == SubSeq(net[c].toClient, 1, j)
  <1>3. /\ s \in Seq(Commands) /\ Len(s) <= Len(net[c].toServer)
        /\ \A n \in 1 .. Len(s) : n \in 1 .. Len(net[c].toServer)
                                   /\ s[n] = net[c].toServer[n]
        /\ net[c].toServer = <<>> => s = <<>>
        /\ s = <<>> \/ s = net[c].toServer \/ Len(net[c].toServer) > 1
    BY <1>1, <1>2, Prefix
  <1>4. /\ t \in Seq(Replies) /\ net[c].toClient = <<>> => t = <<>>
        /\ t = <<>> \/ t = net[c].toClient \/ Len(net[c].toClient) > 1
    BY <1>1, <1>2, Prefix
  <1>5. /\ net' \in [Ids -> Connections]
        /\ net'[c].toServer = s /\ net'[c].toClient = t
        /\ \A d \in Ids : d # c => net'[d] = net[d]
    BY <1>1, <1>2, <1>3, <1>4 DEF Connections
  <1> HIDE DEF s, t
  <1>6. TypeOK'
    BY <1>0, <1>5, Zenon DEF IInv, TypeOK
  <1>7. Control' /\ OneContext'
    BY <1>0, Zenon DEF IInv, Control, OneContext
  <1>8. Fresh'
    BY <1>0, <1>3, <1>4, <1>5 DEF IInv, Fresh, Idle
  <1>9. Buffers'
    <2> SUFFICES ASSUME RedisContext # 0, ~err PROVE Buffers'
      BY <1>0, Zenon DEF Buffers
    <2>0. MyCommand' = MyCommand /\ \A r : MyReply(r)' <=> MyReply(r)
      BY <1>0, Zenon DEF MyCommand, MyReply
    <2>1. CASE c # RedisContext
      <3>1. RedisContext \in Ids
        BY DEF IInv, TypeOK, Ids
      <3> QED BY <2>0, <2>1, <3>1, <1>0, <1>5, Zenon DEF IInv, Buffers, Idle
    <2>2. CASE c = RedisContext
      <3>1. Len(net[c].toServer) <= 1 /\ Len(net[c].toClient) <= 1
        <4>1. Buffers
          BY Zenon DEF IInv
        <4>2. \/ net[c].toServer = <<>> /\ net[c].toClient = <<>>
              \/ net[c].toServer = <<MyCommand>> /\ net[c].toClient = <<>>
              \/ net[c].toServer = <<>> /\ \E r : net[c].toClient = <<r>>
          BY <2>2, <4>1, Zenon DEF Buffers, Idle
        <4>3. Len(<<MyCommand>>) <= 1 /\ Len(<<>>) <= 1
          BY Lengths
        <4>4. \A r : Len(<<r>>) <= 1
          BY Lengths
        <4> QED BY Zenon, <4>2, <4>3, <4>4
      <3>2. (s = <<>> \/ s = net[c].toServer) /\ (t = <<>> \/ t = net[c].toClient)
        BY <3>1, <1>1, <1>3, <1>4
      <3> QED BY Zenon, <2>0, <2>2, <3>2, <1>0, <1>5 DEF IInv, Buffers, Idle
    <2> QED BY <2>1, <2>2, Zenon
  <1>10. InFlight'
    <2> SUFFICES ASSUME NEW d \in Ids, NEW n \in 1 .. Len(net'[d].toServer)
                 PROVE  Sent(d, net[d].toServer[n])'
      BY Zenon DEF InFlight
    <2>1. n \in 1 .. Len(net[d].toServer)
          /\ net'[d].toServer[n] = net[d].toServer[n]
      BY <1>3, <1>5, Zenon
    <2>2. Sent(d, net[d].toServer[n])
      BY <2>1, Zenon DEF IInv, InFlight
    <2> QED BY ZenonT(60), <2>1, <2>2, <1>0 DEF Sent
  <1>11. SeenNow' /\ ReadsCurrent' /\ AckedSetStored' /\ Doubt'
    BY <1>0, Zenon
       DEF IInv, SeenNow, ReadsCurrent, AckedSetStored, Doubt, InDoubt,
                SetsOf, Acked
  <1>12. LastAckedOrInDoubt'
    BY <1>0 DEF IInv, LastAckedOrInDoubt, SetsOf, Acked
  <1> QED
    BY <1>6, <1>7, <1>8, <1>9, <1>10, <1>11, <1>12, Zenon DEF IInv

\* The database changes by a call's command or by another client: the values
\* the current call may have seen only grow.
LEMMA StoreSeen ==
  ASSUME IInv, NEW k \in Keys, NEW v \in Data, Store(k, v)
  PROVE  /\ db' \in [Keys -> Data] /\ seen' \subseteq Data
         /\ seen \subseteq seen' /\ db'[k] = v
         /\ \A x \in Keys : x # k => db'[x] = db[x]
         /\ pc = "idle" => seen' = seen
         /\ pc \in Busy \cup {"connect"} /\ cur.op # "init"
              => db'[cur.key] \in seen'
  <1>1. /\ db \in [Keys -> Data] /\ seen \subseteq Data
        /\ pc \in Busy \cup {"connect"} => me > 0 /\ me \in 1 .. me /\ pc # "idle"
    BY Numbers DEF IInv, TypeOK, Control, Busy
  <1>2. /\ db' \in [Keys -> Data] /\ db'[k] = v
        /\ \A x \in Keys : x # k => db'[x] = db[x]
    BY <1>1, Zenon DEF Store
  <1>3. /\ seen \subseteq seen' /\ seen' \subseteq Data
        /\ pc = "idle" => seen' = seen
    BY <1>1, Zenon DEF Store
  <1>4. ASSUME pc \in Busy \cup {"connect"}, cur.op # "init"
        PROVE  db'[cur.key] \in seen'
    <2>1. cur.key \in Keys /\ db[cur.key] \in seen
      BY <1>1, <1>4, Zenon DEF IInv, Control, SeenNow, cur
    <2>2. CASE cur.key = k
      BY <1>1, <1>2, <1>4, <2>2, Zenon DEF Store
    <2>3. CASE cur.key # k
      BY <1>2, <1>3, <2>1, <2>3, Zenon
    <2> QED BY <2>2, <2>3, Zenon
  <1> QED BY <1>2, <1>3, <1>4, Zenon

\* Another client writes.
LEMMA OtherStep ==
  ASSUME IInv, NEW k \in Keys, NEW v \in Data, OtherClient(k, v)
  PROVE  IInv'
  <1>0. /\ me' = me /\ cur' = cur /\ me \in Nat /\ alone' = FALSE
        /\ UNCHANGED <<RedisInfo, RedisContext, live, err, obuf, reader, net,
                      executed, pc, log>>
    BY Numbers, Zenon DEF OtherClient, ctxVars, IInv, me, cur
  <1>1. /\ db' \in [Keys -> Data] /\ seen' \subseteq Data
        /\ seen \subseteq seen'
        /\ pc = "idle" => seen' = seen
        /\ pc \in Busy \cup {"connect"} /\ cur.op # "init"
              => db'[cur.key] \in seen'
    BY StoreSeen, Zenon DEF OtherClient
  <1>2. TypeOK'
    BY <1>0, <1>1, Zenon DEF IInv, TypeOK
  <1>3. Control' /\ OneContext' /\ Fresh'
    BY <1>0, Zenon DEF IInv, Control, OneContext, Fresh, Idle
  <1>4. Buffers'
    <2>1. MyCommand' = MyCommand
      BY <1>0, Zenon DEF MyCommand
    <2>2. \A r : MyReply(r) => MyReply(r)'
      BY <1>0, <1>1, Zenon DEF MyReply
    <2>3. Buffers
      BY Zenon DEF IInv
    <2> QED BY <2>1, <2>2, <2>3, <1>0, Zenon DEF Buffers, Idle
  <1>5. InFlight'
    BY ZenonT(60), <1>0 DEF IInv, InFlight, Sent
  <1>6. SeenNow' /\ ReadsCurrent'
    BY <1>0, <1>1, Zenon DEF IInv, SeenNow, ReadsCurrent
  <1>7. AckedSetStored' /\ Doubt' /\ LastAckedOrInDoubt'
    BY Zenon, <1>0 DEF IInv, AckedSetStored, Doubt, LastAckedOrInDoubt
  <1> QED
    BY <1>2, <1>3, <1>4, <1>5, <1>6, <1>7, Zenon DEF IInv

\* What the server's answer does to the connection.
LEMMA AnswerEffect ==
  ASSUME IInv, NEW c \in Ids, net[c].toServer # <<>>,
         NEW type \in {"status", "string", "nil", "error"}, NEW v \in Data,
         Answer(c, type, v)
  PROVE  LET cmd == Head(net[c].toServer)
             r == [id |-> cmd.id, type |-> type, val |-> v]
         IN  /\ net' \in [Ids -> Connections] /\ r \in Replies
             /\ \A d \in Ids : d # c => net'[d] = net[d]
             /\ net'[c].toServer = Tail(net[c].toServer)
             /\ \/ net'[c].toClient = net[c].toClient
                \/ net'[c].toClient = Append(net[c].toClient, r)
  <1> DEFINE cmd == Head(net[c].toServer)
             r == [id |-> cmd.id, type |-> type, val |-> v]
             t == IF net[c].up THEN Append(net[c].toClient, r)
                  ELSE net[c].toClient
  <1>1. net \in [Ids -> Connections] /\ net[c].toServer \in Seq(Commands)
        /\ net[c].toClient \in Seq(Replies)
    BY Zenon DEF IInv, TypeOK, Connections
  <1>2. cmd \in Commands /\ Tail(net[c].toServer) \in Seq(Commands)
    BY <1>1, TakeOne, Zenon
  <1>3. r \in Replies
    BY <1>2, Zenon DEF Commands, Replies
  <1>4. t \in Seq(Replies)
    BY <1>1, <1>3, AppendOne, Zenon
  <1>5. net' = [net EXCEPT ![c].toServer = Tail(net[c].toServer),
                           ![c].toClient = t]
    BY Zenon DEF Answer
  <1> HIDE DEF t, r
  <1>6. /\ net' \in [Ids -> Connections]
        /\ \A d \in Ids : d # c => net'[d] = net[d]
        /\ net'[c].toServer = Tail(net[c].toServer)
        /\ net'[c].toClient = t
    BY Zenon, <1>1, <1>2, <1>4, <1>5 DEF Connections
  <1> QED BY <1>3, <1>6, Zenon DEF t, r

\* The command the server executes for a usable context is this call's, and
\* is the only thing in flight.
LEMMA ServerFinds ==
  ASSUME IInv, RedisContext # 0, ~err, net[RedisContext].toServer # <<>>
  PROVE  /\ pc = "read" /\ net[RedisContext].toClient = <<>>
         /\ net[RedisContext].toServer = <<MyCommand>>
         /\ Head(net[RedisContext].toServer) = MyCommand
         /\ Tail(net[RedisContext].toServer) = <<>>
  <1>1. Buffers
    BY Zenon DEF IInv
  <1>2. /\ pc = "read" /\ net[RedisContext].toClient = <<>>
        /\ net[RedisContext].toServer = <<MyCommand>>
    BY <1>1, Zenon DEF Buffers, Idle
  <1>3. Head(<<MyCommand>>) = MyCommand /\ Tail(<<MyCommand>>) = <<>>
    BY Single, Zenon
  <1> QED BY <1>2, <1>3, Zenon

\* The server executes a command and answers.
LEMMA ExecuteStep ==
  ASSUME IInv, NEW c \in Ids, ServerExecutes(c)
  PROVE  IInv'
  <1>0. /\ me' = me /\ cur' = cur /\ me \in Nat
        /\ net[c].toServer # <<>>
        /\ UNCHANGED <<RedisInfo, RedisContext, live, err, obuf, reader,
                      pc, log, alone>>
    BY Numbers, Zenon DEF ServerExecutes, ctxVars, serverVars, IInv, me, cur
  <1>1. PICK cmd \in Commands :
          /\ cmd = Head(net[c].toServer) /\ cmd = net[c].toServer[1]
          /\ 1 \in 1 .. Len(net[c].toServer)
          /\ net[c].toServer \in Seq(Commands)
    <2>1. net[c].toServer \in Seq(Commands)
      BY Zenon DEF IInv, TypeOK, Connections
    <2> QED BY <2>1, <1>0, TakeOne, Zenon
  <1>2. Sent(c, cmd)
    BY ZenonT(60), <1>1 DEF IInv, InFlight
  <1>3. cmd.id \in Ids /\ cmd.id \in 1 .. me /\ cmd.key \in Keys
        /\ cmd.val \in Data
    <2>1. cmd.id <= me
      BY Zenon, <1>2 DEF Sent
    <2>2. cmd.id \in Ids /\ cmd.key \in Keys /\ cmd.val \in Data
      BY <1>1, Zenon DEF Commands
    <2> QED BY <1>0, <2>1, <2>2 DEF Ids
  <1>4. PICK type \in {"status", "string", "nil", "error"}, v \in Data :
          /\ Answer(c, type, v)
          /\ \/ /\ cmd.op = "set" /\ type = "status"
                /\ Store(cmd.key, cmd.val)
                /\ executed' = executed \cup {cmd.id}
             \/ /\ cmd.op = "get" /\ type # "status"
                /\ v = db[cmd.key] /\ (type = "string" => v # Nil)
                /\ UNCHANGED <<db, executed, seen>>
             \/ type = "error" /\ UNCHANGED <<db, executed, seen>>
    <2>1. Nil \in Data /\ db[cmd.key] \in Data
      BY <1>3, Zenon DEF Data, IInv, TypeOK
    <2> QED BY Zenon, <1>1, <2>1 DEF ServerExecutes, serverVars
  <1>5. PICK r \in Replies :
          /\ r = [id |-> cmd.id, type |-> type, val |-> v]
          /\ net' \in [Ids -> Connections]
          /\ \A d \in Ids : d # c => net'[d] = net[d]
          /\ net'[c].toServer = Tail(net[c].toServer)
          /\ \/ net'[c].toClient = net[c].toClient
             \/ net'[c].toClient = Append(net[c].toClient, r)
    <2> DEFINE q == [id |-> Head(net[c].toServer).id, type |-> type, val |-> v]
    <2>1. /\ net' \in [Ids -> Connections] /\ q \in Replies
          /\ \A d \in Ids : d # c => net'[d] = net[d]
          /\ net'[c].toServer = Tail(net[c].toServer)
          /\ \/ net'[c].toClient = net[c].toClient
             \/ net'[c].toClient = Append(net[c].toClient, q)
      BY <1>0, <1>4, AnswerEffect, Zenon
    <2>2. q = [id |-> cmd.id, type |-> type, val |-> v]
      BY <1>1, Zenon
    <2> HIDE DEF q
    <2> QED BY ZenonT(60), <2>1, <2>2
  <1>6. r.id = cmd.id /\ r.type = type /\ r.val = v
    BY <1>5, Zenon
  <1>7. /\ db' \in [Keys -> Data] /\ seen' \subseteq Data /\ seen \subseteq seen'
        /\ executed \subseteq executed' /\ executed' \subseteq executed \cup {cmd.id}
        /\ pc = "idle" => seen' = seen
        /\ pc \in Busy \cup {"connect"} /\ cur.op # "init"
              => db'[cur.key] \in seen'
    <2>1. CASE Store(cmd.key, cmd.val) /\ executed' = executed \cup {cmd.id}
      BY <2>1, <1>3, StoreSeen, Zenon
    <2>2. CASE UNCHANGED <<db, executed, seen>>
      BY Zenon, <2>2 DEF IInv, TypeOK, SeenNow
    <2> QED BY <2>1, <2>2, <1>4, Zenon
  <1>8. TypeOK'
    <2>1. executed' \subseteq Ids
      <3>1. executed \subseteq Ids
        BY Zenon DEF IInv, TypeOK
      <3> QED BY <1>3, <1>7, <3>1, Zenon
    <2> QED BY <1>0, <1>5, <1>7, <2>1, Zenon DEF IInv, TypeOK
  <1>9. Control'
    <2>1. \A i \in executed' : i <= me'
      <3>1. \A i \in executed : i <= me
        BY Zenon DEF IInv, Control
      <3>2. me' = me /\ cmd.id <= me
        BY <1>0, <1>3
      <3> QED BY Zenon, <1>7, <3>1, <3>2
    <2> QED BY <1>0, <2>1, Zenon DEF IInv, Control
  <1>10. OneContext'
    BY <1>0, Zenon DEF IInv, OneContext
  <1>11. Fresh'
    <2> SUFFICES ASSUME NEW d \in Ids, Idle(d) PROVE Idle(d)'
      BY <1>0, Zenon DEF IInv, Fresh
    <2>1. d # c
      BY <1>0, Zenon DEF Idle
    <2> QED BY <2>1, <1>5, Zenon DEF Idle
  <1>12. AckedSetStored' /\ SeenNow' /\ ReadsCurrent'
    BY Zenon, <1>0, <1>7 DEF IInv, AckedSetStored, SeenNow, ReadsCurrent
  <1>13. InFlight'
    <2> SUFFICES ASSUME NEW d \in Ids, NEW i \in 1 .. Len(net'[d].toServer)
                 PROVE  Sent(d, net[d].toServer[i])'
      BY Zenon DEF InFlight
    <2>1. \E j \in 1 .. Len(net[d].toServer) :
             net'[d].toServer[i] = net[d].toServer[j]
      <3>1. CASE d = c
        BY <3>1, <1>0, <1>1, <1>5, TakeOne
      <3>2. CASE d # c
        BY <3>2, <1>5, Zenon
      <3> QED BY ZenonT(60), <3>1, <3>2
    <2>2. Sent(d, net'[d].toServer[i])
      BY Zenon, <2>1 DEF IInv, InFlight
    <2> QED BY Zenon, <2>2, <1>0 DEF Sent
  <1>14. Buffers'
    <2> SUFFICES ASSUME RedisContext # 0, ~err PROVE Buffers'
      BY Zenon, <1>0 DEF Buffers
    <2>0. Buffers /\ RedisContext \in Ids /\ MyCommand' = MyCommand
      <3>1. Buffers /\ TypeOK
        BY Zenon DEF IInv
      <3>2. RedisContext \in Ids
        BY <3>1 DEF TypeOK, Ids
      <3>3. MyCommand' = MyCommand
        BY Zenon, <1>0 DEF MyCommand
      <3> QED BY Zenon, <3>1, <3>2, <3>3
    <2>1. CASE c # RedisContext
      <3>1. net'[RedisContext] = net[RedisContext]
        BY <2>0, <2>1, <1>5, Zenon
      <3>2. \A x : MyReply(x) => MyReply(x)'
        BY Zenon, <1>0, <1>7 DEF MyReply
      <3> QED BY <2>0, <3>1, <3>2, <1>0, Zenon DEF Buffers, Idle
    <2>2. CASE c = RedisContext
      <3>1. /\ pc = "read" /\ net[c].toClient = <<>>
            /\ cmd = MyCommand /\ Tail(net[c].toServer) = <<>>
        BY Zenon, <2>2, <1>0, <1>1, ServerFinds
      <3>2. cmd.id = me /\ cmd.op = cur.op /\ cmd.key = cur.key
        BY Zenon, <3>1 DEF MyCommand
      <3>3. MyReply(r)'
        <4>1. cur.op = "set" /\ r.type = "status" => me \in executed'
          BY Zenon, <3>2, <1>4, <1>6
        <4>2. cur.op = "get" /\ r.type = "string" => r.val \in seen' \cap Values
          BY Zenon, <3>1, <3>2, <1>4, <1>6, <1>7 DEF Busy, Data
        <4> QED BY Zenon, <4>1, <4>2, <3>2, <1>0, <1>5, <1>6 DEF MyReply
      <3>4. net'[c].toServer = <<>>
            /\ (net'[c].toClient = <<>> \/ net'[c].toClient = <<r>>)
        <4>1. net[c].toClient = <<>> => Append(net[c].toClient, r) = <<r>>
          BY AppendEmpty
        <4> QED BY Zenon, <3>1, <1>5, <4>1
      <3>5. reader' = <<>> /\ obuf' = <<>>
        BY Zenon, <3>1, <2>0, <1>0 DEF Buffers
      <3> QED BY <2>2, <3>1, <3>3, <3>4, <3>5, <1>0, <1>5, Zenon DEF Buffers, Idle
    <2> QED BY Zenon, <2>1, <2>2
  <1>15. Doubt' /\ LastAckedOrInDoubt'
    <2>0. Doubt /\ LastAckedOrInDoubt
      BY ZenonT(60) DEF IInv
    <2>1. CASE UNCHANGED <<db, executed>>
      <3>1. \A k : SetsOf(k)' = SetsOf(k) /\ Acked(k)' = Acked(k)
        BY Zenon, <1>0 DEF SetsOf, Acked
      <3>2. \A k : InDoubt(k)' <=> InDoubt(k)
        BY Zenon, <2>1, <1>0, <3>1 DEF InDoubt
      <3>3. Doubt'
        BY Zenon, <2>0, <2>1, <1>0, <3>2 DEF Doubt
      <3>4. LastAckedOrInDoubt'
        BY Zenon, <2>0, <2>1, <1>0, <3>1, <3>2 DEF LastAckedOrInDoubt
      <3> QED BY <3>3, <3>4, Zenon
    <2>2. CASE /\ cmd.op = "set" /\ Store(cmd.key, cmd.val)
               /\ executed' = executed \cup {cmd.id}
      <3>1. \A k \in Keys : SetsOf(k)' = SetsOf(k) /\ Acked(k)' = Acked(k)
        BY <1>0, Zenon DEF SetsOf, Acked
      <3>2. /\ cmd.id \in SetsOf(cmd.key) \ Acked(cmd.key)
            /\ log[cmd.id].val = cmd.val
        BY <2>2, <1>2, <1>3, Zenon DEF Sent, SetsOf, Acked
      <3>3. db'[cmd.key] = cmd.val /\ \A x \in Keys : x # cmd.key => db'[x] = db[x]
        BY ZenonT(60), <2>2, <1>3, StoreSeen
      <3>4. InDoubt(cmd.key)'
        BY Zenon, <1>0, <1>3, <3>1, <3>2, <3>3 DEF InDoubt
      <3>5. LastAckedOrInDoubt'
        BY <1>0, <2>0, <3>1, <3>3, <3>4, Zenon DEF LastAckedOrInDoubt, InDoubt
      <3>6. Doubt'
        <4> SUFFICES ASSUME alone', me > 0, cur.op = "set",
                            cur.result = "pending", me \in executed'
                     PROVE  InDoubt(cur.key)'
          BY Zenon, <1>0 DEF Doubt
        <4>1. CASE cur.key = cmd.key
          BY Zenon, <3>4, <4>1, <1>0
        <4>2. CASE cur.key # cmd.key
          <5>1. cur.key \in Keys
            BY <1>0 DEF IInv, Control, cur
          <5>2. cmd.id # me
            BY <4>2, <1>2, Zenon DEF Sent, cur
          <5>3. InDoubt(cur.key)
            BY <2>0, <2>2, <5>2, <1>0, Zenon DEF Doubt
          <5> QED BY <5>1, <5>3, <4>2, <3>1, <3>3, <1>0, Zenon DEF InDoubt
        <4> QED BY <4>1, <4>2, Zenon
      <3> QED BY <3>5, <3>6, Zenon
    <2> QED BY <2>1, <2>2, <1>4, Zenon
  <1> QED
    BY <1>8, <1>9, <1>10, <1>11, <1>12, <1>13, <1>14, <1>15, Zenon DEF IInv

-----------------------------------------------------------------------------
(* The theorems.                                                           *)

\* The constructor's state satisfies the invariant.
LEMMA InitIInv == Init => IInv
  <1> SUFFICES ASSUME Init PROVE IInv
    BY Zenon
  <1>1. me = 0 /\ Len(log) = 0 /\ MaxCalls \in Nat
    BY CallsAssumption, Zenon DEF Init, me
  <1>2. TypeOK
    <2>1. net \in [Ids -> Connections] /\ db \in [Keys -> Data]
      BY DEF Init, Connections, Data
    <2>2. /\ log \in Seq(Calls) /\ obuf \in Seq(Commands)
          /\ reader \in Seq(Replies) /\ me <= MaxCalls /\ 0 \in 0 .. MaxCalls
      BY <1>1 DEF Init
    <2> QED BY Zenon, <2>1, <2>2 DEF Init, TypeOK
  <1>3. Control /\ OneContext /\ Fresh /\ Buffers
    BY <1>1 DEF Init, Control, OneContext, Fresh, Buffers, Idle, Busy
  <1>4. InFlight
    BY <1>1 DEF Init, InFlight
  <1>5. SeenNow /\ AckedSetStored /\ ReadsCurrent /\ Doubt
    BY <1>1 DEF Init, SeenNow, AckedSetStored, ReadsCurrent, Doubt, Busy
  <1>6. LastAckedOrInDoubt
    <2>0. 1 .. me = {}
      BY <1>1
    <2>1. \A k \in Keys : Acked(k) = {} /\ db[k] = Nil
      BY <2>0, Zenon DEF Init, SetsOf, Acked
    <2> QED BY <2>1, Zenon DEF LastAckedOrInDoubt
  <1> QED BY <1>2, <1>3, <1>4, <1>5, <1>6, Zenon DEF IInv

\* Every step preserves the invariant.
LEMMA NextIInv == IInv /\ [Next]_vars => IInv'
  <1> SUFFICES ASSUME IInv, [Next]_vars PROVE IInv'
    BY Zenon
  <1>1. ASSUME NEW outcome \in {"up", "error", "null"}, ConnectRedis(outcome)
        PROVE  IInv'
    BY <1>1, ConnectStep, Zenon
  <1>2. CASE redisCommand
    BY <1>2, CommandStep, Zenon
  <1>3. CASE redisBufferWrite
    BY <1>3, WriteStep, Zenon
  <1>4. CASE redisBufferRead
    BY <1>4, ReadStep, Zenon
  <1>5. CASE Caller
    BY <1>5, CallStep, DestroyStep, Zenon DEF Caller
  <1>6. ASSUME NEW c \in Ids, ServerExecutes(c) PROVE IInv'
    BY <1>6, ExecuteStep, Zenon
  <1>7. ASSUME NEW c \in Ids, Break(c) PROVE IInv'
    BY <1>7, BreakStep, Zenon
  <1>8. ASSUME NEW k \in Keys, NEW v \in Data, OtherClient(k, v) PROVE IInv'
    BY <1>8, OtherStep, Zenon
  <1>9. CASE UNCHANGED vars
    <2>1. /\ UNCHANGED <<RedisInfo, RedisContext, live, err, obuf, reader, net,
                        db, executed, seen, alone, pc, log>>
          /\ me' = me /\ cur' = cur
      BY <1>9, Zenon DEF vars, ctxVars, serverVars, me, cur
    <2>2. TypeOK'
      BY Zenon, <2>1 DEF IInv, TypeOK
    <2>3. Control' /\ OneContext' /\ Fresh'
      BY Zenon, <2>1 DEF IInv, Control, OneContext, Fresh, Idle
    <2>4. Buffers'
      BY Zenon, <2>1 DEF IInv, Buffers, Idle, MyCommand, MyReply
    <2>5. InFlight'
      BY ZenonT(60), <2>1 DEF IInv, InFlight, Sent
    <2>6. SeenNow' /\ AckedSetStored' /\ ReadsCurrent'
      BY Zenon, <2>1 DEF IInv, SeenNow, AckedSetStored, ReadsCurrent
    <2>7. Doubt' /\ LastAckedOrInDoubt'
      <3>1. \A k : SetsOf(k)' = SetsOf(k) /\ Acked(k)' = Acked(k)
        BY Zenon, <2>1 DEF SetsOf, Acked
      <3>2. \A k : InDoubt(k)' <=> InDoubt(k)
        BY Zenon, <2>1, <3>1 DEF InDoubt
      <3>3. Doubt'
        BY Zenon, <2>1, <3>2 DEF IInv, Doubt
      <3>4. LastAckedOrInDoubt'
        BY Zenon, <2>1, <3>1 DEF IInv, LastAckedOrInDoubt
      <3> QED BY <3>3, <3>4, Zenon
    <2> QED BY <2>2, <2>3, <2>4, <2>5, <2>6, <2>7, Zenon DEF IInv
  <1> QED
    BY <1>1, <1>2, <1>3, <1>4, <1>5, <1>6, <1>7, <1>8, <1>9, Zenon
    DEF Next, Thread, World

\* The invariant holds in every reachable state.
THEOREM Inductive == Spec => []IInv
  BY InitIInv, NextIInv, PTL DEF Spec

\* Type correctness, for every number of keys, values and calls.
THEOREM TypeCorrect == Spec => []TypeOK
  <1>1. IInv => TypeOK
    BY Zenon DEF IInv
  <1> QED BY <1>1, Inductive, PTL

\* ConnectRedis and ~RedisHandle neither leak a context nor free one twice.
THEOREM ContextOwned == Spec => []OneContext
  <1>1. IInv => OneContext
    BY Zenon DEF IInv
  <1> QED BY <1>1, Inductive, PTL

\* hiredis never hands a call the reply to an earlier one, and a usable
\* context has nothing in flight between calls.
THEOREM InStep == Spec => []RepliesMatchCalls
  <1>1. IInv => RepliesMatchCalls
    <2> SUFFICES ASSUME IInv, RedisContext # 0, ~err PROVE RepliesMatchCalls
      BY Zenon DEF RepliesMatchCalls
    <2>1. Buffers /\ Len(<<>>) = 0 /\ Len(<<MyCommand>>) = 1
          /\ \A r : Len(<<r>>) = 1
      BY Lengths, Zenon DEF IInv
    <2>2. <<MyCommand>>[1].id = me /\ MyCommand.id = me
      BY Zenon DEF MyCommand
    <2>3. CASE Idle(RedisContext)
      <3>1. Len(net[RedisContext].toServer) = 0
            /\ Len(net[RedisContext].toClient) = 0 /\ Len(reader) = 0
        BY <2>1, <2>3, Zenon DEF Buffers, Idle
      <3>2. Len(obuf) = 0 \/ (Len(obuf) = 1 /\ pc = "write")
        BY <2>1, Zenon DEF Buffers
      <3>3. /\ 1 .. Len(net[RedisContext].toServer) = {}
            /\ 1 .. Len(net[RedisContext].toClient) = {}
        BY <3>1
      <3>4. Len(obuf) + Len(net[RedisContext].toServer)
              + Len(net[RedisContext].toClient) + Len(reader) = Len(obuf)
        BY <3>1, <3>2
      <3> QED BY <3>2, <3>3, <3>4, Zenon DEF RepliesMatchCalls
    <2>4. CASE /\ pc = "read" /\ net[RedisContext].toServer = <<MyCommand>>
               /\ net[RedisContext].toClient = <<>>
      BY <2>1, <2>2, <2>4 DEF Buffers, RepliesMatchCalls
    <2>5. ASSUME NEW r \in Replies, MyReply(r), pc = "read",
                 net[RedisContext].toServer = <<>>,
                 net[RedisContext].toClient = <<r>>
          PROVE  RepliesMatchCalls
      BY <2>1, <2>5 DEF Buffers, RepliesMatchCalls, MyReply
    <2> QED BY <2>1, <2>3, <2>4, <2>5, Zenon DEF Buffers
  <1> QED BY <1>1, Inductive, PTL

\* SetString returns true only when the server applied this call's command.
THEOREM AcksAreStored == Spec => []AckedSetStored
  <1>1. IInv => AckedSetStored
    BY Zenon DEF IInv
  <1> QED BY <1>1, Inductive, PTL

\* GetString returns a value the key had during the call.
THEOREM ReadsAreCurrent == Spec => []ReadsCurrent
  <1>1. IInv => ReadsCurrent
    BY Zenon DEF IInv
  <1> QED BY <1>1, Inductive, PTL

\* Without other clients a key holds the last acknowledged value, or one of a
\* SetString that did not return true.
THEOREM AcksSurvive == Spec => []LastAckedOrInDoubt
  <1>1. IInv => LastAckedOrInDoubt
    BY Zenon DEF IInv
  <1> QED BY <1>1, Inductive, PTL

=============================================================================
