---------------------------- MODULE ServicesProofs ----------------------------
(***************************************************************************)
(* Three components that share no state: GetInstance (Singleton), by any   *)
(* threads, constructs one object; uv_async_send (UvAsync, the instance    *)
(* Async), by any threads, loses no wakeup and no call; the calls of       *)
(* DBConnector (the instance DB) leave the connection in sync and tell     *)
(* what the database had.                                                  *)
(***************************************************************************)
EXTENDS Services, TLAPS

-----------------------------------------------------------------------------
(* Singleton.                                                              *)

InCritical(t) == pc[t] \in {"look_again", "new", "reset", "unlock"}

\* The mutex excludes; between the construction and the store some thread is
\* at the store, so s_instance is null only while nothing was constructed.
IInv ==
  /\ TypeOK
  /\ \A t \in Threads : InCritical(t) => s_mutex = {t}
  /\ \A t \in Threads : pc[t] = "new" => s_instance = None
  /\ \A t \in Threads : pc[t] = "reset" => s_instance = None /\ obj[t] = 1
  /\ \A t \in Threads : pc[t] \in {"unlock", "return"} => s_instance = 1
  /\ built \in {0, 1} /\ s_instance \in {0, built}
  /\ built = 1 /\ s_instance = None => \E t \in Threads : pc[t] = "reset"
  /\ \A t \in Threads : obj[t] \in {0, built}

\* A thread about to construct finds nothing constructed (second look under
\* the mutex).
LEMMA NewFindsNone ==
  ASSUME IInv, NEW t \in Threads, pc[t] = "new"
  PROVE  built = 0
<1>1. SUFFICES ASSUME built = 1 PROVE FALSE
  BY Zenon DEF IInv
<1>2. PICK u \in Threads : pc[u] = "reset"
  BY <1>1, Zenon DEF IInv
<1>3. s_mutex = {t} /\ s_mutex = {u}
  BY <1>2, Zenon DEF IInv, InCritical
<1>4. t = u
  BY <1>3, Zenon
<1> QED
  BY <1>2, <1>4, Zenon

\* Every step of GetInstance keeps the invariant.
LEMMA StepKeeps ==
  ASSUME IInv, [Next]_vars
  PROVE  IInv'
<1> USE DEF None
<1>1. CASE UNCHANGED vars
  BY <1>1, Zenon DEF IInv, TypeOK, InCritical, vars
<1>2. ASSUME NEW t \in Threads, Call(t) PROVE IInv'
  BY <1>2 DEF IInv, TypeOK, InCritical, Call, Goto
<1>3. ASSUME NEW t \in Threads, Look(t) PROVE IInv'
  BY <1>3, Zenon DEF IInv, TypeOK, InCritical, Look, Goto
<1>4. ASSUME NEW t \in Threads, Lock(t) PROVE IInv'
  BY <1>4, Zenon DEF IInv, TypeOK, InCritical, Lock, Goto
<1>5. ASSUME NEW t \in Threads, LookAgain(t) PROVE IInv'
  BY <1>5, Zenon DEF IInv, TypeOK, InCritical, LookAgain, Goto
<1>6. ASSUME NEW t \in Threads, New(t) PROVE IInv'
  <2>1. pc[t] = "new" /\ built = 0 /\ built' = 1
    BY <1>6, NewFindsNone DEF New, Goto, IInv, TypeOK
  <2>2. \A u \in Threads : u # t => ~InCritical(u)
    BY <2>1, Zenon DEF IInv, InCritical
  <2> QED
    BY <1>6, <2>1, <2>2 DEF IInv, TypeOK, InCritical, New, Goto
<1>7. ASSUME NEW t \in Threads, Throw(t) PROVE IInv'
  BY <1>7, Zenon DEF IInv, TypeOK, InCritical, Throw, Goto
<1>8. ASSUME NEW t \in Threads, Reset(t) PROVE IInv'
  <2>1. pc[t] = "reset" /\ s_instance' = 1 /\ built = 1
    BY <1>8, Zenon DEF Reset, Goto, IInv
  <2>2. \A u \in Threads : u # t => ~InCritical(u)
    BY <2>1, Zenon DEF IInv, InCritical
  <2> QED
    BY <1>8, <2>1, <2>2 DEF IInv, TypeOK, InCritical, Reset, Goto
<1>9. ASSUME NEW t \in Threads, Unlock(t) PROVE IInv'
  BY <1>9, Zenon DEF IInv, TypeOK, InCritical, Unlock, Goto
<1>10. ASSUME NEW t \in Threads, Return(t) PROVE IInv'
  BY <1>10, Zenon DEF IInv, TypeOK, InCritical, Return, Goto
<1> QED
  BY <1>1, <1>2, <1>3, <1>4, <1>5, <1>6, <1>7, <1>8, <1>9, <1>10, Zenon
     DEF Next, GetInstance

\* For any threads and any number of calls, thrown constructors included,
\* GetInstance constructs at most one object and every call gives that one.
THEOREM InstanceIsUnique == Spec => []OneInstance
<1>1. Init => IInv
  BY SingletonAssumption DEF Init, IInv, TypeOK, InCritical, None
<1>2. IInv /\ [Next]_vars => IInv'
  BY StepKeeps, Zenon
<1>3. IInv => OneInstance
  BY DEF IInv, OneInstance, TypeOK, None
<1> QED
  BY <1>1, <1>2, <1>3, PTL DEF Spec

-----------------------------------------------------------------------------
(* UvAsync, for any handles, any number of calls and any limit of the      *)
(* eventfd's counter.                                                      *)

AsyncTypes ==
  /\ open \in SUBSET Handles /\ used \in SUBSET Handles
  /\ pending \in [Handles -> {0, 1}]
  /\ async_handles \in Seq(Handles) /\ queue \in Seq(Handles)
  /\ efd \in Nat
  /\ loop \in {"poll", "event", "callback"}
  /\ step \in [Threads -> {"out", "read", "cas", "write"}]
  /\ target \in [Threads -> Handles]
  /\ unseen \in SUBSET Async!Calls

\* Every open handle is where uv__async_event will find it, and outside of
\* that function its local queue is empty.
Linked ==
  /\ open \subseteq used
  /\ open \subseteq Async!InQueue(async_handles) \cup Async!InQueue(queue)
  /\ loop = "poll" => queue = <<>>

\* Calls are made to open handles, and one that has not come to its
\* compare-and-exchange is unanswered.
Callers ==
  /\ \A t \in Threads : step[t] # "out" => target[t] \in open
  /\ \A t \in Threads : step[t] \in {"read", "cas"} =>
                          [thread |-> t, handle |-> target[t]] \in unseen
  /\ \A c \in unseen : c.handle \in open

AsyncInv == AsyncTypes /\ Linked /\ Callers /\ Async!FlagHasWakeup /\ Async!SendsRecorded

-----------------------------------------------------------------------------
\* QUEUE_INSERT_TAIL adds the handle and loses none.
LEMMA InsertTail ==
  ASSUME NEW S, NEW q \in Seq(S), NEW x \in S
  PROVE  /\ Append(q, x) \in Seq(S)
         /\ Async!InQueue(q) \cup {x} \subseteq Async!InQueue(Append(q, x))
<1>1. Append(q, x) \in Seq(S)
  OBVIOUS
<1>2. ASSUME NEW i \in 1 .. Len(q) PROVE q[i] \in Async!InQueue(Append(q, x))
  <2>1. i \in 1 .. Len(Append(q, x)) /\ Append(q, x)[i] = q[i]
    BY <1>2
  <2> QED BY <2>1, Zenon DEF Async!InQueue
<1>3. x \in Async!InQueue(Append(q, x))
  <2>1. Len(q) + 1 \in 1 .. Len(Append(q, x)) /\ Append(q, x)[Len(q) + 1] = x
    OBVIOUS
  <2> QED BY <2>1, Zenon DEF Async!InQueue
<1> QED
  BY <1>1, <1>2, <1>3, Zenon DEF Async!InQueue

\* Taking the head of a queue leaves the other handles in it.
LEMMA TakeHead ==
  ASSUME NEW S, NEW q \in Seq(S), q # <<>>
  PROVE  /\ Head(q) \in S /\ Tail(q) \in Seq(S)
         /\ Async!InQueue(q) \subseteq Async!InQueue(Tail(q)) \cup {Head(q)}
<1>1. Head(q) \in S /\ Tail(q) \in Seq(S)
  OBVIOUS
<1>2. ASSUME NEW i \in 1 .. Len(q), i # 1 PROVE q[i] \in Async!InQueue(Tail(q))
  <2>1. i - 1 \in 1 .. Len(Tail(q)) /\ Tail(q)[i - 1] = q[i]
    BY <1>2
  <2> QED BY <2>1, ZenonT(30) DEF Async!InQueue
<1>3. q[1] = Head(q)
  OBVIOUS
<1> QED
  BY <1>1, <1>2, <1>3, Zenon DEF Async!InQueue

\* QUEUE_REMOVE leaves the other handles in the queue.
LEMMA RemoveKeeps ==
  ASSUME NEW S, NEW q \in Seq(S), NEW h
  PROVE  /\ Async!Remove(q, h) \in Seq(S)
         /\ Async!InQueue(q) \ {h} \subseteq Async!InQueue(Async!Remove(q, h))
<1>1. CASE h \notin Async!InQueue(q)
  BY <1>1, Zenon DEF Async!Remove
<1>2. CASE h \in Async!InQueue(q)
  <2> DEFINE i == CHOOSE j \in 1 .. Len(q) : q[j] = h
  <2> DEFINE a == SubSeq(q, 1, i - 1)
  <2> DEFINE b == SubSeq(q, i + 1, Len(q))
  <2>1. i \in 1 .. Len(q) /\ q[i] = h
    BY <1>2, Zenon DEF Async!InQueue
  <2>2. Async!Remove(q, h) = a \o b
    BY <1>2, ZenonT(30) DEF Async!Remove
  <2> HIDE DEF i
  <2>3. /\ a \in Seq(S) /\ b \in Seq(S)
        /\ Len(a) = i - 1 /\ Len(b) = Len(q) - i
        /\ \A k \in 1 .. i - 1 : a[k] = q[k]
        /\ \A k \in 1 .. Len(q) - i : b[k] = q[i + k]
    BY <2>1
  <2>4. ASSUME NEW k \in 1 .. Len(q), k # i PROVE q[k] \in Async!InQueue(a \o b)
    <3> HIDE DEF a, b
    <3>1. CASE k < i
      <4>1. k \in 1 .. Len(a \o b) /\ (a \o b)[k] = q[k]
        BY <2>1, <2>3, <3>1
      <4> QED BY <4>1, Zenon DEF Async!InQueue
    <3>2. CASE k > i
      <4>1. k - i \in 1 .. Len(b) /\ b[k - i] = q[k]
        BY <2>1, <2>3, <3>2
      <4>2. k - 1 \in 1 .. Len(a \o b) /\ (a \o b)[k - 1] = b[k - i]
        BY <2>1, <2>3, <3>2, <4>1
      <4> QED BY <4>1, <4>2, ZenonT(30) DEF Async!InQueue
    <3> QED BY <2>1, <2>4, <3>1, <3>2
  <2>5. a \o b \in Seq(S)
    BY <2>3
  <2> HIDE DEF a, b
  <2>6. ASSUME NEW x \in Async!InQueue(q), x # h PROVE x \in Async!InQueue(a \o b)
    <3>1. PICK k \in 1 .. Len(q) : x = q[k]
      BY <2>6, Zenon DEF Async!InQueue
    <3> QED BY <2>1, <2>4, <2>6, <3>1, Zenon
  <2> QED
    BY <2>2, <2>5, <2>6, Zenon
<1> QED BY <1>1, <1>2, Zenon

-----------------------------------------------------------------------------
\* Before the first handle there is nothing to lose.
LEMMA AsyncStarts ==
  ASSUME Async!Init
  PROVE  AsyncInv
<1>1. (CHOOSE h \in Handles : TRUE) \in Handles
  BY AsyncAssumption, Zenon
<1>2. AsyncTypes
  BY <1>1 DEF Async!Init, AsyncTypes
<1> QED
  BY <1>2, Zenon DEF Async!Init, AsyncInv, Linked, Callers, Async!FlagHasWakeup,
              Async!SendsRecorded

\* The beginning of a call: it is unanswered and has not decided yet.
LEMMA SendKeeps ==
  ASSUME AsyncInv, NEW t \in Threads, NEW h \in Handles, Async!Send(t, h)
  PROVE  AsyncInv'
<1>1. AsyncTypes'
  BY DEF AsyncInv, AsyncTypes, Async!Send, Async!Calls
<1>2. Linked'
  BY Zenon DEF AsyncInv, Linked, Async!Send
<1>3. Callers'
  BY DEF AsyncInv, AsyncTypes, Callers, Async!Send
<1>4. Async!FlagHasWakeup'
  BY Zenon DEF AsyncInv, AsyncTypes, Async!FlagHasWakeup, Async!Send
<1>5. Async!SendsRecorded'
  BY ZenonT(30) DEF AsyncInv, AsyncTypes, Async!SendsRecorded, Async!Undecided, Async!Send
<1> QED BY <1>1, <1>2, <1>3, <1>4, <1>5, Zenon DEF AsyncInv

\* The cheap read: a call that gives up leaves a flag that is set.
LEMMA ReadKeeps ==
  ASSUME AsyncInv, NEW t \in Threads, Async!Read(t)
  PROVE  AsyncInv'
<1>1. AsyncTypes'
  BY Zenon DEF AsyncInv, AsyncTypes, Async!Read
<1>2. Linked' /\ Callers'
  BY Zenon DEF AsyncInv, AsyncTypes, Linked, Callers, Async!Read
<1>3. Async!FlagHasWakeup'
  BY Zenon DEF AsyncInv, AsyncTypes, Async!FlagHasWakeup, Async!Read
<1>4. Async!SendsRecorded'
  <2>1. pending' = pending /\ unseen' = unseen /\ open' = open /\ target' = target
    BY Zenon DEF Async!Read
  <2>2. ASSUME NEW u \in Threads, NEW g \in open, u # t
        PROVE  Async!Undecided(u, g)' <=> Async!Undecided(u, g)
    BY <2>1, <2>2, Zenon DEF AsyncInv, AsyncTypes, Async!Undecided, Async!Read
  <2>3. pending[target[t]] = 0 => step'[t] = "cas"
    BY Zenon DEF AsyncInv, AsyncTypes, Async!Read
  <2>4. ASSUME NEW g \in open, pending[g] = 0
        PROVE  Async!Undecided(t, g)' <=> Async!Undecided(t, g)
    BY <2>1, <2>3, <2>4, Zenon DEF AsyncInv, AsyncTypes, Async!Undecided, Async!Read
  <2>5. \A g \in open : pending[g] \in {0, 1}
    BY Zenon DEF AsyncInv, AsyncTypes
  <2> QED
    BY <2>1, <2>2, <2>4, <2>5, Zenon DEF AsyncInv, Async!SendsRecorded
<1> QED BY <1>1, <1>2, <1>3, <1>4, Zenon DEF AsyncInv

\* The compare-and-exchange: whoever sets the flag goes on to write.
LEMMA CmpXchgKeeps ==
  ASSUME AsyncInv, NEW t \in Threads, Async!CmpXchg(t)
  PROVE  AsyncInv'
<1>1. AsyncTypes'
  BY Zenon DEF AsyncInv, AsyncTypes, Async!CmpXchg
<1>2. Linked' /\ Callers'
  BY Zenon DEF AsyncInv, AsyncTypes, Linked, Callers, Async!CmpXchg
<1>3. Async!FlagHasWakeup'
  BY Zenon DEF AsyncInv, AsyncTypes, Async!FlagHasWakeup, Async!CmpXchg
<1>4. Async!SendsRecorded'
  BY Zenon DEF AsyncInv, AsyncTypes, Callers, Async!SendsRecorded, Async!Undecided,
         Async!CmpXchg
<1> QED BY <1>1, <1>2, <1>3, <1>4, Zenon DEF AsyncInv

\* After the write the eventfd is readable, its counter full or not.
LEMMA WriteKeeps ==
  ASSUME AsyncInv, NEW t \in Threads, Async!Write(t)
  PROVE  AsyncInv'
<1>1. AsyncTypes'
  BY DEF AsyncInv, AsyncTypes, Async!Write
<1>2. Linked' /\ Callers'
  BY Zenon DEF AsyncInv, AsyncTypes, Linked, Callers, Async!Write
<1>3. efd' > 0
  BY AsyncAssumption DEF AsyncInv, AsyncTypes, Async!Write
<1>4. Async!FlagHasWakeup'
  BY <1>3, Zenon DEF Async!FlagHasWakeup
<1>5. Async!SendsRecorded'
  BY ZenonT(30) DEF AsyncInv, AsyncTypes, Async!SendsRecorded, Async!Undecided,
                    Async!Write
<1> QED BY <1>1, <1>2, <1>4, <1>5, Zenon DEF AsyncInv

\* uv_async_init: the new handle is in the list, its flag is clear and nobody
\* has sent to it.
LEMMA AsyncInitKeeps ==
  ASSUME AsyncInv, NEW h \in Handles, Async!uv_async_init(h)
  PROVE  AsyncInv'
<1>1. /\ Append(async_handles, h) \in Seq(Handles)
      /\ Async!InQueue(async_handles) \cup {h}
           \subseteq Async!InQueue(Append(async_handles, h))
  BY InsertTail, Zenon DEF AsyncInv, AsyncTypes
<1>2. AsyncTypes'
  BY <1>1, Zenon DEF AsyncInv, AsyncTypes, Async!uv_async_init
<1>3. Linked'
  BY <1>1, Zenon DEF AsyncInv, Linked, Async!uv_async_init
<1>4. Callers'
  BY Zenon DEF AsyncInv, Callers, Async!uv_async_init
<1>5. Async!FlagHasWakeup'
  BY DEF AsyncInv, AsyncTypes, Async!FlagHasWakeup, Async!uv_async_init
<1>6. Async!SendsRecorded'
  <2>1. /\ open' = open \cup {h} /\ unseen' = unseen
        /\ \A g \in open : pending'[g] = pending[g]
        /\ pending'[h] = 0
    BY Zenon DEF AsyncInv, AsyncTypes, Linked, Async!uv_async_init
  <2>2. \A t \in Threads : [thread |-> t, handle |-> h] \notin unseen
    BY Zenon DEF AsyncInv, Linked, Callers, Async!uv_async_init
  <2>3. \A t \in Threads, g \in open : Async!Undecided(t, g)' <=> Async!Undecided(t, g)
    BY Zenon DEF Async!Undecided, Async!uv_async_init
  <2> QED
    BY <2>1, <2>2, <2>3 DEF AsyncInv, Async!SendsRecorded
<1> QED BY <1>2, <1>3, <1>4, <1>5, <1>6, Zenon DEF AsyncInv

\* uv__async_close: the other handles stay in their queues.
LEMMA CloseKeeps ==
  ASSUME AsyncInv, NEW h \in Handles, Async!uv__async_close(h)
  PROVE  AsyncInv'
<1>1. /\ Async!Remove(async_handles, h) \in Seq(Handles)
      /\ Async!InQueue(async_handles) \ {h}
           \subseteq Async!InQueue(Async!Remove(async_handles, h))
      /\ Async!Remove(queue, h) \in Seq(Handles)
      /\ Async!InQueue(queue) \ {h} \subseteq Async!InQueue(Async!Remove(queue, h))
  BY RemoveKeeps, Zenon DEF AsyncInv, AsyncTypes
<1>2. queue = <<>> => Async!Remove(queue, h) = <<>>
  BY DEF Async!Remove, Async!InQueue
<1>3. AsyncTypes'
  BY <1>1, Zenon DEF AsyncInv, AsyncTypes, Async!uv__async_close
<1>4. Linked'
  BY <1>1, <1>2, Zenon DEF AsyncInv, Linked, Async!uv__async_close
<1>5. Callers'
  BY Zenon DEF AsyncInv, AsyncTypes, Callers, Async!Sending, Async!uv__async_close
<1>6. Async!FlagHasWakeup'
  BY <1>1, Zenon DEF AsyncInv, Async!FlagHasWakeup, Async!uv__async_close
<1>7. Async!SendsRecorded'
  BY ZenonT(30) DEF AsyncInv, Async!SendsRecorded, Async!Undecided, Async!uv__async_close
<1> QED BY <1>3, <1>4, <1>5, <1>6, <1>7, Zenon DEF AsyncInv

\* uv__async_io: every handle moves to the queue that is about to be looked at.
LEMMA AsyncIoKeeps ==
  ASSUME AsyncInv, Async!uv__async_io
  PROVE  AsyncInv'
<1>1. queue = <<>> /\ Async!InQueue(queue) = {} /\ Async!InQueue(<<>>) = {}
  BY DEF AsyncInv, Linked, Async!LoopRuns, Async!uv__async_io, Async!InQueue
<1>2. AsyncTypes'
  BY DEF AsyncInv, AsyncTypes, Async!uv__async_io
<1>3. Linked'
  BY <1>1, Zenon DEF AsyncInv, Linked, Async!uv__async_io
<1>4. Callers' /\ Async!SendsRecorded'
  BY Zenon DEF AsyncInv, Callers, Async!SendsRecorded, Async!Undecided, Async!uv__async_io
<1>5. Async!FlagHasWakeup'
  BY <1>1, <1>3, Zenon DEF AsyncInv, Linked, Async!FlagHasWakeup, Async!uv__async_io
<1> QED BY <1>2, <1>3, <1>4, <1>5, Zenon DEF AsyncInv

\* uv__async_event: the head's flag is cleared, the calls on record in it are
\* answered, and the handle goes back to the list.
LEMMA AsyncEventKeeps ==
  ASSUME AsyncInv, Async!uv__async_event
  PROVE  AsyncInv'
<1> DEFINE h == Head(queue)
<1>1. /\ h \in Handles /\ Tail(queue) \in Seq(Handles)
      /\ Async!InQueue(queue) \subseteq Async!InQueue(Tail(queue)) \cup {h}
  BY TakeHead, Zenon DEF AsyncInv, AsyncTypes, Async!uv__async_event
<1>2. /\ Append(async_handles, h) \in Seq(Handles)
      /\ Async!InQueue(async_handles) \cup {h}
           \subseteq Async!InQueue(Append(async_handles, h))
  BY <1>1, InsertTail, Zenon DEF AsyncInv, AsyncTypes
<1>3. /\ queue' = Tail(queue) /\ async_handles' = Append(async_handles, h)
      /\ pending' = [pending EXCEPT ![h] = 0]
      /\ loop' \in {"event", "callback"}
      /\ unseen' = IF pending[h] = 1 THEN Async!Unanswered(h) ELSE unseen
      /\ UNCHANGED <<open, used, efd, step, target>>
  BY Zenon DEF Async!uv__async_event
<1>4. unseen' \subseteq unseen
  BY <1>3, Zenon DEF Async!Unanswered
<1> HIDE DEF h
<1>5. AsyncTypes'
  BY <1>1, <1>2, <1>3, <1>4, Zenon DEF AsyncInv, AsyncTypes
<1>6. Linked'
  BY <1>1, <1>2, <1>3, Zenon DEF AsyncInv, Linked
<1>7. Callers'
  <2>1. ASSUME NEW t \in Threads, step[t] \in {"read", "cas"}
        PROVE  [thread |-> t, handle |-> target[t]] \in unseen'
    BY <1>3, <2>1, Zenon DEF AsyncInv, Callers, Async!Unanswered, Async!Undecided
  <2> QED BY <1>3, <1>4, <2>1, Zenon DEF AsyncInv, Callers
<1>8. Async!FlagHasWakeup'
  BY <1>1, <1>3 DEF AsyncInv, AsyncTypes, Async!FlagHasWakeup
<1>9. Async!SendsRecorded'
  <2>1. ASSUME NEW g \in open, NEW t \in Threads, g # h
        PROVE  [thread |-> t, handle |-> g] \in unseen' <=>
               [thread |-> t, handle |-> g] \in unseen
    BY <1>3, <2>1, Zenon DEF Async!Unanswered
  <2>2. ASSUME NEW t \in Threads, [thread |-> t, handle |-> h] \in unseen',
               h \in open
        PROVE  Async!Undecided(t, h)
    BY <1>1, <1>3, <2>2, ZenonT(30)
       DEF AsyncInv, AsyncTypes, Async!SendsRecorded, Async!Unanswered
  <2>3. \A t \in Threads, g \in Handles : Async!Undecided(t, g)' <=> Async!Undecided(t, g)
    BY <1>3, Zenon DEF Async!Undecided
  <2>4. /\ \A g \in open : g # h => pending'[g] = pending[g]
        /\ pending'[h] = 0
        /\ open' = open /\ open \subseteq Handles
    BY <1>1, <1>3, Zenon DEF AsyncInv, AsyncTypes
  <2>5. ASSUME NEW g \in open, g # h, NEW t \in Threads,
               [thread |-> t, handle |-> g] \in unseen', ~Async!Undecided(t, g)'
        PROVE  pending'[g] = 1
    BY <2>1, <2>3, <2>4, <2>5, Zenon DEF AsyncInv, Async!SendsRecorded
  <2>6. ASSUME NEW g \in open, pending'[g] = 1
        PROVE  \E t \in Threads : [thread |-> t, handle |-> g] \in unseen'
    BY <2>1, <2>4, <2>6 DEF AsyncInv, Async!SendsRecorded
  <2>7. ASSUME NEW g \in open, NEW t \in Threads,
               [thread |-> t, handle |-> g] \in unseen', ~Async!Undecided(t, g)'
        PROVE  pending'[g] = 1
    BY <2>2, <2>3, <2>4, <2>5, <2>7, Zenon
  <2> QED BY <2>4, <2>6, <2>7, Zenon DEF Async!SendsRecorded
<1> QED BY <1>5, <1>6, <1>7, <1>8, <1>9, Zenon DEF AsyncInv

\* Steps that only move the loop thread.
LEMMA LoopMovesKeep ==
  ASSUME AsyncInv, Async!CallbackReturns \/ Async!EventDone \/ UNCHANGED Async!vars
  PROVE  AsyncInv'
<1>1. UNCHANGED <<open, used, pending, async_handles, queue, efd, step, target, unseen>>
  BY Zenon DEF Async!CallbackReturns, Async!EventDone, Async!vars
<1>2. loop' \in {"poll", "event", "callback"} /\ (loop' = "poll" => queue = <<>>)
  BY Zenon DEF AsyncInv, AsyncTypes, Linked, Async!CallbackReturns, Async!EventDone, Async!vars
<1>3. AsyncTypes' /\ Linked' /\ Callers'
  BY <1>1, <1>2, Zenon DEF AsyncInv, AsyncTypes, Linked, Callers
<1>4. Async!FlagHasWakeup' /\ Async!SendsRecorded'
  BY <1>1, Zenon DEF AsyncInv, Async!FlagHasWakeup, Async!SendsRecorded, Async!Undecided
<1> QED BY <1>3, <1>4, Zenon DEF AsyncInv

\* The invariant is inductive.
LEMMA AsyncStepKeeps ==
  ASSUME AsyncInv, [Async!Next]_(Async!vars)
  PROVE  AsyncInv'
<1>1. ASSUME NEW t \in Threads, Async!uv_async_send(t) PROVE AsyncInv'
  BY <1>1, ReadKeeps, CmpXchgKeeps, WriteKeeps, Zenon DEF Async!uv_async_send
<1>2. ASSUME NEW t \in Threads, NEW h \in Handles, Async!Send(t, h) PROVE AsyncInv'
  BY <1>2, SendKeeps, Zenon
<1>3. ASSUME NEW h \in Handles, Async!uv_async_init(h) PROVE AsyncInv'
  BY <1>3, AsyncInitKeeps, Zenon
<1>4. ASSUME NEW h \in Handles, Async!uv__async_close(h) PROVE AsyncInv'
  BY <1>4, CloseKeeps, Zenon
<1>5. ASSUME Async!Loop PROVE AsyncInv'
  BY <1>5, AsyncIoKeeps, AsyncEventKeeps, LoopMovesKeep, Zenon DEF Async!Loop
<1>6. CASE UNCHANGED Async!vars
  BY <1>6, LoopMovesKeep, Zenon
<1> QED
  BY <1>1, <1>2, <1>3, <1>4, <1>5, <1>6, Zenon DEF Async!Next

-----------------------------------------------------------------------------
\* The loop never sleeps on a flag that uv_async_send has set: the eventfd is
\* or will be readable, or uv__async_event is about to look at the handle.  No
\* call is forgotten, though calls that find the flag set do nothing, and no
\* callback is made that answers no call.
THEOREM NoWakeupLost == Async!Spec => []WakeupsKept
<1>1. Async!Init => AsyncInv
  BY AsyncStarts, Zenon
<1>2. AsyncInv /\ [Async!Next]_(Async!vars) => AsyncInv'
  BY AsyncStepKeeps, Zenon
<1>3. AsyncInv => WakeupsKept
  BY Zenon DEF AsyncInv, WakeupsKept
<1> QED
  BY <1>1, <1>2, <1>3, PTL DEF Async!Spec

-----------------------------------------------------------------------------
(* DBConnector, for any accounts and any number of calls.                  *)

\* What is under way: the statement of a call or the packets of an answer.
Answers == {"fields", "row", "eof", "ok", "error"}
Statements == [kind : DB!Commands, id : Ids, pw : Passwords]
Messages == [kind : Answers] \cup Statements
Statement == [kind |-> call.op, id |-> call.id, pw |-> call.pw]

\* In this call the account had the password, or it lacked it; the next packet
\* of a SELECT's answer says which, and only rows and the end follow.
Had == call.pw \in seen
Lacked == \E p \in seen : p # call.pw
Row(m) == (m.kind = "row" /\ Had) \/ (m.kind = "eof" /\ Lacked)
Rest(k) == \A i \in k .. Len(wire) : wire[i].kind \in {"row", "eof"}

DBTypes ==
  /\ table \in [Ids -> Passwords \cup {NoAccount}]
  /\ wire \in Seq(Messages)
  /\ db_pc \in {"idle", "query", "answer", "fetch", "found", "absent"}
  /\ db_pc # "idle" => call \in [op : DB!Commands, id : Ids, pw : Passwords]

\* Before a statement is sent nothing is on the connection.
Quiet ==
  /\ db_pc \in {"idle", "query", "answer"} => status = "ready"
  /\ db_pc \in {"idle", "query"} => wire = <<>>
  /\ db_pc = "query" => stored = FALSE

\* The statement, or what is left of its answer, and it agrees with what the
\* server did.
Answered ==
  db_pc = "answer" =>
    \/ wire = <<>>
    \/ Len(wire) = 1 /\ wire[1] = Statement /\ stored = FALSE
    \/ /\ call.op = "search" /\ wire # <<>> /\ wire[1].kind = "fields"
       /\ Len(wire) >= 2 => Row(wire[2])
       /\ Rest(2)
    \/ /\ call.op = "signup" /\ Len(wire) = 1
       /\ (wire[1].kind = "ok" /\ stored = TRUE) \/ (wire[1].kind = "error" /\ stored = FALSE)

\* The rows of the SELECT are being read, or were: the branch SearchAccount took
\* agrees with the account.
Fetched ==
  /\ db_pc \in {"fetch", "found", "absent"} => call.op = "search" /\ Rest(1)
  /\ db_pc = "fetch" /\ wire # <<>> => Row(wire[1])
  /\ db_pc = "found" => Had
  /\ db_pc = "absent" => broken \/ Lacked

\* The call has seen the password its account has now.
Current == db_pc # "idle" => table[call.id] \in seen

\* What the last call returned was true.
Told == DB!SearchTrueFound /\ DB!SearchFalseAbsent /\ DB!SignUpTold

DBInv == DBTypes /\ Quiet /\ Current /\ Answered /\ Fetched /\ Told

\* The invariant holds before the first Connect.
LEMMA DBStarts == DB!Init => DBInv
BY DEF DB!Init, DBInv, DBTypes, Quiet, Current, Answered, Fetched, Told, DB!SearchTrueFound,
       DB!SearchFalseAbsent, DB!SignUpTold, DB!NoResult

\* What other clients do to the table is seen by the call.
LEMMA PutKeeps ==
  ASSUME DBInv, NEW i \in Ids, NEW p \in Passwords \cup {NoAccount}, DB!Put(i, p)
  PROVE  /\ table' \in [Ids -> Passwords \cup {NoAccount}]
         /\ seen \subseteq seen'
         /\ db_pc # "idle" => table'[call.id] \in seen'
  BY Zenon DEF DBInv, DBTypes, Current, DB!Put

\* Another client's INSERT or DELETE keeps the invariant.
LEMMA OtherKeeps == ASSUME DBInv, DB!OtherClient PROVE DBInv'
<1>1. PICK i \in Ids, p \in Passwords \cup {NoAccount} : DB!Put(i, p)
  BY Zenon DEF DB!OtherClient
<1>2. /\ table' \in [Ids -> Passwords \cup {NoAccount}]
      /\ seen \subseteq seen'
      /\ db_pc # "idle" => table'[call.id] \in seen'
  BY <1>1, PutKeeps, Zenon
<1>3. UNCHANGED <<conn, status, broken, wire, call, db_pc, stored, result>>
  BY Zenon DEF DB!OtherClient
<1>4. Had => Had'
  BY <1>2, <1>3, Zenon DEF Had
<1>5. Lacked => Lacked'
  BY <1>2, <1>3, Zenon DEF Lacked
<1>6. DBTypes' /\ Quiet' /\ Current'
  BY <1>2, <1>3, Zenon DEF DBInv, DBTypes, Quiet, Current
<1>7. Answered'
  BY <1>3, <1>4, <1>5, Zenon DEF DBInv, Answered, Rest, Row, Statement
<1>8. Fetched'
  BY <1>3, <1>4, <1>5, ZenonT(30) DEF DBInv, Fetched, Rest, Row
<1>9. Told'
  BY <1>3, Zenon DEF DBInv, Told, DB!SearchTrueFound, DB!SearchFalseAbsent, DB!SignUpTold
<1> QED BY <1>6, <1>7, <1>8, <1>9, Zenon DEF DBInv

\* A break loses a suffix of what is under way, and what is left is as true.
LEMMA BreakKeeps == ASSUME DBInv, DB!Break PROVE DBInv'
<1>1. PICK n \in 0 .. Len(wire) : wire' = SubSeq(wire, 1, n)
  BY Zenon DEF DB!Break
<1>2. /\ wire' \in Seq(Messages) /\ Len(wire') = n /\ n <= Len(wire)
      /\ \A i \in 1 .. n : wire'[i] = wire[i] /\ Len(wire) \in Nat /\ n \in Nat
      /\ n = 0 <=> wire' = <<>>
      /\ wire = <<>> => wire' = <<>>
  BY <1>1 DEF DBInv, DBTypes
<1>3. broken' /\ UNCHANGED <<table, conn, status, call, db_pc, seen, stored, result>>
  BY Zenon DEF DB!Break
<1>4. DBTypes' /\ Quiet' /\ Current'
  BY <1>2, <1>3, Zenon DEF DBInv, DBTypes, Quiet, Current
<1>5. \A k \in {1, 2} : Rest(k) => Rest(k)'
  BY <1>2, <1>3 DEF Rest
<1>6. \A m : Row(m)' <=> Row(m)
  BY <1>3, Zenon DEF Row, Had, Lacked
<1>7. Answered'
  BY <1>2, <1>3, <1>5, <1>6 DEF DBInv, Answered, Statement
<1>8. Fetched'
  BY <1>2, <1>3, <1>5, <1>6 DEF DBInv, Fetched, Had, Lacked
<1>9. Told'
  BY <1>3, Zenon DEF DBInv, Told, DB!SearchTrueFound, DB!SearchFalseAbsent, DB!SignUpTold
<1> QED BY <1>4, <1>7, <1>8, <1>9, Zenon DEF DBInv

\* The server executes the statement of the call in progress.
LEMMA ExecuteKeeps == ASSUME DBInv, DB!ServerExecutes PROVE DBInv'
<1> DEFINE c == Head(wire)
<1>1. /\ wire # <<>> /\ Len(wire) \in Nat /\ Len(wire) >= 1 /\ c = wire[1]
      /\ c.kind \in DB!Commands
  BY DEF DB!ServerExecutes, DBInv, DBTypes
<1>2. db_pc = "answer" /\ c = Statement /\ stored = FALSE
  <2>1. ~Rest(1)
    BY <1>1 DEF Rest, DB!Commands
  <2>2. db_pc = "answer"
    BY <1>1, <2>1, Zenon DEF DBInv, DBTypes, Quiet, Fetched
  <2> QED BY <1>1, <2>2, Zenon DEF DBInv, Answered, DB!Commands
<1>3. /\ c.kind = call.op /\ c.id = call.id /\ c.pw = call.pw
      /\ call.op \in DB!Commands /\ call.id \in Ids /\ call.pw \in Passwords
  BY <1>2 DEF Statement, DBInv, DBTypes
<1>4. UNCHANGED <<conn, status, broken, call, db_pc, result>>
  BY Zenon DEF DB!ServerExecutes
<1>5. Told'
  BY <1>4, Zenon DEF DBInv, Told, DB!SearchTrueFound, DB!SearchFalseAbsent, DB!SignUpTold
<1>6. Quiet' /\ Fetched'
  BY <1>2, <1>4, Zenon DEF DBInv, Quiet, Fetched
<1> HIDE DEF c
<1>7. CASE call.op = "search"
  <2>1. /\ UNCHANGED <<table, seen, stored>>
        /\ wire' = IF table[call.id] = call.pw
                   THEN <<[kind |-> "fields"], [kind |-> "row"], [kind |-> "eof"]>>
                   ELSE <<[kind |-> "fields"], [kind |-> "eof"]>>
    BY <1>3, <1>7, Zenon DEF DB!ServerExecutes, c
  <2>2. table[call.id] \in seen
    BY <1>2, Zenon DEF DBInv, Current
  <2>3. DBTypes' /\ Current'
    <3>1. /\ [kind |-> "fields"] \in Messages /\ [kind |-> "row"] \in Messages
          /\ [kind |-> "eof"] \in Messages
      BY Zenon DEF Messages, Answers
    <3>2. wire' \in Seq(Messages)
      BY <2>1, <3>1
    <3> QED BY <1>2, <1>4, <2>1, <2>2, <3>2, Zenon DEF DBInv, DBTypes, Current
  <2>4. CASE table[call.id] = call.pw
    <3>1. /\ Len(wire') = 3 /\ wire'[1].kind = "fields"
          /\ wire'[2].kind = "row" /\ wire'[3].kind = "eof" /\ wire' # <<>>
      BY <2>1, <2>4, Zenon
    <3>2. Row(wire[2])' /\ Rest(2)'
      BY <1>4, <2>1, <2>2, <2>4, <3>1 DEF Row, Had, Rest
    <3>3. Answered'
      BY <1>4, <1>7, <3>1, <3>2, Zenon DEF Answered
    <3> QED BY <1>5, <1>6, <2>3, <3>3, Zenon DEF DBInv
  <2>5. CASE table[call.id] # call.pw
    <3>1. /\ Len(wire') = 2 /\ wire'[1].kind = "fields"
          /\ wire'[2].kind = "eof" /\ wire' # <<>>
      BY <2>1, <2>5, Zenon
    <3>2. Row(wire[2])' /\ Rest(2)'
      BY <1>4, <2>1, <2>2, <2>5, <3>1 DEF Row, Lacked, Rest
    <3>3. Answered'
      BY <1>4, <1>7, <3>1, <3>2, Zenon DEF Answered
    <3> QED BY <1>5, <1>6, <2>3, <3>3, Zenon DEF DBInv
  <2> QED BY <2>4, <2>5, Zenon
<1>8. CASE call.op = "signup" /\ table[call.id] = NoAccount
  <2>1. wire' = <<[kind |-> "ok"]>> /\ DB!Put(call.id, call.pw) /\ stored' = TRUE
    BY <1>3, <1>8, Zenon DEF DB!ServerExecutes, c
  <2>2. /\ table' \in [Ids -> Passwords \cup {NoAccount}]
        /\ db_pc # "idle" => table'[call.id] \in seen'
    BY <1>3, <2>1, PutKeeps, Zenon
  <2>3. /\ wire' \in Seq(Messages) /\ Len(wire') = 1 /\ wire'[1].kind = "ok"
    BY <2>1 DEF Messages, Answers
  <2> QED
    BY <1>2, <1>4, <1>5, <1>6, <1>8, <2>1, <2>2, <2>3, Zenon
       DEF DBInv, DBTypes, Current, Answered
<1>9. CASE call.op = "signup" /\ table[call.id] # NoAccount
  <2>1. wire' = <<[kind |-> "error"]>> /\ UNCHANGED <<table, seen, stored>>
    BY <1>3, <1>9, Zenon DEF DB!ServerExecutes, c
  <2>2. /\ wire' \in Seq(Messages) /\ Len(wire') = 1 /\ wire'[1].kind = "error"
    BY <2>1 DEF Messages, Answers
  <2> QED
    BY <1>2, <1>4, <1>5, <1>6, <1>9, <2>1, <2>2, Zenon
       DEF DBInv, DBTypes, Current, Answered
<1> QED BY <1>3, <1>7, <1>8, <1>9, Zenon DEF DB!Commands

\* Connect, Close and the beginning of a call find nothing on the connection.
LEMMA OutsideKeeps ==
  ASSUME DBInv, DB!Connect \/ DB!Close \/ DB!SearchAccount \/ DB!SignUpAccount
  PROVE  DBInv'
<1>1. db_pc = "idle" /\ UNCHANGED <<table, result>>
  BY Zenon DEF DB!Connect, DB!Close, DB!SearchAccount, DB!SignUpAccount, DB!Begin
<1>2. Told'
  BY <1>1, Zenon DEF DBInv, Told, DB!SearchTrueFound, DB!SearchFalseAbsent, DB!SignUpTold
<1>3. CASE DB!Connect \/ DB!Close
  <2>1. db_pc' = "idle" /\ status' = "ready" /\ wire' = <<>>
    BY <1>1, <1>3, Zenon DEF DB!Connect, DB!Close
  <2> QED
    BY <1>1, <1>2, <2>1, Zenon DEF DBInv, DBTypes, Quiet, Current, Answered, Fetched
<1>4. ASSUME NEW op \in DB!Commands, DB!Begin(op) PROVE DBInv'
  <2>1. /\ db_pc' = "query" /\ stored' = FALSE /\ UNCHANGED <<status, wire>>
        /\ call' \in [op : DB!Commands, id : Ids, pw : Passwords]
        /\ seen' = {table[call'.id]}
    BY <1>4 DEF DB!Begin
  <2> QED
    BY <1>1, <1>2, <2>1, Zenon DEF DBInv, DBTypes, Quiet, Current, Answered, Fetched
<1> QED BY <1>3, <1>4, Zenon DEF DB!SearchAccount, DB!SignUpAccount, DB!Commands

\* A call that returns leaves nothing on the connection.
LEMMA ReturnKeeps ==
  ASSUME DBInv, NEW v \in BOOLEAN, DB!Return(v), db_pc # "idle",
         wire' = <<>>, status' = "ready",
         call.op = "search" /\ v => Had,
         call.op = "search" /\ ~v => broken \/ conn # "up" \/ Lacked,
         call.op = "signup" => (v /\ stored = TRUE) \/ (~v /\ stored = FALSE)
                                 \/ (~v /\ (broken \/ conn # "up"))
  PROVE  DBInv'
<1>1. db_pc' = "idle" /\ table' = table
  BY Zenon DEF DB!Return
<1>2. DBTypes' /\ Quiet' /\ Current' /\ Answered' /\ Fetched'
  BY <1>1 DEF DBInv, DBTypes, Quiet, Current, Answered, Fetched
<1>3. /\ result'.op = call.op /\ result'.value = v /\ result'.had = Had
      /\ result'.lacked = (seen # {call.pw}) /\ result'.stored = stored
      /\ result'.lost = (broken \/ conn # "up")
  BY Zenon DEF DB!Return, Had
<1>4. DB!SearchTrueFound'
  BY <1>3, Zenon DEF DB!SearchTrueFound
<1>5. DB!SearchFalseAbsent'
  BY <1>3, Zenon DEF DB!SearchFalseAbsent, Lacked
<1>6. DB!SignUpTold'
  BY <1>3, Zenon DEF DB!SignUpTold
<1> QED BY <1>2, <1>4, <1>5, <1>6, Zenon DEF DBInv, Told

\* mysql_use_result and mysql_fetch_row take the next packet of the answer.
LEMMA GoesOn == ASSUME DBInv, DB!mysql_use_result \/ DB!mysql_fetch_row PROVE DBInv'
<1>1. UNCHANGED <<table, conn, broken, call, seen, stored, result>>
  BY Zenon DEF DB!mysql_use_result, DB!mysql_fetch_row
<1>2. Told'
  BY <1>1, Zenon DEF DBInv, Told, DB!SearchTrueFound, DB!SearchFalseAbsent, DB!SignUpTold
<1>3. CASE wire # <<>> /\ wire' = Tail(wire)
  <2>1. /\ wire' \in Seq(Messages) /\ Len(wire) \in Nat \ {0}
        /\ Len(wire') = Len(wire) - 1 /\ Head(wire) = wire[1]
        /\ \A i \in 1 .. Len(wire') : wire'[i] = wire[i + 1]
        /\ wire' # <<>> => Len(wire') >= 1
    BY <1>3 DEF DBInv, DBTypes
  <2>2. \A m : Row(m)' <=> Row(m)
    BY <1>1, Zenon DEF Row, Had, Lacked
  <2>3. CASE DB!mysql_use_result
    <3>1. db_pc = "answer" /\ db_pc' = "fetch" /\ wire[1].kind = "fields"
      BY <2>1, <2>3, Zenon DEF DB!mysql_use_result
    <3>2. /\ call.op = "search" /\ Rest(2)
          /\ Len(wire) >= 2 => Row(wire[2])
      BY <1>3, <3>1 DEF DBInv, Answered, Statement, DBTypes, DB!Commands
    <3>3. Rest(1)'
      BY <2>1, <3>2 DEF Rest
    <3>a. ASSUME wire' # <<>> PROVE Row(wire[1])'
      <4>1. wire'[1] = wire[2] /\ Len(wire) >= 2
        BY <2>1, <3>a
      <4> QED BY <2>2, <3>2, <4>1, Zenon
    <3>4. Fetched'
      BY <1>1, <3>1, <3>2, <3>3, <3>a, Zenon DEF Fetched
    <3> QED
      BY <1>1, <1>2, <2>1, <3>1, <3>4, Zenon DEF DBInv, DBTypes, Quiet, Current, Answered
  <2>4. CASE DB!mysql_fetch_row
    <3>1. db_pc = "fetch" /\ db_pc' = IF wire[1].kind = "row" THEN "found" ELSE "absent"
      BY <1>3, <2>1, <2>4, Zenon DEF DB!mysql_fetch_row
    <3>2. call.op = "search" /\ Rest(1) /\ Row(wire[1])
      BY <1>3, <3>1, Zenon DEF DBInv, Fetched
    <3>3. Rest(1)' 
      BY <2>1, <3>2 DEF Rest
    <3>4. (db_pc' = "found" => Had') /\ (db_pc' = "absent" => Lacked')
      BY <1>1, <3>1, <3>2, Zenon DEF Row, Had, Lacked
    <3>5. Fetched'
      BY <1>1, <3>1, <3>2, <3>3, <3>4, Zenon DEF Fetched
    <3> QED
      BY <1>1, <1>2, <2>1, <3>1, <3>5, Zenon DEF DBInv, DBTypes, Quiet, Current, Answered
  <2> QED BY <2>3, <2>4, Zenon
<1>4. CASE wire = <<>> /\ DB!mysql_fetch_row
  <2>1. db_pc = "fetch" /\ db_pc' = "absent" /\ wire' = wire /\ broken
    BY <1>4, Zenon DEF DB!mysql_fetch_row
  <2> QED
    BY <1>1, <1>2, <2>1, Zenon
       DEF DBInv, DBTypes, Quiet, Current, Answered, Fetched, Rest
<1> QED BY <1>3, <1>4, Zenon DEF DB!mysql_use_result, DB!mysql_fetch_row

\* mysql_query sends the statement on a quiet connection, or fails.
LEMMA QueryKeeps == ASSUME DBInv, DB!mysql_query PROVE DBInv'
<1>1. db_pc = "query" /\ status = "ready" /\ wire = <<>> /\ stored = FALSE
  BY Zenon DEF DB!mysql_query, DBInv, Quiet
<1>2. CASE conn = "up" /\ ~broken
  <2>1. /\ wire' = Append(wire, Statement) /\ db_pc' = "answer"
        /\ UNCHANGED <<table, conn, status, broken, call, seen, stored, result>>
    BY <1>1, <1>2, Zenon DEF DB!mysql_query, Statement
  <2>2. Statement \in Messages
    BY <1>1, Zenon DEF Statement, Messages, Statements, DBInv, DBTypes
  <2>3. wire' \in Seq(Messages) /\ Len(wire') = 1 /\ wire'[1] = Statement'
    <3>1. Statement' = Statement
      BY <2>1, Zenon DEF Statement
    <3> QED BY <1>1, <2>1, <2>2, <3>1
  <2>4. Told'
    BY <2>1, Zenon DEF DBInv, Told, DB!SearchTrueFound, DB!SearchFalseAbsent, DB!SignUpTold
  <2> QED
    BY <1>1, <2>1, <2>3, <2>4, Zenon
       DEF DBInv, DBTypes, Quiet, Current, Answered, Fetched
<1>3. CASE ~(conn = "up" /\ ~broken)
  <2>1. DB!Return(FALSE) /\ UNCHANGED <<status, wire>>
    BY <1>1, <1>3, Zenon DEF DB!mysql_query
  <2> QED BY <1>1, <1>3, <2>1, ReturnKeeps, Zenon
<1> QED BY <1>2, <1>3, Zenon

\* mysql_query returns an error: the server's, or that of a lost connection.
LEMMA FailKeeps == ASSUME DBInv, DB!QueryFails PROVE DBInv'
<1>1. db_pc = "answer" /\ DB!Return(FALSE) /\ status' = status /\ status = "ready"
  BY Zenon DEF DB!QueryFails, DBInv, Quiet
<1>2. CASE broken /\ wire' = <<>>
  BY <1>1, <1>2, ReturnKeeps, Zenon
<1>3. CASE wire # <<>> /\ Head(wire).kind = "error" /\ wire' = Tail(wire)
  <2>1. Len(wire) \in Nat /\ Head(wire) = wire[1]
    BY <1>3 DEF DBInv, DBTypes
  <2>2. call.op = "signup" /\ Len(wire) = 1 /\ stored = FALSE
    BY <1>1, <1>3, <2>1 DEF DBInv, Answered, Statement, DBTypes, DB!Commands
  <2>3. wire' = <<>>
    BY <1>3, <2>2 DEF DBInv, DBTypes
  <2> QED BY <1>1, <2>2, <2>3, ReturnKeeps, Zenon
<1> QED BY <1>2, <1>3, Zenon DEF DB!QueryFails

\* SignUpAccount returns true on the OK of its own INSERT.
LEMMA SignUpKeeps == ASSUME DBInv, DB!SignUpReturns PROVE DBInv'
<1>1. /\ db_pc = "answer" /\ wire # <<>> /\ Head(wire).kind = "ok"
      /\ wire' = Tail(wire) /\ DB!Return(TRUE) /\ status' = "ready"
  BY Zenon DEF DB!SignUpReturns, DBInv, Quiet
<1>2. Len(wire) \in Nat /\ Head(wire) = wire[1]
  BY <1>1 DEF DBInv, DBTypes
<1>3. call.op = "signup" /\ Len(wire) = 1 /\ stored = TRUE
  BY <1>1, <1>2 DEF DBInv, Answered, Statement, DBTypes, DB!Commands
<1>4. wire' = <<>>
  BY <1>1, <1>3 DEF DBInv, DBTypes
<1> QED BY <1>1, <1>3, <1>4, ReturnKeeps, Zenon

\* mysql_free_result reads what is left before SearchAccount returns.
LEMMA FreeKeeps == ASSUME DBInv, DB!mysql_free_result PROVE DBInv'
<1>1. /\ db_pc \in {"found", "absent"} /\ wire' = <<>> /\ status' = "ready"
      /\ DB!Return(db_pc = "found") /\ call.op = "search"
  BY Zenon DEF DB!mysql_free_result, DBInv, Fetched
<1>2. (db_pc = "found" => Had) /\ (db_pc # "found" => broken \/ Lacked)
  BY <1>1, Zenon DEF DBInv, Fetched
<1> QED BY <1>1, <1>2, ReturnKeeps, Zenon

\* Every step of the calls, the server and the network keeps the invariant.
LEMMA DBStepKeeps == ASSUME DBInv, [DB!Next]_(DB!vars) PROVE DBInv'
<1>1. CASE UNCHANGED DB!vars
  <2>1. UNCHANGED <<table, conn, status, broken, wire, call, db_pc, seen, stored,
                    result>>
    BY <1>1, Zenon DEF DB!vars
  <2>2. (Had' <=> Had) /\ (Lacked' <=> Lacked)
    BY <2>1, Zenon DEF Had, Lacked
  <2>3. DBTypes'
    BY <2>1, Zenon DEF DBInv, DBTypes
  <2>4. Quiet' /\ Current'
    BY <2>1, Zenon DEF DBInv, Quiet, Current
  <2>5. Answered'
    BY <2>1, <2>2, Zenon DEF DBInv, Answered, Statement, Row, Rest
  <2>6. Fetched'
    BY <2>1, <2>2, Zenon DEF DBInv, Fetched, Row, Rest
  <2>7. Told'
    BY <2>1, Zenon DEF DBInv, Told, DB!SearchTrueFound, DB!SearchFalseAbsent,
                       DB!SignUpTold
  <2> QED BY <2>3, <2>4, <2>5, <2>6, <2>7, Zenon DEF DBInv
<1> QED
  BY <1>1, ExecuteKeeps, OtherKeeps, BreakKeeps, OutsideKeeps, QueryKeeps,
     FailKeeps, SignUpKeeps, GoesOn, FreeKeeps, Zenon DEF DB!Next, DB!Thread

\* For any accounts and any number of calls, whatever other clients do and
\* wherever the connection breaks, SearchAccount and SignUpAccount return what
\* the database had or did during the call, and leave no open result and
\* nothing under way on a working connection.
THEOREM CallsTellTruth == DB!Spec => []DBTruthful
<1>1. DBInv => DB!InSync
  BY Zenon DEF DBInv, Quiet, DB!InSync
<1>2. DBInv => DB!SearchTrueFound /\ DB!SearchFalseAbsent /\ DB!SignUpTold
  BY Zenon DEF DBInv, Told
<1>3. DBInv => DBTruthful
  BY <1>1, <1>2, Zenon DEF DBTruthful
<1> QED BY DBStarts, DBStepKeeps, <1>3, PTL DEF DB!Spec
================================================================================
