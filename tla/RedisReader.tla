------------------------------ MODULE RedisReader ------------------------------
(***************************************************************************)
(* The reply parser of hiredis (hiredis/linux/read.c) as a blocking        *)
(* context drives it (redisGetReply, redisBufferRead): replies arrive cut  *)
(* into chunks at any byte, and the parser keeps a stack of tasks for the  *)
(* arrays it is in.                                                        *)
(*                                                                         *)
(* A byte is a string.  A reply object is a function from the positions in *)
(* it (<<>> is the root, <<2, 0>> the first element of its third element)  *)
(* to nodes, which is what createStringObject and the others link up.      *)
(***************************************************************************)
EXTENDS Integers, Sequences, FiniteSets, SequencesExt, FiniteSetsExt

CONSTANTS
  Streams,   \* what servers send: [replies : sequence of objects, bytes : Seq]
  MaxChunk,  \* bound: bytes one read() returns
  MaxRidx,   \* last index of rstack (8)
  Discard,   \* consumed bytes that make the parser shift its buffer (1024)
  LLMax,     \* LLONG_MAX
  IntMax     \* INT_MAX

VARIABLES
  stream,   \* the member of Streams sent
  wire,     \* its bytes that were not read yet
  buf, pos, \* r->buf, r->pos
  rstack,   \* the tasks 0 .. r->ridx
  reply,    \* r->reply, with the elements it has so far
  err,      \* r->err
  at,       \* "call", "items", "done", "read", "end"
  replies   \* objects redisGetReply has returned

vars == <<stream, wire, buf, pos, rstack, reply, err, at, replies>>

NoReply == [p \in {} |-> 0]
Types == [b \in {"-", "+", ":", "$", "*"} |->
            CASE b = "-" -> "error" [] b = "+" -> "status" [] b = ":" -> "integer"
              [] b = "$" -> "string" [] b = "*" -> "array"]
Digits == [d \in {"0", "1", "2", "9"} |->
             CASE d = "0" -> 0 [] d = "1" -> 1 [] d = "2" -> 2 [] d = "9" -> 9]

Task(idx) == [type |-> "none", elements |-> -1, idx |-> idx]

Init ==
  /\ stream \in Streams /\ wire = stream.bytes
  /\ buf = <<>> /\ pos = 0 /\ rstack = <<>> /\ reply = NoReply /\ err = FALSE
  /\ at = "call" /\ replies = <<>>

-----------------------------------------------------------------------------
(* Reading bytes.                                                          *)

\* Where the first CR LF after pos begins, 0 if there is none.
seekNewline ==
  LET found == {i \in pos + 1 .. Len(buf) - 1 : buf[i] = "CR" /\ buf[i + 1] = "LF"}
  IN IF found = {} THEN 0 ELSE Min(found)

Line == SubSeq(buf, pos + 1, seekNewline - 1)

\* A strict decimal number of type long long, or not ok.
string2ll(s) ==
  LET digits == IF s # <<>> /\ s[1] = "-" THEN Tail(s) ELSE s
      negative == digits # s
      number == FoldLeft(LAMBDA v, d : 10 * v + Digits[d], 0, digits)
      strict == /\ digits # <<>> /\ ToSet(digits) \subseteq DOMAIN Digits
                /\ digits[1] # "0" \/ s = <<"0">>
  IN IF ~strict \/ number > LLMax + (IF negative THEN 1 ELSE 0)
     THEN [ok |-> FALSE, v |-> 0]
     ELSE [ok |-> TRUE, v |-> IF negative THEN -number ELSE number]

-----------------------------------------------------------------------------
(* redisReaderGetReply.                                                    *)

Cur == rstack[Len(rstack)]

\* Where createStringObject and the others put the object of the current task.
Position == [k \in 1 .. Len(rstack) - 1 |-> rstack[k + 1].idx]

Create(node) == reply' = [p \in DOMAIN reply \cup {Position} |->
                            IF p = Position THEN node ELSE reply[p]]

\* The innermost array that has elements left gets its next task.
moveToNextTask ==
  LET open == {k \in 2 .. Len(rstack) : rstack[k].idx # rstack[k - 1].elements - 1}
  IN IF open = {} THEN <<>>
     ELSE [SubSeq(rstack, 1, Max(open)) EXCEPT ![Max(open)] = Task(@.idx + 1)]

\* __redisReaderSetError: the reader drops everything.
SetError ==
  /\ err' = TRUE /\ at' = "done"
  /\ buf' = <<>> /\ pos' = 0 /\ rstack' = <<>> /\ reply' = NoReply

\* An object is complete; the item loop goes on unless it was the last one.
Finish(node, end) ==
  /\ Create(node)
  /\ pos' = end
  /\ rstack' = moveToNextTask
  /\ at' = IF moveToNextTask = <<>> THEN "done" ELSE "items"
  /\ UNCHANGED <<buf, err>>

\* More bytes are needed: the task keeps its place.
Incomplete ==
  /\ at' = "done"
  /\ UNCHANGED <<buf, pos, rstack, reply, err>>

Item(types) == at = "items" /\ Cur.type \in types
Outside == UNCHANGED <<stream, wire, replies>>

\* redisReaderGetReply begins: with an empty buffer there is no reply.
redisReaderGetReply ==
  /\ at = "call"
  /\ IF err \/ buf = <<>> THEN at' = "done" /\ UNCHANGED rstack
     ELSE /\ at' = "items"
          /\ rstack' = IF rstack = <<>> THEN <<Task(-1)>> ELSE rstack
  /\ Outside /\ UNCHANGED <<buf, pos, reply, err>>

\* The first byte of an item is its type.
processItem ==
  /\ Item({"none"})
  /\ IF pos = Len(buf) THEN Incomplete
     ELSE IF buf[pos + 1] \notin DOMAIN Types THEN SetError
     ELSE /\ rstack' = [rstack EXCEPT ![Len(rstack)].type = Types[buf[pos + 1]]]
          /\ pos' = pos + 1
          /\ UNCHANGED <<buf, reply, err, at>>
  /\ Outside

processLineItem ==
  /\ Item({"error", "status", "integer"})
  /\ IF seekNewline = 0 THEN Incomplete
     ELSE IF Cur.type # "integer"
          THEN Finish([type |-> Cur.type, val |-> Line], seekNewline + 1)
     ELSE IF string2ll(Line).ok
          THEN Finish([type |-> "integer", val |-> <<string2ll(Line).v>>],
                      seekNewline + 1)
          ELSE SetError
  /\ Outside

BulkEnd_past(len) == seekNewline + 1 + len + 3

\* The end of a bulk string of this length and of the newline after it.
BulkEnd(len) == seekNewline + 1 + len + 2

processBulkItem ==
  /\ Item({"string"})
  /\ IF seekNewline = 0 THEN Incomplete
     ELSE LET number == string2ll(Line)
              len == number.v
              start == seekNewline + 2
          IN IF ~number.ok \/ len < -1 THEN SetError
             ELSE IF len = -1
                  THEN Finish([type |-> "nil", val |-> <<>>], seekNewline + 1)
             ELSE IF BulkEnd(len) <= Len(buf)
                  THEN Finish([type |-> "string",
                               val |-> SubSeq(buf, start, start + len - 1)],
                              BulkEnd(len))
                  ELSE Incomplete
  /\ Outside

\* The header of an array: an empty or nil one is complete.
processMultiBulkItem ==
  /\ Item({"array"})
  /\ IF Len(rstack) - 1 = MaxRidx THEN SetError
     ELSE IF seekNewline = 0 THEN Incomplete
     ELSE LET number == string2ll(Line)
              elements == number.v
          IN IF ~number.ok \/ elements < -1 \/ elements > IntMax THEN SetError
             ELSE IF elements <= 0
                  THEN Finish([type |-> IF elements = 0 THEN "array" ELSE "nil",
                               val |-> <<>>], seekNewline + 1)
             ELSE /\ Create([type |-> "array", val |-> <<elements>>])
                  /\ rstack' = Append([rstack EXCEPT ![Len(rstack)].elements =
                                         elements], Task(0))
                  /\ pos' = seekNewline + 1
                  /\ UNCHANGED <<buf, err, at>>
  /\ Outside

\* Consumed bytes are shifted out once there are enough of them.
Consume ==
  IF pos >= Discard THEN buf' = SubSeq(buf, pos + 1, Len(buf)) /\ pos' = 0
                    ELSE UNCHANGED <<buf, pos>>

\* The end of redisReaderGetReply: redisGetReply returns the object, fails, or
\* reads on.
GetReplyReturns ==
  /\ at = "done"
  /\ IF err THEN at' = "end" /\ UNCHANGED <<buf, pos, reply, replies>>
     ELSE /\ Consume
          /\ IF rstack = <<>> /\ reply # NoReply
             THEN /\ replies' = Append(replies, reply) /\ reply' = NoReply
                  /\ at' = "call"
             ELSE at' = "read" /\ UNCHANGED <<reply, replies>>
  /\ UNCHANGED <<stream, wire, rstack, err>>

\* redisBufferRead and redisReaderFeed.  The caller stops with the stream.
redisBufferRead ==
  /\ at = "read"
  /\ IF wire = <<>> THEN at' = "end" /\ UNCHANGED <<wire, buf>>
     ELSE /\ \E n \in 1 .. Min({MaxChunk, Len(wire)}) :
               /\ buf' = buf \o SubSeq(wire, 1, n)
               /\ wire' = SubSeq(wire, n + 1, Len(wire))
          /\ at' = "call"
  /\ UNCHANGED <<stream, pos, rstack, reply, err, replies>>

-----------------------------------------------------------------------------
Next ==
  \/ redisReaderGetReply \/ processItem \/ processLineItem \/ processBulkItem
  \/ processMultiBulkItem \/ GetReplyReturns \/ redisBufferRead

Spec == Init /\ [][Next]_vars
FairSpec == Spec /\ WF_vars(Next)

-----------------------------------------------------------------------------
(* Properties.                                                             *)

\* The replies returned are those sent, in order and whole, wherever read()
\* cut the bytes: nested arrays, nil and empty ones, and strings with newlines
\* in them (moveToNextTask, processBulkItem, the shift of the buffer).
RepliesAsSent == IsPrefix(replies, stream.replies)

\* redisGetReply blocks in read() only if no whole reply has come that it has
\* not returned.
NothingHeldBack ==
  at = "read" =>
    LET came == Len(stream.bytes) - Len(wire)
    IN \A k \in DOMAIN stream.ends : stream.ends[k] <= came => k <= Len(replies)

\* A stream that breaks the protocol ends in an error, and only such a stream:
\* every good reply before the bad bytes is returned, and none after them.
BadStreamsFail == at = "end" => err = stream.bad /\ replies = stream.replies

\* The assertions of moveToNextTask and of the create functions: tasks above
\* the root are elements of arrays that have room for them, and the stack
\* fits rstack.
AssertsHold ==
  /\ Len(rstack) <= MaxRidx + 1
  /\ \A k \in 2 .. Len(rstack) :
       rstack[k - 1].type = "array" /\ rstack[k].idx \in 0 .. rstack[k - 1].elements - 1

\* The parser comes to the end of every stream: no item is tried for ever.
StreamEnds == at = "items" ~> at = "end"
================================================================================
