-------------------------- MODULE EchoStreamProofs --------------------------
(***************************************************************************)
(* Proofs about EchoStream for every value of its constants: type          *)
(* correctness, the safety properties and the refinement of EchoAbs.  The  *)
(* inductive invariant comes first, then what each step does to it: types, *)
(* control flow, wakeups, the effect of the actions that change the        *)
(* queues, the ownership of the buffers, and the order of the requests.    *)
(***************************************************************************)
EXTENDS EchoStream, TLAPS

-----------------------------------------------------------------------------
(* The inductive invariant.  Its heart is that the unfinished requests lie *)
(* end to end on the client's stream: the first starts right after the     *)
(* Acc bytes that write_queue_size no longer counts, the last ends at the  *)
(* last byte read.                                                         *)

Acc == nread - wqsize

End(h, r) == First(h, r) + r.len

\* Where the thread may be in each state of the handle.
Control ==
  /\ pc \in {"read", "inline", "hup", "write"} => hstate = "open"
  /\ pc = "callbacks" => hstate \in {"open", "closed"}
  /\ pc = "flush" => hstate = "closed"
  /\ fed \/ pevents # {} => hstate = "open"
  /\ hstate = "closed" /\ pc # "flush" => wq = <<>>
  /\ hstate = "none" => wq = <<>> /\ cq = <<>>

\* Requests in the write queue lie end to end, up to the last byte read.
WqOrder ==
  /\ \A i \in DOMAIN wq :
       wq[i].len > 0 /\ First(heap, wq[i]) > Acc /\ End(heap, wq[i]) <= nread + 1
  /\ \A i, j \in DOMAIN wq : i < j => End(heap, wq[i]) <= First(heap, wq[j])
  /\ \A i \in DOMAIN wq : i + 1 \in DOMAIN wq => End(heap, wq[i]) = First(heap, wq[i + 1])
  /\ wq # <<>> => End(heap, wq[Len(wq)]) = nread + 1

\* In the completed queue the failed requests, whose bytes still count, come
\* last and lie end to end before the write queue.
CqOrder ==
  /\ \A i \in DOMAIN cq :
       cq[i].len > 0 => First(heap, cq[i]) > Acc /\ End(heap, cq[i]) <= nread + 1
  /\ \A i, j \in DOMAIN cq :
       i < j /\ cq[i].len > 0 => cq[j].len > 0 /\ End(heap, cq[i]) <= First(heap, cq[j])
  /\ \A i \in DOMAIN cq :
       i + 1 \in DOMAIN cq /\ cq[i].len > 0 => First(heap, cq[i + 1]) = End(heap, cq[i])
  /\ \A i \in DOMAIN cq, j \in DOMAIN wq :
       cq[i].len > 0 => End(heap, cq[i]) <= First(heap, wq[j])

\* The first byte that write_queue_size counts.
Heads ==
  /\ \A i \in DOMAIN cq :
       cq[i].len > 0 /\ (i = 1 \/ cq[i - 1].len = 0) => First(heap, cq[i]) = Acc + 1
  /\ (\A i \in DOMAIN cq : cq[i].len = 0)
       => IF wq = <<>> THEN Acc = nread ELSE First(heap, wq[1]) = Acc + 1
  /\ cq # <<>> /\ cq[Len(cq)].len > 0
       => IF wq = <<>> THEN End(heap, cq[Len(cq)]) = nread + 1
                       ELSE First(heap, wq[1]) = End(heap, cq[Len(cq)])

\* Before a reset no request fails and the accounted bytes are the output.
Sync ==
  peer # "reset" /\ hstate # "closed"
    => Acc = Len(out) /\ \A i \in DOMAIN cq : cq[i].len = 0

\* NoLostWakeup, and how the thread restores it before it returns.
Wakeup ==
  hstate = "open" =>
    /\ wq # <<>> => "OUT" \in pevents \/ fed \/ pc \in {"inline", "write"}
    /\ cq # <<>> => "OUT" \in pevents \/ fed \/ pc \in {"write", "callbacks"}

IInv ==
  /\ TypeOK /\ Control /\ BufferOwnership /\ WqOrder /\ CqOrder /\ Heads
  /\ Sync /\ EchoPrefix /\ Wakeup

-----------------------------------------------------------------------------
(* Sequences.                                                              *)

\* What Append returns.
LEMMA AppendFacts ==
  ASSUME NEW S, NEW s \in Seq(S), NEW e \in S
  PROVE  /\ Append(s, e) \in Seq(S)
         /\ Len(Append(s, e)) = Len(s) + 1
         /\ Append(s, e) # <<>>
         /\ \A i \in 1 .. Len(s) : Append(s, e)[i] = s[i]
         /\ Append(s, e)[Len(s) + 1] = e
  OBVIOUS

\* What Head and Tail return.
LEMMA TailFacts ==
  ASSUME NEW S, NEW s \in Seq(S), s # <<>>
  PROVE  /\ Head(s) = s[1] /\ s[1] \in S /\ Len(s) \in Nat \ {0}
         /\ Tail(s) \in Seq(S)
         /\ Len(Tail(s)) = Len(s) - 1
         /\ \A i \in 1 .. Len(s) - 1 : Tail(s)[i] = s[i + 1]
  OBVIOUS

\* What replacing the first element returns.
LEMMA FirstFacts ==
  ASSUME NEW S, NEW s \in Seq(S), s # <<>>, NEW e \in S
  PROVE  /\ [s EXCEPT ![1] = e] \in Seq(S)
         /\ Len([s EXCEPT ![1] = e]) = Len(s)
         /\ [s EXCEPT ![1] = e] # <<>>
         /\ [s EXCEPT ![1] = e][1] = e
         /\ \A i \in 2 .. Len(s) : [s EXCEPT ![1] = e][i] = s[i]
  OBVIOUS

\* What a function with domain 1 .. n is as a sequence.
LEMMA FunctionFacts ==
  ASSUME NEW S, NEW n \in Nat, NEW f \in [1 .. n -> S]
  PROVE  f \in Seq(S) /\ Len(f) = n
  OBVIOUS

-----------------------------------------------------------------------------
(* Control flow of the shared operators, expanded once.                    *)

\* The thread's position after uv__write.
LEMMA AfterWriteStep ==
  ASSUME TypeOK, Writing, AfterWrite
  PROVE  /\ pc' \in {"read", "hup", "callbacks"}
         /\ phase' = phase
         /\ pc = "write" <=> pc' = "callbacks"
  BY Zenon DEF TypeOK, Writing, AfterWrite, AfterReadCb, Goto

\* The head of the write queue is no longer than write_queue_size.
LEMMA HeadFits ==
  ASSUME TypeOK, WqOrder, wq # <<>>
  PROVE  /\ Head(wq) = wq[1] /\ 1 \in DOMAIN wq /\ wq[1] \in Req
         /\ wq[1].len > 0 /\ wqsize >= wq[1].len
  <1>1. Head(wq) = wq[1] /\ 1 \in DOMAIN wq /\ wq[1] \in Req
    BY DEF TypeOK
  <1>2. First(heap, wq[1]) \in Nat
    BY <1>1 DEF TypeOK, First, Req
  <1>3. wq[1].len > 0 /\ First(heap, wq[1]) > Acc /\ End(heap, wq[1]) <= nread + 1
    BY <1>1, Zenon DEF WqOrder
  <1>4. wq[1].len \in Nat /\ nread \in Nat /\ wqsize \in Nat
    BY <1>1 DEF TypeOK, Req
  <1> QED
    BY <1>1, <1>2, <1>3, <1>4 DEF Acc, End

\* What advancing or failing a request leaves and changes.
LEMMA AdvanceFacts ==
  ASSUME NEW r \in Req, NEW n \in Nat, n <= r.len
  PROVE  /\ Advance(r, n) \in Req
         /\ Advance(r, n).buf = r.buf
         /\ Advance(r, n).off = r.off + n
         /\ Advance(r, n).len = r.len - n
  <1>1. r.off + n \in Nat /\ r.len - n \in Nat
    BY DEF Req
  <1> QED
    BY <1>1, Zenon DEF Advance, Req

\* Recording an error in a request (uv__write's error branch) keeps its bytes.
LEMMA FailFacts ==
  ASSUME NEW r \in Req
  PROVE  /\ Fail(r) \in Req
         /\ Fail(r).buf = r.buf /\ Fail(r).off = r.off /\ Fail(r).len = r.len
  BY Zenon DEF Fail, Req

\* Positions are natural numbers.
LEMMA FirstType ==
  ASSUME TypeOK, NEW r \in Req
  PROVE  First(heap, r) \in Nat /\ r.len \in Nat /\ r.off \in Nat
  BY DEF TypeOK, First, Req

\* What a successful write() does to the output and to the head request.
LEMMA WriteSomeEffect ==
  ASSUME TypeOK, WqOrder, WriteSome
  PROVE  \E n \in Nat \ {0} :
           /\ wq # <<>> /\ n <= wq[1].len /\ n <= wqsize
           /\ wqsize' = wqsize - n
           /\ out' \in Seq(Nat) /\ Len(out') = Len(out) + n
           /\ \A i \in 1 .. Len(out) : out'[i] = out[i]
           /\ \A i \in Len(out) + 1 .. Len(out) + n :
                out'[i] = First(heap, wq[1]) + (i - Len(out) - 1)
           /\ Advance(wq[1], n) \in Req
           /\ \/ /\ n < wq[1].len
                 /\ wq' = [wq EXCEPT ![1] = Advance(wq[1], n)]
                 /\ pevents' = pevents \cup {"OUT"}
                 /\ UNCHANGED <<cq, fed>>
              \/ /\ n = wq[1].len
                 /\ wq' = Tail(wq)
                 /\ cq' = Append(cq, Advance(wq[1], n))
                 /\ fed' = TRUE
                 /\ UNCHANGED pevents
  <1> DEFINE r == wq[1]
  <1>1. /\ wq # <<>> /\ Head(wq) = r
        /\ r \in Req /\ r.len \in Nat /\ r.off \in Nat /\ r.len <= wqsize
    BY HeadFits, Zenon DEF WriteSome, Req
  <1>2. PICK n \in 1 .. MinOf(r.len, Writable) :
          /\ out' = Written(r, n)
          /\ wqsize' = wqsize - n
          /\ IF n < r.len
             THEN /\ wq' = [wq EXCEPT ![1] = Advance(r, n)]
                  /\ uv__io_start("OUT")
                  /\ UNCHANGED <<cq, fed>>
             ELSE /\ uv__write_req_finish(Advance(r, n))
                  /\ UNCHANGED pevents
    BY <1>1, Zenon DEF WriteSome
  <1>3. First(heap, r) \in Nat
    BY <1>1, FirstType, Zenon
  <1> HIDE DEF r
  <1>4. Writable \in Int /\ wqsize \in Nat /\ out \in Seq(Nat) /\ Len(out) \in Nat
    BY ConstantsAssumption DEF Writable, TypeOK
  <1>5. MinOf(r.len, Writable) \in Int /\ MinOf(r.len, Writable) <= r.len
    BY <1>1, <1>4 DEF MinOf
  <1>6. n \in Nat \ {0} /\ n <= r.len /\ n <= wqsize
    BY <1>1, <1>2, <1>4, <1>5
  <1>7. Advance(r, n) \in Req
    BY <1>1, <1>6, AdvanceFacts, Zenon
  <1>8. out' \in [1 .. Len(out) + n -> Nat]
    <2> SUFFICES ASSUME NEW i \in 1 .. Len(out) + n
                 PROVE  (IF i <= Len(out) THEN out[i]
                         ELSE First(heap, r) + (i - Len(out) - 1)) \in Nat
      BY <1>2, Zenon DEF Written
    <2>1. CASE i <= Len(out)
      BY <2>1, <1>4
    <2>2. CASE ~(i <= Len(out))
      BY <2>2, <1>3, <1>4, <1>6
    <2> QED BY <2>1, <2>2, Zenon
  <1>9. out' \in Seq(Nat) /\ Len(out') = Len(out) + n
    <2>1. Len(out) + n \in Nat
      BY <1>4, <1>6
    <2> QED BY <2>1, <1>8, FunctionFacts, Zenon
  <1>10. \A i \in 1 .. Len(out) : out'[i] = out[i]
    BY <1>2, <1>4, <1>6 DEF Written
  <1>11. \A i \in Len(out) + 1 .. Len(out) + n :
           out'[i] = First(heap, r) + (i - Len(out) - 1)
    BY <1>2, <1>4, <1>6 DEF Written
  <1>12. \/ /\ n < r.len
            /\ wq' = [wq EXCEPT ![1] = Advance(r, n)]
            /\ pevents' = pevents \cup {"OUT"}
            /\ UNCHANGED <<cq, fed>>
         \/ /\ n = r.len
            /\ wq' = Tail(wq)
            /\ cq' = Append(cq, Advance(r, n))
            /\ fed' = TRUE
            /\ UNCHANGED pevents
    BY <1>1, <1>2, <1>6 DEF uv__io_start, uv__write_req_finish, uv__io_feed
  <1> QED
    BY <1>1, <1>2, <1>6, <1>7, <1>9, <1>10, <1>11, <1>12, Zenon DEF r

\* A request that fails or is cancelled moves from one queue to the other.
MoveHead ==
  /\ wq # <<>>
  /\ wq' = Tail(wq)
  /\ cq' = Append(cq, Fail(wq[1]))
  /\ UNCHANGED <<nread, out, wqsize, heap>>

\* A write that fails moves the first request to the completed queue.
LEMMA WriteErrorEffect ==
  ASSUME TypeOK, WqOrder, WriteError
  PROVE  /\ MoveHead /\ Fail(wq[1]) \in Req
         /\ fed' = TRUE /\ pevents' = pevents \ {"OUT"} /\ peer = "reset"
  <1>1. Head(wq) = wq[1] /\ wq[1] \in Req
    BY HeadFits, Zenon DEF WriteError
  <1> QED
    BY <1>1, Zenon DEF WriteError, MoveHead, uv__write_req_finish, uv__io_feed,
                uv__io_stop, Fail, Req

\* One turn of uv__stream_flush_write_queue's loop does the same.
LEMMA FlushEffect ==
  ASSUME TypeOK, WqOrder, uv__stream_flush_write_queue, wq # <<>>
  PROVE  MoveHead /\ Fail(wq[1]) \in Req /\ pc' = pc
  <1>1. Head(wq) = wq[1] /\ wq[1] \in Req
    BY HeadFits, Zenon
  <1> QED
    BY <1>1, Zenon DEF uv__stream_flush_write_queue, MoveHead, Fail, Req

\* Types of the queues after a move.
LEMMA MoveHeadType ==
  ASSUME TypeOK, MoveHead, Fail(wq[1]) \in Req
  PROVE  wq' \in Seq(Req) /\ cq' \in Seq(Req)
  <1>1. wq \in Seq(Req) /\ cq \in Seq(Req)
    BY Zenon DEF TypeOK
  <1> QED
    BY <1>1, TailFacts, AppendFacts, Zenon DEF MoveHead

\* What one turn of uv__write_callbacks takes off write_queue_size.
LEMMA CallbackEffect ==
  ASSUME TypeOK, CqOrder, write_cb
  PROVE  /\ cq # <<>> /\ cq' = Tail(cq) /\ cq[1] \in Req
         /\ wqsize' = wqsize - cq[1].len /\ wqsize' \in Nat
         /\ heap' = [heap EXCEPT ![cq[1].buf] = 0]
         /\ UNCHANGED <<wq, nread, out>>
  <1>1. cq \in Seq(Req) /\ cq # <<>> /\ wqsize \in Nat /\ nread \in Nat
    BY DEF write_cb, TypeOK
  <1>2. Head(cq) = cq[1] /\ cq[1] \in Req /\ 1 \in DOMAIN cq
    BY <1>1
  <1>3. First(heap, cq[1]) \in Nat /\ cq[1].len \in Nat
    BY <1>2 DEF First, TypeOK, Req
  <1>4. cq[1].len > 0 => First(heap, cq[1]) > Acc /\ End(heap, cq[1]) <= nread + 1
    BY <1>2, Zenon DEF CqOrder
  <1>5. cq[1].len <= wqsize
    BY <1>1, <1>3, <1>4 DEF Acc, End
  <1>6. wqsize - cq[1].len \in Nat
    BY <1>1, <1>3, <1>5
  <1> QED
    BY <1>1, <1>2, <1>6, Zenon DEF write_cb

-----------------------------------------------------------------------------
(* Type correctness.                                                       *)

\* Every step of the client, the kernel or the loop thread keeps the types;
\* write_queue_size never goes below zero.
LEMMA TypeStep ==
  ASSUME TypeOK, WqOrder, CqOrder, Next
  PROVE  TypeOK'
  <1> USE ConstantsAssumption
  <1>1. CASE ClientConnect
    BY <1>1 DEF TypeOK, ClientConnect, server
  <1>2. CASE ClientSend
    BY <1>2 DEF TypeOK, ClientSend, server
  <1>3. CASE ClientRecv
    BY <1>3 DEF TypeOK, ClientRecv, server
  <1>4. CASE ClientShutdown
    BY <1>4 DEF TypeOK, ClientShutdown, server
  <1>5. CASE ClientReset
    BY <1>5 DEF TypeOK, ClientReset, server
  <1>6. CASE uv__run_pending
    BY <1>6, ZenonT(60) DEF TypeOK, uv__run_pending, Goto, At, client, flags, queues
  <1>7. CASE on_new_connection
    BY <1>7, Zenon DEF TypeOK, on_new_connection, At, client, flags, queues
  <1>8. CASE uv__io_poll
    <2>1. ev' \in SUBSET {"IN", "OUT", "HUP"}
      BY <1>8, Zenon DEF TypeOK, uv__io_poll, Ready
    <2>2. pc' \in {"read", "hup"} /\ phase' = phase
      BY <1>8, Zenon DEF uv__io_poll, Goto
    <2>3. \/ partial' = FALSE /\ count' = ReadCount
          \/ partial' = partial /\ count' = count
      BY <1>8, Zenon DEF uv__io_poll
    <2>4. partial' \in BOOLEAN
      BY <2>3, Zenon DEF TypeOK
    <2>5. count' \in 0 .. ReadCount
      BY <2>3 DEF TypeOK
    <2> QED
      BY <1>8, <2>1, <2>2, <2>4, <2>5 DEF TypeOK, uv__io_poll, client, flags, queues
  <1>9. CASE uv__io_poll_timeout
    BY <1>9, Zenon DEF TypeOK, uv__io_poll_timeout, At, client, flags, queues
  <1>10. CASE uv__run_closing_handles
    BY <1>10, Zenon DEF TypeOK, uv__run_closing_handles, Goto, At, client, queues
  <1>11. CASE ReadData
    <2> DEFINE n == MinOf(Available, BufLen)
    <2>1. n \in Nat \ {0} /\ n <= Available
      BY <1>11 DEF ReadData, MinOf, Available, TypeOK
    <2>2. PICK b \in Buffers :
            /\ heap[b] = 0
            /\ read_cb_keeps(b)
            /\ uv_write(b, n)
            /\ nread' = nread + n
            /\ partial' = (n < BufLen)
            /\ IF wqsize = 0
               THEN /\ Goto("inline")
                    /\ UNCHANGED pevents
               ELSE /\ uv__io_start("OUT")
                    /\ AfterReadCb(n < BufLen)
      BY <1>11, Zenon DEF ReadData
    <2> HIDE DEF n
    <2>3. heap' \in [Buffers -> Nat]
      BY <2>2 DEF read_cb_keeps, TypeOK
    <2>4. wq' \in Seq(Req) /\ wqsize' \in Nat
      BY <2>1, <2>2 DEF uv_write, TypeOK, Req
    <2>5. nread' \in 0 .. sent /\ count' \in 0 .. ReadCount
      BY <1>11, <2>1, <2>2 DEF ReadData, ReadTurn, TypeOK, Available
    <2>6. pevents' \in SUBSET {"IN", "OUT"} /\ pc' \in {"inline", "read", "hup"}
          /\ phase' = phase
      BY <2>2, Zenon DEF uv__io_start, AfterReadCb, Goto, TypeOK
    <2> QED
      BY <1>11, <2>2, <2>3, <2>4, <2>5, <2>6
         DEF ReadData, TypeOK, client, flags
  <1>12. CASE ReadAgain
    BY <1>12, Zenon DEF TypeOK, ReadAgain, Goto, client, flags, queues, uv__io_start
  <1>13. CASE ReadEnd
    BY <1>13, Zenon DEF TypeOK, ReadEnd, StreamIoReturn, uv_close, client, queues
  <1>14. CASE ReadStop
    BY <1>14 DEF TypeOK, ReadStop, Goto, client, flags, queues
  <1>15. CASE uv__stream_io_hup
    BY <1>15, ZenonT(60)
       DEF TypeOK, uv__stream_io_hup, StreamIoReturn, Goto, uv_close, client,
           flags, queues
  <1>16. CASE WriteNothing
    BY <1>16, AfterWriteStep DEF TypeOK, WriteNothing, client, flags, queues
  <1>17. CASE WriteSome
    <2>1. /\ wqsize' \in Nat /\ out' \in Seq(Nat) /\ Len(out') >= Len(out)
          /\ pevents' \in SUBSET {"IN", "OUT"} /\ fed' \in BOOLEAN
      <3>1. wqsize \in Nat /\ out \in Seq(Nat) /\ Len(out) \in Nat
            /\ pevents \in SUBSET {"IN", "OUT"} /\ fed \in BOOLEAN
        BY DEF TypeOK
      <3>2. PICK n \in Nat \ {0} :
              /\ n <= wqsize /\ wqsize' = wqsize - n
              /\ out' \in Seq(Nat) /\ Len(out') = Len(out) + n
              /\ \/ pevents' = pevents \cup {"OUT"} /\ fed' = fed
                 \/ pevents' = pevents /\ fed' = TRUE
        BY <1>17, WriteSomeEffect, Zenon
      <3>3. wqsize' \in Nat /\ Len(out') >= Len(out)
        BY <3>1, <3>2
      <3>4. pevents' \in SUBSET {"IN", "OUT"} /\ fed' \in BOOLEAN
        BY <3>1, <3>2, Zenon
      <3> QED
        BY <3>2, <3>3, <3>4, Zenon
    <2>2. wq' \in Seq(Req) /\ cq' \in Seq(Req)
      <3>1. wq \in Seq(Req) /\ cq \in Seq(Req)
        BY Zenon DEF TypeOK
      <3>2. PICK n \in Nat \ {0} :
              /\ wq # <<>> /\ Advance(wq[1], n) \in Req
              /\ \/ /\ wq' = [wq EXCEPT ![1] = Advance(wq[1], n)]
                    /\ cq' = cq
                 \/ /\ wq' = Tail(wq)
                    /\ cq' = Append(cq, Advance(wq[1], n))
        BY <1>17, WriteSomeEffect, Zenon
      <3>3. CASE wq' = [wq EXCEPT ![1] = Advance(wq[1], n)] /\ cq' = cq
        BY <3>1, <3>2, <3>3, FirstFacts, Zenon
      <3>4. CASE wq' = Tail(wq) /\ cq' = Append(cq, Advance(wq[1], n))
        BY <3>1, <3>2, <3>4, TailFacts, AppendFacts, Zenon
      <3> QED
        BY <3>2, <3>3, <3>4, Zenon
    <2>3. pc' \in {"read", "hup", "callbacks"} /\ phase' = phase
      BY <1>17, AfterWriteStep, Zenon DEF WriteSome
    <2>4. consumed' \in 0 .. Len(out')
      BY <1>17, <2>1 DEF WriteSome, TypeOK, client
    <2> QED
      BY <1>17, <2>1, <2>2, <2>3, <2>4, ZenonT(40) DEF WriteSome, TypeOK, client, flags
  <1>18. CASE WriteAgain
    BY <1>18, AfterWriteStep DEF TypeOK, WriteAgain, uv__io_start, client,
                                 flags, queues
  <1>19. CASE WriteError
    <2>1. wq' \in Seq(Req) /\ cq' \in Seq(Req) /\ fed' = TRUE
      BY <1>19, WriteErrorEffect, MoveHeadType, Zenon
    <2>2. pc' \in {"read", "hup", "callbacks"} /\ phase' = phase
      BY <1>19, AfterWriteStep, Zenon DEF WriteError
    <2> QED
      BY <1>19, <2>1, <2>2, ZenonT(40) DEF WriteError, uv__io_stop, TypeOK, client, flags
  <1>20. CASE Sigpipe
    BY <1>20 DEF TypeOK, Sigpipe, client, flags, queues
  <1>21. CASE write_cb
    <2>1. wqsize' \in Nat
      BY <1>21, CallbackEffect, Zenon
    <2>2. cq' \in Seq(Req)
      BY <1>21, TailFacts, Zenon DEF write_cb, TypeOK
    <2>3. heap' \in [Buffers -> Nat]
      BY <1>21, Zenon DEF write_cb, TypeOK
    <2> QED
      BY <1>21, <2>1, <2>2, <2>3 DEF write_cb, TypeOK, client, flags
  <1>22. CASE CallbacksDone
    BY <1>22, ZenonT(60)
       DEF TypeOK, CallbacksDone, StreamIoReturn, uv__io_stop, client, flags,
           queues
  <1>23. CASE uv__stream_flush_write_queue
    <2>1. CASE wq = <<>>
      BY <1>23, <2>1 DEF uv__stream_flush_write_queue, TypeOK, client, flags
    <2>2. CASE wq # <<>>
      <3>1. wq' \in Seq(Req) /\ cq' \in Seq(Req)
        BY <1>23, <2>2, FlushEffect, MoveHeadType, Zenon
      <3> QED
        BY <1>23, <2>2, <3>1 DEF uv__stream_flush_write_queue, TypeOK, client,
                                 flags
    <2> QED BY <2>1, <2>2, Zenon
  <1> QED
    BY <1>1, <1>2, <1>3, <1>4, <1>5, <1>6, <1>7, <1>8, <1>9, <1>10, <1>11,
       <1>12, <1>13, <1>14, <1>15, <1>16, <1>17, <1>18, <1>19, <1>20, <1>21,
       <1>22, <1>23, Zenon DEF Next, Client, Loop
-----------------------------------------------------------------------------
(* Control flow.                                                           *)

\* Every step keeps Control: what holds at each place the thread can be in.
LEMMA ControlStep ==
  ASSUME TypeOK, WqOrder, CqOrder, Control, Next
  PROVE  Control'
  <1>1. CASE Client
    BY <1>1 DEF Control, Client, ClientConnect, ClientSend, ClientRecv,
                ClientShutdown, ClientReset, server
  <1>2. CASE uv__run_pending
    BY <1>2, Zenon DEF Control, uv__run_pending, Goto, At, flags, queues
  <1>3. CASE on_new_connection
    BY <1>3, Zenon DEF Control, on_new_connection, At, queues
  <1>4. CASE uv__io_poll
    BY <1>4, Zenon DEF Control, uv__io_poll, Goto, At, flags, queues
  <1>5. CASE uv__io_poll_timeout
    BY <1>5, Zenon DEF Control, uv__io_poll_timeout, At, flags, queues
  <1>6. CASE uv__run_closing_handles
    BY <1>6, Zenon DEF Control, uv__run_closing_handles, Goto, At, queues
  <1>7. CASE ReadData
    <2>1. UNCHANGED <<hstate, fed>> /\ pc' \in {"inline", "read", "hup"}
      BY <1>7, Zenon DEF ReadData, flags, Goto, AfterReadCb
    <2>2. hstate = "open"
      BY <1>7, Zenon DEF ReadData, ReadTurn, In, Control
    <2> QED BY <2>1, <2>2, Zenon DEF Control
  <1>8. CASE ReadAgain
    BY <1>8, Zenon DEF Control, ReadAgain, ReadTurn, In, Goto, flags, queues
  <1>9. CASE ReadEnd
    BY <1>9, Zenon DEF Control, ReadEnd, StreamIoReturn, uv_close, queues
  <1>10. CASE ReadStop
    BY <1>10, Zenon DEF Control, ReadStop, In, Goto, flags, queues
  <1>11. CASE uv__stream_io_hup
    BY <1>11, Zenon DEF Control, uv__stream_io_hup, In, StreamIoReturn, Goto,
                 uv_close, flags, queues
  <1>12. CASE WriteNothing \/ WriteSome \/ WriteAgain \/ WriteError
    <2>1. hstate = "open" /\ hstate' = "open"
      BY <1>12, Zenon DEF WriteNothing, WriteSome, WriteAgain, WriteError, Writing,
                   Control, flags
    <2>2. pc' \in {"read", "hup", "callbacks"}
      BY <1>12, AfterWriteStep, Zenon DEF WriteNothing, WriteSome, WriteAgain,
                                   WriteError
    <2> QED BY <2>1, <2>2, Zenon DEF Control
  <1>13. CASE Sigpipe
    BY <1>13, Zenon DEF Control, Sigpipe, flags, queues
  <1>14. CASE write_cb
    BY <1>14, Zenon DEF Control, write_cb, In, flags
  <1>15. CASE CallbacksDone
    BY <1>15, Zenon DEF Control, CallbacksDone, In, StreamIoReturn, uv__io_stop, flags,
                 queues
  <1>16. CASE uv__stream_flush_write_queue
    BY <1>16, Zenon DEF Control, uv__stream_flush_write_queue, In, flags
  <1> QED
    BY <1>1, <1>2, <1>3, <1>4, <1>5, <1>6, <1>7, <1>8, <1>9, <1>10, <1>11,
       <1>12, <1>13, <1>14, <1>15, <1>16, Zenon DEF Next, Loop

\* The wakeup discipline: uv__write_req_finish feeds the watcher, a blocked
\* write arms POLLOUT.
LEMMA WakeupStep ==
  ASSUME TypeOK, WqOrder, CqOrder, Control, Wakeup, Next
  PROVE  Wakeup'
  <1>1. CASE Client
    BY <1>1, Zenon DEF Wakeup, Client, ClientConnect, ClientSend, ClientRecv,
                ClientShutdown, ClientReset, server
  <1>2. CASE uv__run_pending
    BY <1>2, Zenon DEF Wakeup, uv__run_pending, Goto, At, flags, queues
  <1>3. CASE on_new_connection
    BY <1>3, Zenon DEF Wakeup, Control, on_new_connection, At, queues
  <1>4. CASE uv__io_poll
    BY <1>4, Zenon DEF Wakeup, uv__io_poll, Goto, At, flags, queues
  <1>5. CASE uv__io_poll_timeout
    BY <1>5, Zenon DEF Wakeup, uv__io_poll_timeout, At, flags, queues
  <1>6. CASE uv__run_closing_handles
    BY <1>6, Zenon DEF Wakeup, uv__run_closing_handles, Goto, At, queues
  <1>7. CASE ReadData
    <2>1. \/ pc' = "inline" /\ pevents' = pevents
          \/ pevents' = pevents \cup {"OUT"}
      BY <1>7, Zenon DEF ReadData, Goto, uv__io_start
    <2>2. UNCHANGED <<cq, fed>> /\ pc = "read" /\ hstate' = hstate
      BY <1>7, Zenon DEF ReadData, ReadTurn, In, flags
    <2> QED BY <2>1, <2>2, Zenon DEF Wakeup
  <1>8. CASE ReadAgain
    BY <1>8, Zenon DEF Wakeup, ReadAgain, ReadTurn, In, Goto, uv__io_start, flags,
                queues
  <1>9. CASE ReadEnd
    BY <1>9, Zenon DEF Wakeup, ReadEnd, uv_close
  <1>10. CASE ReadStop
    BY <1>10, Zenon DEF Wakeup, ReadStop, In, Goto, flags, queues
  <1>11. CASE uv__stream_io_hup
    BY <1>11, Zenon DEF Wakeup, uv__stream_io_hup, In, StreamIoReturn, Goto, uv_close,
                 flags, queues
  <1>12. CASE WriteNothing
    BY <1>12, AfterWriteStep, Zenon DEF Wakeup, WriteNothing, Writing, flags, queues
  <1>13. CASE WriteSome
    <2>1. \/ "OUT" \in pevents'
          \/ fed' = TRUE
      BY <1>13, WriteSomeEffect, Zenon
    <2> QED BY <2>1, Zenon DEF Wakeup
  <1>14. CASE WriteAgain
    BY <1>14, Zenon DEF Wakeup, WriteAgain, uv__io_start
  <1>15. CASE WriteError
    BY <1>15, Zenon DEF Wakeup, WriteError, uv__write_req_finish, uv__io_feed
  <1>16. CASE Sigpipe
    BY <1>16, Zenon DEF Wakeup, Sigpipe, flags, queues
  <1>17. CASE write_cb
    BY <1>17, Zenon DEF Wakeup, write_cb, In, flags
  <1>18. CASE CallbacksDone
    BY <1>18, Zenon DEF Wakeup, CallbacksDone, In, flags, queues
  <1>19. CASE uv__stream_flush_write_queue
    BY <1>19, Zenon DEF Wakeup, Control, uv__stream_flush_write_queue, In, flags
  <1> QED
    BY <1>1, <1>2, <1>3, <1>4, <1>5, <1>6, <1>7, <1>8, <1>9, <1>10, <1>11,
       <1>12, <1>13, <1>14, <1>15, <1>16, <1>17, <1>18, <1>19, Zenon DEF Next, Loop
-----------------------------------------------------------------------------
(* The queues.  Five actions change them; all others leave them alone.     *)

QueueFrame == UNCHANGED <<nread, wq, cq, wqsize, heap>>

\* Every step of Next leaves the queues alone or is one of the five.
LEMMA QueueCases ==
  ASSUME Next
  PROVE  \/ QueueFrame
         \/ ReadData
         \/ WriteSome
         \/ WriteError
         \/ write_cb
         \/ uv__stream_flush_write_queue /\ wq # <<>>
  <1>1. CASE Client
    BY <1>1, Zenon DEF Client, ClientConnect, ClientSend, ClientRecv,
                ClientShutdown, ClientReset, server, QueueFrame
  <1>2. CASE \/ uv__run_pending \/ on_new_connection \/ uv__io_poll
             \/ uv__io_poll_timeout \/ uv__run_closing_handles
    BY <1>2, Zenon DEF uv__run_pending, on_new_connection, uv__io_poll,
                uv__io_poll_timeout, uv__run_closing_handles, queues, QueueFrame
  <1>3. CASE \/ ReadAgain \/ ReadEnd \/ ReadStop \/ uv__stream_io_hup
             \/ WriteNothing \/ WriteAgain \/ Sigpipe \/ CallbacksDone
    BY <1>3, Zenon DEF ReadAgain, ReadEnd, ReadStop, uv__stream_io_hup, WriteNothing,
                WriteAgain, Sigpipe, CallbacksDone, queues, QueueFrame
  <1>4. CASE uv__stream_flush_write_queue /\ wq = <<>>
    BY <1>4, Zenon DEF uv__stream_flush_write_queue, QueueFrame
  <1> QED
    BY <1>1, <1>2, <1>3, <1>4, Zenon DEF Next, Loop

\* What a read that returned data does to the queue.
LEMMA ReadDataEffect ==
  ASSUME TypeOK, ReadData
  PROVE  \E n \in Nat \ {0}, b \in Buffers, r \in Req :
           /\ r.buf = b /\ r.off = 0 /\ r.len = n
           /\ heap[b] = 0
           /\ heap' = [heap EXCEPT ![b] = nread + 1]
           /\ wq' = Append(wq, r)
           /\ wqsize' = wqsize + n
           /\ nread' = nread + n
           /\ UNCHANGED <<cq, out>>
  <1> DEFINE n == MinOf(Available, BufLen)
             r(b) == [buf |-> b, off |-> 0, len |-> n, error |-> FALSE]
  <1>1. n \in Nat \ {0}
    BY ConstantsAssumption DEF ReadData, MinOf, Available, TypeOK
  <1>2. PICK b \in Buffers :
          /\ heap[b] = 0
          /\ read_cb_keeps(b)
          /\ uv_write(b, n)
          /\ nread' = nread + n
    BY Zenon DEF ReadData
  <1> HIDE DEF n
  <1>3. r(b) \in Req /\ r(b).buf = b /\ r(b).off = 0 /\ r(b).len = n
    BY <1>1, Zenon DEF Req
  <1>4. UNCHANGED <<cq, out>>
    BY Zenon DEF ReadData
  <1>5. /\ heap' = [heap EXCEPT ![b] = nread + 1]
        /\ wq' = Append(wq, r(b)) /\ wqsize' = wqsize + n
    BY <1>2, Zenon DEF read_cb_keeps, uv_write
  <1> HIDE DEF r
  <1> QED
    BY <1>1, <1>2, <1>3, <1>4, <1>5, Zenon

-----------------------------------------------------------------------------
(* Ownership of the buffers.                                               *)

\* The buffers of a queue before and after Tail and Append.
Owns(s, b) == \E i \in DOMAIN s : s[i].buf = b

\* Taking the first request off a queue gives up its buffer and no other.
LEMMA TailOwns ==
  ASSUME NEW s \in Seq(Req), s # <<>>, NEW b
  PROVE  Owns(s, b) <=> b = s[1].buf \/ Owns(Tail(s), b)
  <1> DEFINE t == Tail(s)
  <1>1. /\ DOMAIN s = 1 .. Len(s) /\ Len(s) \in Nat \ {0}
        /\ DOMAIN t = 1 .. Len(s) - 1
        /\ \A i \in 1 .. Len(s) - 1 : t[i] = s[i + 1]
    BY TailFacts
  <1> HIDE DEF t
  <1>2. ASSUME NEW i \in DOMAIN s, s[i].buf = b, i # 1
        PROVE  Owns(t, b)
    <2>1. i - 1 \in DOMAIN t /\ (i - 1) + 1 = i
      BY <1>1, <1>2
    <2>2. t[i - 1].buf = b
      BY <1>1, <1>2, <2>1, Zenon
    <2> QED BY <2>1, <2>2, Zenon DEF Owns
  <1>3. ASSUME NEW i \in DOMAIN t, t[i].buf = b
        PROVE  Owns(s, b)
    <2>1. i + 1 \in DOMAIN s /\ s[i + 1].buf = b
      BY <1>1, <1>3
    <2> QED BY <2>1, Zenon DEF Owns
  <1>4. 1 \in DOMAIN s
    BY <1>1
  <1> QED
    BY <1>2, <1>3, <1>4, Zenon DEF Owns, t

\* Queueing a request adds its buffer and no other.
LEMMA AppendOwns ==
  ASSUME NEW s \in Seq(Req), NEW r \in Req, NEW b
  PROVE  Owns(Append(s, r), b) <=> b = r.buf \/ Owns(s, b)
  <1> DEFINE t == Append(s, r)
  <1>1. /\ DOMAIN s = 1 .. Len(s) /\ Len(s) \in Nat
        /\ DOMAIN t = 1 .. Len(s) + 1
        /\ \A i \in 1 .. Len(s) : t[i] = s[i]
        /\ t[Len(s) + 1] = r
    BY AppendFacts
  <1> HIDE DEF t
  <1>2. ASSUME NEW i \in DOMAIN t, t[i].buf = b, b # r.buf
        PROVE  Owns(s, b)
    <2>1. i \in DOMAIN s /\ s[i].buf = b
      BY <1>1, <1>2
    <2> QED BY <2>1, Zenon DEF Owns
  <1>3. ASSUME NEW i \in DOMAIN s, s[i].buf = b
        PROVE  Owns(t, b)
    <2>1. i \in DOMAIN t /\ t[i].buf = b
      BY <1>1, <1>3
    <2> QED BY <2>1, Zenon DEF Owns
  <1>4. Len(s) + 1 \in DOMAIN t
    BY <1>1
  <1> QED
    BY <1>1, <1>2, <1>3, <1>4, Zenon DEF Owns, t

\* A request that moves from one queue to the other takes its buffer along.
LEMMA MoveOwnership ==
  ASSUME wq \in Seq(Req), cq \in Seq(Req), wq # <<>>, BufferOwnership,
         NEW r \in Req, r.buf = wq[1].buf,
         wq' = Tail(wq), cq' = Append(cq, r), heap' = heap
  PROVE  BufferOwnership'
  <1>1. /\ DOMAIN wq = 1 .. Len(wq) /\ Len(wq) \in Nat \ {0}
        /\ DOMAIN wq' = 1 .. Len(wq) - 1
        /\ \A i \in 1 .. Len(wq) - 1 : wq'[i] = wq[i + 1]
    BY TailFacts
  <1>2. /\ DOMAIN cq = 1 .. Len(cq) /\ Len(cq) \in Nat
        /\ DOMAIN cq' = 1 .. Len(cq) + 1
        /\ \A i \in 1 .. Len(cq) : cq'[i] = cq[i]
        /\ cq'[Len(cq) + 1].buf = wq[1].buf
    BY AppendFacts
  <1>3. \A i, j \in DOMAIN wq' : i # j => wq'[i].buf # wq'[j].buf
    BY <1>1 DEF BufferOwnership
  <1>4. \A i, j \in DOMAIN cq' : i # j => cq'[i].buf # cq'[j].buf
    BY <1>1, <1>2 DEF BufferOwnership
  <1>5. ASSUME NEW i \in DOMAIN cq', NEW j \in DOMAIN wq'
        PROVE  cq'[i].buf # wq'[j].buf
    <2>1. /\ j + 1 \in DOMAIN wq /\ 1 \in DOMAIN wq /\ j + 1 # 1
          /\ wq'[j] = wq[j + 1]
      BY <1>1
    <2>2. \/ i \in DOMAIN cq /\ cq'[i] = cq[i]
          \/ cq'[i].buf = wq[1].buf
      BY <1>2
    <2> QED BY <2>1, <2>2 DEF BufferOwnership
  <1>6. ASSUME NEW b \in Buffers
        PROVE  heap'[b] # 0 <=> Owns(wq', b) \/ Owns(cq', b)
    <2>1. heap[b] # 0 <=> Owns(wq, b) \/ Owns(cq, b)
      BY Zenon DEF BufferOwnership, Owns
    <2>2. Owns(wq, b) <=> b = wq[1].buf \/ Owns(wq', b)
      BY TailOwns, Zenon
    <2>3. Owns(cq', b) <=> b = wq[1].buf \/ Owns(cq, b)
      BY AppendOwns, Zenon
    <2> QED BY <2>1, <2>2, <2>3, Zenon
  <1> QED
    BY <1>3, <1>4, <1>5, <1>6, Zenon DEF BufferOwnership, Owns

\* Buffers: a read adds a fresh one, a callback frees the one it leaves.
LEMMA OwnershipStep ==
  ASSUME TypeOK, WqOrder, CqOrder, BufferOwnership, Next
  PROVE  BufferOwnership'
  <1>0. wq \in Seq(Req) /\ cq \in Seq(Req) /\ heap \in [Buffers -> Nat]
        /\ nread \in Nat
    BY DEF TypeOK
  <1>1. CASE QueueFrame
    BY <1>1 DEF QueueFrame, BufferOwnership
  <1>2. CASE ReadData
    <2>1. PICK n \in Nat \ {0}, b \in Buffers, r \in Req :
            /\ r.buf = b /\ heap[b] = 0
            /\ heap' = [heap EXCEPT ![b] = nread + 1]
            /\ wq' = Append(wq, r)
            /\ cq' = cq
      BY <1>2, ReadDataEffect, Zenon
    <2>3. /\ DOMAIN wq' = 1 .. Len(wq) + 1
          /\ \A i \in 1 .. Len(wq) : wq'[i] = wq[i]
          /\ wq'[Len(wq) + 1].buf = b
          /\ DOMAIN wq = 1 .. Len(wq) /\ Len(wq) \in Nat
      BY <1>0, <2>1, AppendFacts
    <2>4. /\ \A i \in DOMAIN wq : wq[i].buf # b
          /\ \A i \in DOMAIN cq : cq[i].buf # b
      BY <2>1, Zenon DEF BufferOwnership
    <2>5. heap'[b] # 0 /\ \A c \in Buffers : c # b => heap'[c] = heap[c]
      BY <1>0, <2>1
    <2> QED
      BY <2>1, <2>3, <2>4, <2>5 DEF BufferOwnership
  <1>3. CASE WriteSome
    <2>1. heap' = heap
      BY <1>3, Zenon DEF WriteSome
    <2>2. PICK n \in Nat \ {0} :
            /\ wq # <<>> /\ n <= wq[1].len
            /\ Advance(wq[1], n) \in Req
            /\ \/ /\ wq' = [wq EXCEPT ![1] = Advance(wq[1], n)]
                  /\ cq' = cq
               \/ /\ wq' = Tail(wq)
                  /\ cq' = Append(cq, Advance(wq[1], n))
      BY <1>3, WriteSomeEffect, Zenon
    <2>3. wq[1] \in Req /\ Advance(wq[1], n).buf = wq[1].buf
      BY <1>0, <2>2, AdvanceFacts
    <2>4. CASE wq' = [wq EXCEPT ![1] = Advance(wq[1], n)] /\ cq' = cq
      <3>1. DOMAIN wq' = DOMAIN wq /\ \A i \in DOMAIN wq : wq'[i].buf = wq[i].buf
        BY <1>0, <2>2, <2>3, <2>4, FirstFacts, Zenon
      <3> QED
        BY <2>1, <2>4, <3>1 DEF BufferOwnership
    <2>5. CASE wq' = Tail(wq) /\ cq' = Append(cq, Advance(wq[1], n))
      BY <1>0, <2>1, <2>2, <2>3, <2>5, MoveOwnership, Zenon
    <2> QED BY <2>2, <2>4, <2>5, Zenon
  <1>4. CASE WriteError
    BY <1>0, <1>4, WriteErrorEffect, FailFacts, HeadFits, MoveOwnership, Zenon
       DEF MoveHead
  <1>5. CASE write_cb
    <2>1. /\ cq # <<>> /\ cq' = Tail(cq) /\ wq' = wq
          /\ heap' = [heap EXCEPT ![cq[1].buf] = 0]
      BY <1>5, CallbackEffect, Zenon
    <2>2. /\ DOMAIN cq = 1 .. Len(cq) /\ Len(cq) \in Nat \ {0}
          /\ DOMAIN cq' = 1 .. Len(cq) - 1
          /\ \A i \in 1 .. Len(cq) - 1 : cq'[i] = cq[i + 1]
      BY <1>0, <2>1, TailFacts
    <2>3. heap'[cq[1].buf] = 0
          /\ \A c \in Buffers : c # cq[1].buf => heap'[c] = heap[c]
      <3>1. cq[1].buf \in Buffers
        BY <1>5, CallbackEffect, Zenon DEF Req
      <3> QED BY <1>0, <2>1, <3>1, Zenon
    <2>4. \A i \in DOMAIN cq' : cq'[i].buf # cq[1].buf
      BY <2>2 DEF BufferOwnership
    <2>5. ASSUME NEW b \in Buffers
          PROVE  heap'[b] # 0 <=> Owns(wq', b) \/ Owns(cq', b)
      <3>1. heap[b] # 0 <=> Owns(wq, b) \/ Owns(cq, b)
        BY Zenon DEF BufferOwnership, Owns
      <3>2. Owns(cq, b) <=> b = cq[1].buf \/ Owns(cq', b)
        BY <1>0, <2>1, TailOwns, Zenon
      <3>3. ~Owns(wq, cq[1].buf) /\ ~Owns(cq', cq[1].buf)
        <4>1. 1 \in DOMAIN cq
          BY <2>2
        <4> QED BY <4>1, <2>4, Zenon DEF Owns, BufferOwnership
      <3>4. CASE b = cq[1].buf
        BY <3>3, <3>4, <2>1, <2>3, Zenon
      <3>5. CASE b # cq[1].buf
        BY <3>1, <3>2, <3>5, <2>1, <2>3, Zenon
      <3> QED BY <3>4, <3>5, Zenon
    <2>6. ASSUME NEW i \in DOMAIN cq', NEW j \in DOMAIN cq', i # j
          PROVE  cq'[i].buf # cq'[j].buf
      <3>1. /\ i + 1 \in DOMAIN cq /\ j + 1 \in DOMAIN cq /\ i + 1 # j + 1
            /\ cq'[i] = cq[i + 1] /\ cq'[j] = cq[j + 1]
        BY <2>2, <2>6
      <3> QED BY <3>1 DEF BufferOwnership
    <2>7. \A i \in DOMAIN cq', j \in DOMAIN wq' : cq'[i].buf # wq'[j].buf
      BY <2>1, <2>2 DEF BufferOwnership
    <2> QED
      BY <2>1, <2>5, <2>6, <2>7 DEF BufferOwnership, Owns
  <1>6. CASE uv__stream_flush_write_queue /\ wq # <<>>
    BY <1>0, <1>6, FlushEffect, FailFacts, HeadFits, MoveOwnership,
       SMTT(60) DEF MoveHead
  <1> QED
    BY <1>1, <1>2, <1>3, <1>4, <1>5, <1>6, QueueCases, Zenon
-----------------------------------------------------------------------------
(* The order of the requests on the stream.                                *)

Order == WqOrder /\ CqOrder /\ Heads

\* A step that leaves queues, buffers and counters alone keeps their order.
LEMMA OrderFrame ==
  ASSUME Order, QueueFrame
  PROVE  Order'
  BY ZenonT(40) DEF Order, WqOrder, CqOrder, Heads, QueueFrame, First, End, Acc

\* The elements of both queues are requests with natural positions.
QueueTyped ==
  /\ wq \in Seq(Req) /\ cq \in Seq(Req) /\ nread \in Nat /\ wqsize \in Nat
  /\ heap \in [Buffers -> Nat]
  /\ DOMAIN wq = 1 .. Len(wq) /\ Len(wq) \in Nat
  /\ DOMAIN cq = 1 .. Len(cq) /\ Len(cq) \in Nat
  /\ \A i \in DOMAIN wq :
       wq[i] \in Req /\ First(heap, wq[i]) \in Nat /\ wq[i].len \in Nat
  /\ \A i \in DOMAIN cq :
       cq[i] \in Req /\ First(heap, cq[i]) \in Nat /\ cq[i].len \in Nat
  /\ Acc \in Int

\* TypeOK gives the form in which the queue lemmas use the types.
LEMMA QueueTypes ==
  ASSUME TypeOK
  PROVE  QueueTyped
  <1>1. wq \in Seq(Req) /\ cq \in Seq(Req) /\ nread \in Nat /\ wqsize \in Nat
        /\ heap \in [Buffers -> Nat]
    BY DEF TypeOK
  <1>2. \A i \in DOMAIN wq : wq[i] \in Req
    BY <1>1
  <1>3. \A i \in DOMAIN cq : cq[i] \in Req
    BY <1>1
  <1> QED
    BY <1>1, <1>2, <1>3, FirstType DEF Acc, QueueTyped

\* Changing a buffer no request of the queue owns moves no request.
LEMMA FirstFrame ==
  ASSUME heap \in [Buffers -> Nat], NEW b \in Buffers, NEW x \in Nat,
         heap' = [heap EXCEPT ![b] = x], NEW r \in Req, r.buf # b
  PROVE  First(heap', r) = First(heap, r)
  BY Zenon DEF First, Req

\* A read appends a request that starts right after the last byte read.
LEMMA OrderRead ==
  ASSUME TypeOK, BufferOwnership, Order, ReadData
  PROVE  Order'
  <1> DEFINE L == Len(wq)
  <1>1. PICK n \in Nat \ {0}, b \in Buffers, r \in Req :
          /\ r.buf = b /\ r.off = 0 /\ r.len = n
          /\ heap[b] = 0
          /\ heap' = [heap EXCEPT ![b] = nread + 1]
          /\ wq' = Append(wq, r)
          /\ wqsize' = wqsize + n
          /\ nread' = nread + n
          /\ cq' = cq
    BY ReadDataEffect, Zenon
  <1>2. QueueTyped
    BY QueueTypes, Zenon
  <1>3. /\ Len(wq') = L + 1 /\ DOMAIN wq' = 1 .. L + 1 /\ wq' # <<>>
        /\ \A i \in 1 .. L : wq'[i] = wq[i]
        /\ wq'[L + 1] = r
    BY <1>1, <1>2, AppendFacts DEF QueueTyped
  <1>4. /\ \A i \in 1 .. L : First(heap', wq'[i]) = First(heap, wq[i])
        /\ \A i \in 1 .. Len(cq) : First(heap', cq[i]) = First(heap, cq[i])
    <2>1. /\ \A i \in DOMAIN wq : wq[i].buf # b
          /\ \A i \in DOMAIN cq : cq[i].buf # b
      BY <1>1, Zenon DEF BufferOwnership
    <2>2. nread + 1 \in Nat
      BY <1>2 DEF QueueTyped
    <2>3. ASSUME NEW q \in Req, q.buf # b
          PROVE  First(heap', q) = First(heap, q)
      BY <1>1, <1>2, <2>2, <2>3, FirstFrame, Zenon DEF QueueTyped
    <2> QED
      BY <1>2, <1>3, <2>1, <2>3, Zenon DEF QueueTyped
  <1>5. First(heap', wq'[L + 1]) = nread + 1 /\ wq'[L + 1].len = n
    BY <1>1, <1>2, <1>3 DEF First, QueueTyped
  <1>6. /\ L \in Nat /\ nread \in Nat /\ nread' = nread + n /\ Acc \in Int
        /\ Acc' = Acc /\ nread >= Acc
    BY <1>1, <1>2 DEF Acc, QueueTyped
  <1>7. /\ DOMAIN wq = 1 .. L /\ DOMAIN wq' = 1 .. L + 1 /\ Len(wq') = L + 1
        /\ wq' # <<>>
        /\ \A i \in 1 .. L :
             /\ First(heap', wq'[i]) = First(heap, wq[i])
             /\ wq'[i].len = wq[i].len
             /\ First(heap, wq[i]) \in Nat /\ wq[i].len \in Nat
    <2>1. /\ DOMAIN wq = 1 .. L
          /\ \A i \in DOMAIN wq : First(heap, wq[i]) \in Nat /\ wq[i].len \in Nat
      BY <1>2, Zenon DEF QueueTyped
    <2> QED BY <1>3, <1>4, <2>1, Zenon
  <1>8. /\ cq' = cq /\ DOMAIN cq = 1 .. Len(cq) /\ Len(cq) \in Nat
        /\ \A i \in DOMAIN cq :
             /\ First(heap', cq[i]) = First(heap, cq[i])
             /\ First(heap, cq[i]) \in Nat /\ cq[i].len \in Nat
    BY <1>1, <1>2, <1>4, Zenon DEF QueueTyped
  <1>9. WqOrder'
    <2>1. ASSUME NEW i \in DOMAIN wq'
          PROVE  wq'[i].len > 0 /\ First(heap', wq'[i]) > Acc'
                   /\ End(heap', wq'[i]) <= nread' + 1
      <3>1. CASE i \in 1 .. L
        <4>1. /\ wq[i].len > 0 /\ First(heap, wq[i]) > Acc
              /\ End(heap, wq[i]) <= nread + 1
          BY <1>7, <3>1, Zenon DEF Order, WqOrder
        <4> QED BY <1>6, <1>7, <3>1, <4>1 DEF End
      <3>2. CASE i = L + 1
        BY <1>5, <1>6, <3>2 DEF End
      <3> QED BY <1>6, <1>7, <3>1, <3>2
    <2>2. ASSUME NEW i \in DOMAIN wq', NEW j \in DOMAIN wq', i < j
          PROVE  End(heap', wq'[i]) <= First(heap', wq'[j])
      <3>1. i \in 1 .. L
        BY <2>2, <1>6, <1>7
      <3>2. CASE j \in 1 .. L
        BY <2>2, <3>1, <3>2, <1>7, Zenon DEF Order, WqOrder, End
      <3>3. CASE j = L + 1
        BY <3>1, <3>3, <1>5, <1>7, ZenonT(40) DEF Order, WqOrder, End
      <3> QED BY <3>2, <3>3, <1>6, <1>7
    <2>3. ASSUME NEW i \in DOMAIN wq', i + 1 \in DOMAIN wq'
          PROVE  End(heap', wq'[i]) = First(heap', wq'[i + 1])
      <3>1. i \in 1 .. L
        BY <2>3, <1>6, <1>7
      <3>2. CASE i + 1 \in 1 .. L
        BY <2>3, <3>1, <3>2, <1>7, Zenon DEF Order, WqOrder, End
      <3>3. CASE i = L
        BY <3>1, <3>3, <1>5, <1>7 DEF Order, WqOrder, End
      <3> QED BY <2>3, <3>1, <3>2, <3>3, <1>6, <1>7
    <2>4. End(heap', wq'[Len(wq')]) = nread' + 1
      BY <1>5, <1>6, <1>7 DEF End
    <2> QED BY <2>1, <2>2, <2>3, <2>4, Zenon DEF WqOrder
  <1>10. CqOrder'
    <2>1. \A i \in DOMAIN cq' :
            cq'[i].len > 0 => First(heap', cq'[i]) > Acc'
                                /\ End(heap', cq'[i]) <= nread' + 1
      BY <1>6, <1>8 DEF Order, CqOrder, End
    <2>2. \A i, j \in DOMAIN cq' :
            i < j /\ cq'[i].len > 0
              => cq'[j].len > 0 /\ End(heap', cq'[i]) <= First(heap', cq'[j])
      BY <1>8, Zenon DEF Order, CqOrder, End
    <2>3. \A i \in DOMAIN cq' :
            i + 1 \in DOMAIN cq' /\ cq'[i].len > 0
              => First(heap', cq'[i + 1]) = End(heap', cq'[i])
      BY <1>8, Zenon DEF Order, CqOrder, End
    <2>4. ASSUME NEW i \in DOMAIN cq', NEW j \in DOMAIN wq', cq'[i].len > 0
          PROVE  End(heap', cq'[i]) <= First(heap', wq'[j])
      <3>1. CASE j \in 1 .. L
        BY <2>4, <3>1, <1>7, <1>8, Zenon DEF Order, CqOrder, End
      <3>2. CASE j = L + 1
        <4>1. End(heap, cq[i]) <= nread + 1
          BY <2>4, <1>8, Zenon DEF Order, CqOrder
        <4>2. End(heap', cq'[i]) = End(heap, cq[i])
          BY <2>4, <1>8, Zenon DEF End
        <4>3. First(heap', wq'[L + 1]) = nread + 1
          BY <1>5, Zenon
        <4> QED BY <4>1, <4>2, <4>3, <3>2, Zenon
      <3> QED BY <3>1, <3>2, <1>6, <1>7
    <2> QED BY <2>1, <2>2, <2>3, <2>4, Zenon DEF CqOrder
  <1>11. Heads'
    <2>1. IF wq = <<>> THEN L = 0 ELSE L >= 1
      BY <1>2 DEF QueueTyped
    <2> QED
      BY <1>5, <1>6, <1>7, <1>8, <2>1 DEF Order, Heads, End
  <1> QED BY <1>9, <1>10, <1>11, Zenon DEF Order

-----------------------------------------------------------------------------
(* The order of the requests, continued: writes.                           *)

\* Positions of the tail of the write queue.
WqTailView ==
  /\ Len(wq) \in Nat \ {0} /\ DOMAIN wq = 1 .. Len(wq) /\ 1 \in DOMAIN wq
  /\ Len(wq') = Len(wq) - 1 /\ DOMAIN wq' = 1 .. Len(wq) - 1
  /\ wq' = <<>> <=> Len(wq) = 1
  /\ \A i \in DOMAIN wq : First(heap, wq[i]) \in Nat /\ wq[i].len \in Nat
  /\ \A i \in 1 .. Len(wq) - 1 :
       /\ i + 1 \in DOMAIN wq
       /\ First(heap', wq'[i]) = First(heap, wq[i + 1])
       /\ wq'[i].len = wq[i + 1].len

\* The write queue after its first request has been taken off.
LEMMA WqTail ==
  ASSUME QueueTyped, wq # <<>>, wq' = Tail(wq), heap' = heap
  PROVE  WqTailView
  <1>1. /\ wq \in Seq(Req) /\ DOMAIN wq = 1 .. Len(wq)
        /\ \A i \in DOMAIN wq :
             First(heap, wq[i]) \in Nat /\ wq[i].len \in Nat
    BY Zenon DEF QueueTyped
  <1>2. /\ Len(wq) \in Nat \ {0} /\ wq' \in Seq(Req) /\ Len(wq') = Len(wq) - 1
        /\ \A i \in 1 .. Len(wq) - 1 : wq'[i] = wq[i + 1]
    BY <1>1, TailFacts, Zenon
  <1>3. DOMAIN wq' = 1 .. Len(wq) - 1 /\ (wq' = <<>> <=> Len(wq) = 1)
    BY <1>2
  <1> QED BY <1>1, <1>2, <1>3 DEF WqTailView

\* The write queue stays in order when its head leaves it and Acc does not
\* pass the head's end.
LEMMA WqOrderTail ==
  ASSUME QueueTyped, WqOrder, wq # <<>>, wq' = Tail(wq), heap' = heap,
         nread' = nread, Acc' \in Int, Acc' < End(heap, wq[1])
  PROVE  WqOrder'
  <1>1. WqTailView /\ nread \in Nat
    BY WqTail, ZenonT(30) DEF QueueTyped
  <1>2. ASSUME NEW i \in DOMAIN wq'
        PROVE  wq'[i].len > 0 /\ First(heap', wq'[i]) > Acc'
                 /\ End(heap', wq'[i]) <= nread' + 1
    <2>1. i + 1 \in DOMAIN wq /\ 1 < i + 1
      BY <1>1 DEF WqTailView
    <2>2. /\ wq[i + 1].len > 0 /\ End(heap, wq[i + 1]) <= nread + 1
          /\ End(heap, wq[1]) <= First(heap, wq[i + 1])
      BY <1>1, <2>1, Zenon DEF WqOrder, WqTailView
    <2>3. First(heap', wq'[i]) = First(heap, wq[i + 1])
          /\ wq'[i].len = wq[i + 1].len
      BY <1>1, Zenon DEF WqTailView
    <2>4. First(heap, wq[i + 1]) \in Nat /\ End(heap, wq[1]) \in Nat
      <3>1. /\ First(heap, wq[i + 1]) \in Nat
            /\ First(heap, wq[1]) \in Nat /\ wq[1].len \in Nat
        BY <1>1, <2>1, Zenon DEF WqTailView
      <3> QED BY <3>1 DEF End
    <2> QED
      BY <2>2, <2>3, <2>4 DEF End
  <1>3. ASSUME NEW i \in DOMAIN wq', NEW j \in DOMAIN wq', i < j
        PROVE  End(heap', wq'[i]) <= First(heap', wq'[j])
    <2>1. i + 1 \in DOMAIN wq /\ j + 1 \in DOMAIN wq /\ i + 1 < j + 1
      BY <1>1, <1>3 DEF WqTailView
    <2>2. End(heap, wq[i + 1]) <= First(heap, wq[j + 1])
      BY <2>1, Zenon DEF WqOrder
    <2> QED
      BY <1>1, <2>2, Zenon DEF WqTailView, End
  <1>4. ASSUME NEW i \in DOMAIN wq', i + 1 \in DOMAIN wq'
        PROVE  End(heap', wq'[i]) = First(heap', wq'[i + 1])
    <2>1. i + 1 \in DOMAIN wq /\ (i + 1) + 1 \in DOMAIN wq
      BY <1>1, <1>4, Zenon DEF WqTailView
    <2>2. End(heap, wq[i + 1]) = First(heap, wq[(i + 1) + 1])
      BY <2>1, Zenon DEF WqOrder
    <2> QED
      BY <1>1, <1>4, <2>2, Zenon DEF WqTailView, End
  <1>5. ASSUME wq' # <<>>
        PROVE  End(heap', wq'[Len(wq')]) = nread' + 1
    <2> DEFINE k == Len(wq) - 1
    <2>1. k \in 1 .. Len(wq) - 1 /\ k + 1 = Len(wq) /\ k = Len(wq')
      BY <1>1, <1>5 DEF WqTailView
    <2> HIDE DEF k
    <2>2. End(heap, wq[k + 1]) = nread + 1
      BY <2>1, Zenon DEF WqOrder
    <2>3. First(heap', wq'[k]) = First(heap, wq[k + 1])
          /\ wq'[k].len = wq[k + 1].len
      BY <1>1, <2>1, Zenon DEF WqTailView
    <2> QED
      BY <2>1, <2>2, <2>3, Zenon DEF End
  <1> QED
    BY <1>2, <1>3, <1>4, <1>5, Zenon DEF WqOrder

\* A write() before a reset: no failed request is waiting, and the head starts
\* right after the output.
LEMMA OrderWrite ==
  ASSUME TypeOK, Control, Sync, Order, WriteSome
  PROVE  Order'
  <1>1. PICK n \in Nat \ {0} :
          /\ wq # <<>> /\ n <= wq[1].len
          /\ wqsize' = wqsize - n
          /\ Advance(wq[1], n) \in Req
          /\ \/ /\ n < wq[1].len /\ cq' = cq
                /\ wq' = [wq EXCEPT ![1] = Advance(wq[1], n)]
             \/ /\ n = wq[1].len /\ wq' = Tail(wq)
                /\ cq' = Append(cq, Advance(wq[1], n))
    BY WriteSomeEffect, Zenon DEF Order
  <1> DEFINE s == Advance(wq[1], n)
  <1>2. heap' = heap /\ nread' = nread
    BY Zenon DEF WriteSome
  <1>3. QueueTyped
    BY QueueTypes, Zenon
  <1>4. \A i \in DOMAIN cq : cq[i].len = 0
    BY Zenon DEF WriteSome, Writing, Control, Sync
  <1>5. /\ 1 \in DOMAIN wq /\ First(heap, wq[1]) = Acc + 1
        /\ wq[1].len \in Nat /\ Acc \in Int /\ nread \in Nat
    BY <1>1, <1>3, <1>4 DEF Order, Heads, QueueTyped
  <1>6. First(heap, s) = Acc + 1 + n /\ s.len = wq[1].len - n
    <2>1. s.buf = wq[1].buf /\ s.off = wq[1].off + n /\ s.len = wq[1].len - n
      BY <1>1, <1>3, <1>5, AdvanceFacts, Zenon DEF QueueTyped
    <2>2. wq[1].off \in Nat /\ heap[wq[1].buf] \in Nat
      BY <1>3, <1>5, Zenon DEF QueueTyped, Req
    <2> HIDE DEF s
    <2> QED BY <1>5, <2>1, <2>2 DEF First
  <1>7. Acc' = Acc + n
    BY <1>1, <1>2, <1>3 DEF Acc, QueueTyped
  <1>8. CASE n < wq[1].len /\ cq' = cq /\ wq' = [wq EXCEPT ![1] = s]
    <2> DEFINE L == Len(wq)
    <2>1. /\ L \in Nat \ {0} /\ DOMAIN wq = 1 .. L /\ wq \in Seq(Req)
          /\ \A i \in 1 .. L : First(heap, wq[i]) \in Nat /\ wq[i].len \in Nat
      BY <1>3, <1>5 DEF QueueTyped
    <2>2. s \in Req
      BY <1>1, Zenon
    <2> HIDE DEF s
    <2>3. /\ DOMAIN wq' = 1 .. L /\ Len(wq') = L /\ wq' # <<>>
          /\ wq'[1] = s /\ \A i \in 2 .. L : wq'[i] = wq[i]
      <3>1. /\ wq' \in Seq(Req) /\ Len(wq') = L /\ wq' # <<>> /\ wq'[1] = s
            /\ \A i \in 2 .. L : wq'[i] = wq[i]
        <4>1. wq # <<>> /\ wq \in Seq(Req) /\ wq' = [wq EXCEPT ![1] = s]
          BY <1>1, <1>8, <2>1, Zenon
        <4> QED BY <4>1, <2>2, FirstFacts
      <3> QED BY <3>1
    <2>4. /\ First(heap', wq'[1]) = Acc + 1 + n
          /\ wq'[1].len = wq[1].len - n
      BY <1>2, <1>6, <2>3, Zenon
    <2>5. \A i \in 2 .. L : /\ First(heap', wq'[i]) = First(heap, wq[i])
                           /\ wq'[i].len = wq[i].len
      BY <1>2, <2>3, Zenon
    <2>6. ASSUME NEW i \in 1 .. L
          PROVE  /\ End(heap', wq'[i]) = End(heap, wq[i])
                 /\ First(heap', wq'[i]) >= First(heap, wq[i])
                 /\ wq'[i].len > 0
                 /\ First(heap', wq'[i]) > Acc'
      <3>1. CASE i = 1
        <4>1. /\ First(heap', wq'[i]) = Acc + 1 + n /\ wq'[i].len = wq[1].len - n
              /\ First(heap, wq[i]) = Acc + 1 /\ n < wq[1].len
          BY <1>5, <1>8, <2>4, <3>1, Zenon
        <4>2. First(heap', wq'[i]) > Acc' /\ wq'[i].len > 0
          BY <4>1, <1>5, <1>7
        <4>3. First(heap', wq'[i]) >= First(heap, wq[i])
          BY <4>1, <1>5
        <4>4. First(heap', wq'[i]) + wq'[i].len = First(heap, wq[i]) + wq[1].len
          <5>1. \A a, b, c \in Int : (a + 1 + b) + (c - b) = (a + 1) + c
            OBVIOUS
          <5>2. wq[1].len \in Int /\ n \in Int
            BY <1>5
          <5>3. (Acc + 1 + n) + (wq[1].len - n) = (Acc + 1) + wq[1].len
            BY <5>1, <5>2, <1>5, Zenon
          <5> QED BY <5>3, <4>1, Zenon
        <4> QED BY <4>2, <4>3, <4>4, <3>1, Zenon DEF End
      <3>2. CASE i \in 2 .. L
        <4>1. First(heap', wq'[i]) = First(heap, wq[i]) /\ wq'[i].len = wq[i].len
          BY <2>5, <3>2, Zenon
        <4>2. 1 \in DOMAIN wq /\ i \in DOMAIN wq /\ 1 < i
          BY <2>1, <3>2
        <4>3. End(heap, wq[1]) <= First(heap, wq[i]) /\ wq[i].len > 0
          BY <4>2, Zenon DEF Order, WqOrder
        <4>4. First(heap, wq[i]) \in Nat
          BY <2>1, Zenon
        <4>5. Acc + 1 + wq[1].len <= First(heap, wq[i])
          BY <1>5, <4>3, Zenon DEF End
        <4> QED
          BY <1>1, <1>5, <1>7, <4>1, <4>3, <4>4, <4>5 DEF End
      <3> QED BY <2>1, <3>1, <3>2
    <2>7. WqOrder'
      <3>1. \A i \in 1 .. L : End(heap, wq[i]) <= nread + 1
        BY <2>1, Zenon DEF Order, WqOrder
      <3>2. ASSUME NEW i \in 1 .. L, NEW j \in 1 .. L, i < j
            PROVE  End(heap', wq'[i]) <= First(heap', wq'[j])
        <4>1. i \in DOMAIN wq /\ j \in DOMAIN wq /\ j \in 2 .. L
          BY <2>1, <3>2
        <4>2. End(heap, wq[i]) <= First(heap, wq[j])
          BY <3>2, <4>1, Zenon DEF Order, WqOrder
        <4> QED BY <2>5, <2>6, <4>1, <4>2, Zenon
      <3>3. ASSUME NEW i \in 1 .. L, i + 1 \in 1 .. L
            PROVE  End(heap', wq'[i]) = First(heap', wq'[i + 1])
        <4>1. i \in DOMAIN wq /\ i + 1 \in DOMAIN wq /\ i + 1 \in 2 .. L
          BY <2>1, <3>3
        <4>2. End(heap, wq[i]) = First(heap, wq[i + 1])
          BY <4>1, Zenon DEF Order, WqOrder
        <4> QED BY <2>5, <2>6, <4>1, <4>2, Zenon
      <3>4. End(heap', wq'[L]) = nread + 1
        BY <1>1, <2>1, <2>6 DEF Order, WqOrder
      <3> QED
        BY <1>2, <2>3, <2>6, <3>1, <3>2, <3>3, <3>4, Zenon DEF WqOrder
    <2>8. CqOrder'
      BY <1>4, <1>8 DEF CqOrder
    <2>9. Heads'
      <3>1. cq # <<>> => Len(cq) \in DOMAIN cq
        BY <1>3 DEF QueueTyped
      <3> QED
        BY <1>4, <1>5, <1>7, <1>8, <2>3, <2>4, <3>1 DEF Heads
    <2> QED BY <2>7, <2>8, <2>9, Zenon DEF Order
  <1>9. CASE n = wq[1].len /\ wq' = Tail(wq) /\ cq' = Append(cq, s)
    <2>1. WqOrder'
      <3>1. Acc' \in Int /\ Acc' < End(heap, wq[1])
        BY <1>5, <1>7, <1>9 DEF End
      <3> QED
        BY <1>1, <1>2, <1>3, <1>9, <3>1, WqOrderTail, Zenon DEF Order
    <2>2. \A i \in DOMAIN cq' : cq'[i].len = 0
      <3>1. s \in Req /\ s.len = 0 /\ cq' = Append(cq, s)
        BY <1>1, <1>5, <1>6, <1>9
      <3> HIDE DEF s
      <3>2. cq \in Seq(Req) /\ DOMAIN cq = 1 .. Len(cq) /\ Len(cq) \in Nat
        BY <1>3, Zenon DEF QueueTyped
      <3>3. /\ cq' \in Seq(Req) /\ Len(cq') = Len(cq) + 1
            /\ \A i \in 1 .. Len(cq) : cq'[i] = cq[i]
            /\ cq'[Len(cq) + 1] = s
        BY <3>1, <3>2, AppendFacts
      <3> QED BY <1>4, <3>1, <3>2, <3>3
    <2>3. cq' # <<>> => Len(cq') \in DOMAIN cq'
      BY <1>1, <1>3, <1>9, AppendFacts DEF QueueTyped
    <2>4. CqOrder'
      BY <2>2 DEF CqOrder
    <2>5. IF wq' = <<>> THEN Acc' = nread' ELSE First(heap', wq'[1]) = Acc' + 1
      <3>1. WqTailView
        BY <1>1, <1>2, <1>3, <1>9, WqTail, Zenon
      <3>2. CASE Len(wq) = 1
        <4>1. wq' = <<>> /\ End(heap, wq[1]) = nread + 1
          BY <1>1, <3>1, <3>2, Zenon DEF WqTailView, Order, WqOrder
        <4> QED
          BY <4>1, <1>2, <1>5, <1>7, <1>9 DEF End
      <3>3. CASE Len(wq) # 1
        <4>1. 1 \in 1 .. Len(wq) - 1 /\ 1 + 1 \in DOMAIN wq
          BY <3>1, <3>3 DEF WqTailView
        <4>2. End(heap, wq[1]) = First(heap, wq[1 + 1])
          BY <1>5, <4>1, Zenon DEF Order, WqOrder
        <4>3. wq' # <<>> /\ First(heap', wq'[1]) = First(heap, wq[1 + 1])
          BY <3>1, <3>3, <4>1, Zenon DEF WqTailView
        <4>4. First(heap', wq'[1]) = First(heap, wq[1]) + wq[1].len
          BY <4>2, <4>3, Zenon DEF End
        <4>5. First(heap', wq'[1]) = Acc + 1 + n
          BY <4>4, <1>5, <1>9, Zenon
        <4> QED
          BY <4>3, <4>5, <1>5, <1>7
      <3> QED BY <3>2, <3>3, Zenon
    <2>6. Heads'
      BY <2>2, <2>3, <2>5 DEF Heads
    <2> QED BY <2>1, <2>4, <2>6, Zenon DEF Order
  <1> QED BY <1>1, <1>8, <1>9, Zenon

-----------------------------------------------------------------------------
(* The order of the requests, continued: failures and callbacks.           *)

\* A failed or cancelled request keeps its place when it changes queues.
LEMMA OrderMove ==
  ASSUME TypeOK, Order, MoveHead
  PROVE  Order'
  <1> DEFINE s == Fail(wq[1])
             C == Len(cq)
  <1>1. QueueTyped
    BY QueueTypes, Zenon
  <1>2. /\ wq # <<>> /\ wq' = Tail(wq) /\ cq' = Append(cq, s)
        /\ heap' = heap /\ nread' = nread /\ Acc' = Acc
    BY Zenon DEF MoveHead, Acc
  <1>3. /\ 1 \in DOMAIN wq /\ wq[1] \in Req /\ Acc \in Int /\ nread \in Nat
        /\ First(heap, wq[1]) \in Nat /\ wq[1].len \in Nat /\ wq[1].len > 0
        /\ First(heap, wq[1]) > Acc /\ End(heap, wq[1]) <= nread + 1
    BY <1>1, <1>2 DEF QueueTyped, Order, WqOrder
  <1>4. /\ s \in Req /\ s.len = wq[1].len
        /\ First(heap, s) = First(heap, wq[1]) /\ End(heap, s) = End(heap, wq[1])
    BY <1>3, FailFacts, Zenon DEF First, End
  <1> HIDE DEF s
  <1>5. WqTailView
    BY <1>1, <1>2, WqTail, Zenon
  <1>6. /\ C \in Nat /\ DOMAIN cq = 1 .. C /\ DOMAIN cq' = 1 .. C + 1
        /\ Len(cq') = C + 1 /\ cq' # <<>>
        /\ \A i \in 1 .. C : cq'[i] = cq[i]
        /\ cq'[C + 1] = s
    <2>1. C \in Nat /\ cq \in Seq(Req) /\ DOMAIN cq = 1 .. C
      BY <1>1, Zenon DEF QueueTyped
    <2>2. /\ cq' \in Seq(Req) /\ Len(cq') = C + 1 /\ cq' # <<>>
          /\ \A i \in 1 .. C : cq'[i] = cq[i]
          /\ cq'[C + 1] = s
      BY <1>2, <1>4, <2>1, AppendFacts
    <2> QED BY <2>1, <2>2
  <1>7. WqOrder'
    <2>1. Acc' \in Int /\ Acc' < End(heap, wq[1])
      BY <1>2, <1>3 DEF End
    <2> QED BY <1>1, <1>2, <2>1, WqOrderTail, Zenon DEF Order
  <1>8. \A j \in DOMAIN wq' : End(heap, wq[1]) <= First(heap', wq'[j])
    <2> SUFFICES ASSUME NEW j \in DOMAIN wq'
                 PROVE  End(heap, wq[1]) <= First(heap', wq'[j])
      BY Zenon
    <2>1. /\ j + 1 \in DOMAIN wq /\ 1 < j + 1
          /\ First(heap', wq'[j]) = First(heap, wq[j + 1])
      BY <1>5 DEF WqTailView
    <2> QED BY <1>3, <2>1, Zenon DEF Order, WqOrder
  <1>9. IF wq' = <<>> THEN End(heap, wq[1]) = nread + 1
                      ELSE First(heap', wq'[1]) = End(heap, wq[1])
    <2>1. CASE Len(wq) = 1
      BY <1>2, <1>5, <2>1, Zenon DEF WqTailView, Order, WqOrder
    <2>2. CASE Len(wq) # 1
      <3>1. 1 \in 1 .. Len(wq) - 1 /\ 1 + 1 \in DOMAIN wq /\ wq' # <<>>
        BY <1>5, <2>2 DEF WqTailView
      <3>2. First(heap', wq'[1]) = First(heap, wq[1 + 1])
        BY <1>5, <3>1, Zenon DEF WqTailView
      <3>3. End(heap, wq[1]) = First(heap, wq[1 + 1])
        BY <1>3, <3>1, Zenon DEF Order, WqOrder
      <3> QED BY <3>1, <3>2, <3>3, Zenon
    <2> QED BY <2>1, <2>2, Zenon
  <1>10. CqOrder'
    <2>1. ASSUME NEW i \in DOMAIN cq', cq'[i].len > 0
          PROVE  First(heap', cq'[i]) > Acc' /\ End(heap', cq'[i]) <= nread' + 1
      <3>1. CASE i \in 1 .. C
        BY <1>2, <1>6, <2>1, <3>1, ZenonT(30) DEF Order, CqOrder
      <3>2. CASE i = C + 1
        BY <1>2, <1>3, <1>4, <1>6, <3>2, Zenon
      <3> QED BY <1>6, <3>1, <3>2
    <2>2. ASSUME NEW i \in DOMAIN cq', NEW j \in DOMAIN cq', i < j,
                 cq'[i].len > 0
          PROVE  cq'[j].len > 0 /\ End(heap', cq'[i]) <= First(heap', cq'[j])
      <3>1. i \in 1 .. C /\ cq'[i] = cq[i]
        BY <1>6, <2>2
      <3>2. CASE j \in 1 .. C
        BY <1>2, <1>6, <2>2, <3>1, <3>2, Zenon DEF Order, CqOrder
      <3>3. CASE j = C + 1
        <4>1. End(heap, cq[i]) <= First(heap, wq[1])
          BY <1>3, <1>6, <2>2, <3>1, Zenon DEF Order, CqOrder
        <4> QED BY <1>2, <1>3, <1>4, <1>6, <3>1, <3>3, <4>1, Zenon
      <3> QED BY <1>6, <3>2, <3>3
    <2>3. ASSUME NEW i \in DOMAIN cq', i + 1 \in DOMAIN cq', cq'[i].len > 0
          PROVE  First(heap', cq'[i + 1]) = End(heap', cq'[i])
      <3>1. i \in 1 .. C /\ cq'[i] = cq[i]
        BY <1>6, <2>3
      <3>2. CASE i + 1 \in 1 .. C
        BY <1>2, <1>6, <2>3, <3>1, <3>2, Zenon DEF Order, CqOrder
      <3>3. CASE i = C
        <4>1. cq # <<>> /\ cq[C].len > 0
          BY <1>6, <2>3, <3>1, <3>3
        <4>2. First(heap, wq[1]) = End(heap, cq[C])
          BY <1>2, <4>1, Zenon DEF Order, Heads
        <4> QED BY <1>2, <1>4, <1>6, <3>1, <3>3, <4>2, Zenon
      <3> QED BY <1>6, <2>3, <3>1, <3>2, <3>3
    <2>4. ASSUME NEW i \in DOMAIN cq', NEW j \in DOMAIN wq', cq'[i].len > 0
          PROVE  End(heap', cq'[i]) <= First(heap', wq'[j])
      <3>1. CASE i \in 1 .. C
        <4>1. /\ j + 1 \in DOMAIN wq
              /\ First(heap', wq'[j]) = First(heap, wq[j + 1])
          BY <1>5, Zenon DEF WqTailView
        <4>2. End(heap, cq[i]) <= First(heap, wq[j + 1])
          BY <1>6, <2>4, <3>1, <4>1, Zenon DEF Order, CqOrder
        <4> QED BY <1>2, <1>6, <3>1, <4>1, <4>2, Zenon
      <3>2. CASE i = C + 1
        BY <1>2, <1>4, <1>6, <1>8, <3>2, Zenon
      <3> QED BY <1>6, <3>1, <3>2
    <2> QED BY <2>1, <2>2, <2>3, <2>4, Zenon DEF CqOrder
  <1>11. Heads'
    <2>1. ASSUME NEW i \in DOMAIN cq', cq'[i].len > 0,
                 i = 1 \/ cq'[i - 1].len = 0
          PROVE  First(heap', cq'[i]) = Acc' + 1
      <3>1. CASE i \in 1 .. C
        <4>1. cq'[i] = cq[i] /\ i \in DOMAIN cq
          BY <1>6, <3>1, Zenon
        <4>2. i = 1 \/ cq[i - 1].len = 0
          BY <1>6, <2>1, <3>1
        <4> QED BY <1>2, <2>1, <4>1, <4>2, Zenon DEF Order, Heads
      <3>2. CASE i = C + 1
        <4>1. ASSUME NEW k \in DOMAIN cq
              PROVE  cq[k].len = 0
          <5>1. C \in DOMAIN cq /\ C = i - 1 /\ cq'[C] = cq[C] /\ i # 1
            BY <1>6, <3>2
          <5>2. cq[C].len = 0
            BY <2>1, <5>1, Zenon
          <5>3. cq[k].len \in Nat
            BY <1>1, Zenon DEF QueueTyped
          <5>4. CASE k = C
            BY <5>2, <5>4, Zenon
          <5>5. CASE k # C
            <6>1. k < C
              BY <1>6, <5>5
            <6> QED BY <5>1, <5>2, <5>3, <6>1 DEF Order, CqOrder
          <5> QED BY <5>4, <5>5, Zenon
        <4>2. First(heap, wq[1]) = Acc + 1
          BY <1>2, <4>1, Zenon DEF Order, Heads
        <4> QED BY <1>2, <1>4, <1>6, <3>2, <4>2, Zenon
      <3> QED BY <1>6, <3>1, <3>2
    <2>2. ~ \A i \in DOMAIN cq' : cq'[i].len = 0
      BY <1>3, <1>4, <1>6
    <2>3. IF wq' = <<>> THEN End(heap', cq'[Len(cq')]) = nread' + 1
                        ELSE First(heap', wq'[1]) = End(heap', cq'[Len(cq')])
      BY <1>2, <1>4, <1>6, <1>9, Zenon
    <2> QED BY <2>1, <2>2, <2>3, Zenon DEF Heads
  <1> QED BY <1>7, <1>10, <1>11, Zenon DEF Order
\* A write callback frees the oldest buffer and takes what that request left
\* unwritten off write_queue_size; nothing else moves.
LEMMA OrderCallback ==
  ASSUME TypeOK, BufferOwnership, Order, write_cb
  PROVE  Order'
  <1> DEFINE C == Len(cq)
             k == cq[1].len
  <1>1. QueueTyped
    BY QueueTypes, Zenon
  <1>2. /\ cq # <<>> /\ cq' = Tail(cq) /\ cq[1] \in Req
        /\ wqsize' = wqsize - k /\ wqsize' \in Nat
        /\ heap' = [heap EXCEPT ![cq[1].buf] = 0]
        /\ UNCHANGED <<wq, nread>>
    BY CallbackEffect, Zenon DEF Order
  <1>3. C \in Nat \ {0} /\ DOMAIN cq = 1 .. C /\ cq \in Seq(Req) /\ 1 \in DOMAIN cq
    BY <1>1, <1>2 DEF QueueTyped
  <1>4. k \in Nat /\ First(heap, cq[1]) \in Nat /\ Acc \in Int /\ nread \in Nat
    BY <1>1, <1>3, Zenon DEF QueueTyped
  <1>5. Acc' = Acc + k
    <2>1. wqsize \in Nat
      BY <1>1, Zenon DEF QueueTyped
    <2> QED BY <1>2, <1>4, <2>1 DEF Acc
  <1>6. k > 0 => End(heap, cq[1]) = Acc' + 1
    BY <1>3, <1>4, <1>5 DEF Order, Heads, End
  <1>7. /\ DOMAIN cq' = 1 .. C - 1 /\ Len(cq') = C - 1
        /\ \A i \in 1 .. C - 1 : cq'[i] = cq[i + 1] /\ i + 1 \in DOMAIN cq
    <2>1. /\ cq' \in Seq(Req) /\ Len(cq') = C - 1
          /\ \A i \in 1 .. C - 1 : cq'[i] = cq[i + 1]
      BY <1>2, <1>3, TailFacts, Zenon
    <2> QED BY <1>3, <2>1
  <1>8. ASSUME NEW i \in DOMAIN cq'
        PROVE  /\ i \in 1 .. C - 1 /\ i + 1 \in DOMAIN cq /\ 1 < i + 1
               /\ cq'[i] = cq[i + 1] /\ cq[i + 1].len \in Nat
               /\ First(heap, cq[i + 1]) \in Nat
               /\ First(heap', cq'[i]) = First(heap, cq[i + 1])
               /\ End(heap', cq'[i]) = End(heap, cq[i + 1])
    <2>1. /\ i \in 1 .. C - 1 /\ i + 1 \in DOMAIN cq /\ 1 < i + 1 /\ i + 1 # 1
          /\ cq'[i] = cq[i + 1]
      BY <1>3, <1>7
    <2>2. /\ cq[i + 1] \in Req /\ cq[i + 1].len \in Nat
          /\ First(heap, cq[i + 1]) \in Nat
      BY <1>1, <2>1, Zenon DEF QueueTyped
    <2>3. cq[i + 1].buf # cq[1].buf
      BY <1>3, <2>1, Zenon DEF BufferOwnership
    <2>4. heap \in [Buffers -> Nat] /\ cq[1].buf \in Buffers
      BY <1>1, <1>2, Zenon DEF QueueTyped, Req
    <2>5. First(heap', cq[i + 1]) = First(heap, cq[i + 1])
      BY <1>2, <2>2, <2>3, <2>4, FirstFrame, ZenonT(30)
    <2> QED BY <2>1, <2>2, <2>5, Zenon DEF End
  <1>9. ASSUME NEW i \in DOMAIN wq
        PROVE  /\ First(heap', wq'[i]) = First(heap, wq[i])
               /\ End(heap', wq'[i]) = End(heap, wq[i])
               /\ wq'[i] = wq[i] /\ First(heap, wq[i]) \in Nat
    <2>1. wq[i] \in Req /\ First(heap, wq[i]) \in Nat
      BY <1>1, Zenon DEF QueueTyped
    <2>2. wq[i].buf # cq[1].buf
      BY <1>3, Zenon DEF BufferOwnership
    <2>3. heap \in [Buffers -> Nat] /\ cq[1].buf \in Buffers
      BY <1>1, <1>2, Zenon DEF QueueTyped, Req
    <2>4. First(heap', wq[i]) = First(heap, wq[i])
      BY <1>2, <2>1, <2>2, <2>3, FirstFrame, ZenonT(30)
    <2> QED BY <1>2, <2>1, <2>4, Zenon DEF End
  <1>10. WqOrder'
    <2>1. ASSUME NEW i \in DOMAIN wq'
          PROVE  wq'[i].len > 0 /\ First(heap', wq'[i]) > Acc'
                 /\ End(heap', wq'[i]) <= nread' + 1
      <3>1. i \in DOMAIN wq
        BY <1>2, Zenon
      <3>2. /\ wq[i].len > 0 /\ First(heap, wq[i]) > Acc
            /\ End(heap, wq[i]) <= nread + 1
            /\ k > 0 => End(heap, cq[1]) <= First(heap, wq[i])
        BY <1>3, <3>1, Zenon DEF Order, WqOrder, CqOrder
      <3>3. First(heap, wq[i]) > Acc'
        BY <1>4, <1>5, <1>6, <1>9, <3>1, <3>2
      <3> QED BY <1>2, <1>9, <3>1, <3>2, <3>3, ZenonT(30)
    <2>2. ASSUME NEW i \in DOMAIN wq', NEW j \in DOMAIN wq', i < j
          PROVE  End(heap', wq'[i]) <= First(heap', wq'[j])
      BY <1>2, <1>9, <2>2, Zenon DEF Order, WqOrder
    <2>3. ASSUME NEW i \in DOMAIN wq', i + 1 \in DOMAIN wq'
          PROVE  End(heap', wq'[i]) = First(heap', wq'[i + 1])
      BY <1>2, <1>9, <2>3, Zenon DEF Order, WqOrder
    <2>4. wq' # <<>> => End(heap', wq'[Len(wq')]) = nread' + 1
      <3>1. wq # <<>> => Len(wq) \in DOMAIN wq
        BY <1>1 DEF QueueTyped
      <3> QED BY <1>2, <1>9, <3>1, ZenonT(30) DEF Order, WqOrder
    <2> QED BY <2>1, <2>2, <2>3, <2>4, Zenon DEF WqOrder
  <1>11. CqOrder'
    <2>1. ASSUME NEW i \in DOMAIN cq', cq'[i].len > 0
          PROVE  First(heap', cq'[i]) > Acc' /\ End(heap', cq'[i]) <= nread' + 1
      <3>1. /\ First(heap, cq[i + 1]) > Acc
            /\ End(heap, cq[i + 1]) <= nread + 1
        BY <1>8, <2>1, Zenon DEF Order, CqOrder
      <3>2. k > 0 => End(heap, cq[1]) <= First(heap, cq[i + 1])
        BY <1>3, <1>8, Zenon DEF Order, CqOrder
      <3>3. First(heap, cq[i + 1]) > Acc'
        <4>1. First(heap, cq[i + 1]) \in Nat
          BY <1>8, Zenon
        <4> QED BY <1>4, <1>5, <1>6, <3>1, <3>2, <4>1
      <3> QED BY <1>2, <1>8, <3>1, <3>3, Zenon
    <2>2. ASSUME NEW i \in DOMAIN cq', NEW j \in DOMAIN cq', i < j,
                 cq'[i].len > 0
          PROVE  cq'[j].len > 0 /\ End(heap', cq'[i]) <= First(heap', cq'[j])
      <3>1. i + 1 < j + 1
        BY <1>7, <2>2
      <3>2. /\ i + 1 \in DOMAIN cq /\ j + 1 \in DOMAIN cq
            /\ cq'[i] = cq[i + 1] /\ cq'[j] = cq[j + 1]
            /\ End(heap', cq'[i]) = End(heap, cq[i + 1])
            /\ First(heap', cq'[j]) = First(heap, cq[j + 1])
        BY <1>8, ZenonT(30)
      <3> QED BY <2>2, <3>1, <3>2, Zenon DEF Order, CqOrder
    <2>3. ASSUME NEW i \in DOMAIN cq', i + 1 \in DOMAIN cq', cq'[i].len > 0
          PROVE  First(heap', cq'[i + 1]) = End(heap', cq'[i])
      <3>1. /\ i + 1 \in DOMAIN cq /\ (i + 1) + 1 \in DOMAIN cq
            /\ cq'[i] = cq[i + 1]
            /\ End(heap', cq'[i]) = End(heap, cq[i + 1])
            /\ First(heap', cq'[i + 1]) = First(heap, cq[(i + 1) + 1])
        BY <1>8, <2>3, ZenonT(30)
      <3> QED BY <2>3, <3>1, Zenon DEF Order, CqOrder
    <2>4. ASSUME NEW i \in DOMAIN cq', NEW j \in DOMAIN wq', cq'[i].len > 0
          PROVE  End(heap', cq'[i]) <= First(heap', wq'[j])
      <3>1. j \in DOMAIN wq
        BY <1>2, Zenon
      <3>2. End(heap, cq[i + 1]) <= First(heap, wq[j])
        BY <1>8, <2>4, <3>1, Zenon DEF Order, CqOrder
      <3> QED BY <1>8, <1>9, <3>1, <3>2, Zenon
    <2> QED BY <2>1, <2>2, <2>3, <2>4, Zenon DEF CqOrder
  <1>12. Heads'
    <2>1. ASSUME NEW i \in DOMAIN cq', cq'[i].len > 0,
                 i = 1 \/ cq'[i - 1].len = 0
          PROVE  First(heap', cq'[i]) = Acc' + 1
      <3>1. /\ i \in 1 .. C - 1 /\ i + 1 \in DOMAIN cq /\ cq[i + 1].len > 0
            /\ First(heap', cq'[i]) = First(heap, cq[i + 1])
        BY <1>8, <2>1, Zenon
      <3>2. CASE i = 1 /\ k > 0
        BY <1>3, <1>6, <3>1, <3>2, Zenon DEF Order, CqOrder
      <3>3. CASE cq[i].len = 0
        <4>1. (i + 1) - 1 = i
          BY <3>1
        <4>2. First(heap, cq[i + 1]) = Acc + 1
          BY <3>1, <3>3, <4>1, ZenonT(40) DEF Order, Heads
        <4>3. k = 0
          <5>1. i \in DOMAIN cq /\ (i = 1 \/ 1 < i)
            BY <1>3, <3>1
          <5> QED BY <1>3, <1>4, <3>3, <5>1 DEF Order, CqOrder
        <4> QED BY <1>4, <1>5, <3>1, <4>2, <4>3
      <3>4. CASE i # 1
        <4>1. i - 1 \in DOMAIN cq' /\ (i - 1) + 1 = i
          BY <1>7, <3>1, <3>4
        <4>2. cq'[i - 1] = cq[i]
          BY <1>8, <4>1, Zenon
        <4> QED BY <2>1, <3>3, <3>4, <4>2, ZenonT(40)
      <3> QED BY <1>4, <3>2, <3>3, <3>4
    <2>2. ASSUME \A i \in DOMAIN cq' : cq'[i].len = 0
          PROVE  IF wq' = <<>> THEN Acc' = nread'
                               ELSE First(heap', wq'[1]) = Acc' + 1
      <3>1. wq # <<>> => First(heap', wq'[1]) = First(heap, wq[1])
        <4>1. wq # <<>> => 1 \in DOMAIN wq
          BY <1>1 DEF QueueTyped
        <4> QED BY <1>9, <4>1, Zenon
      <3>2. ASSUME NEW j \in DOMAIN cq, j # 1
            PROVE  cq[j].len = 0
        <4>1. j - 1 \in DOMAIN cq' /\ (j - 1) + 1 = j
          BY <1>3, <1>7, <3>2
        <4> QED BY <1>8, <2>2, <4>1, Zenon
      <3>3. CASE k = 0
        <4>1. \A j \in DOMAIN cq : cq[j].len = 0
          BY <3>2, <3>3, Zenon
        <4>2. IF wq = <<>> THEN Acc = nread ELSE First(heap, wq[1]) = Acc + 1
          BY <4>1, Zenon DEF Order, Heads
        <4> QED BY <1>2, <1>4, <1>5, <3>1, <3>3, <4>2
      <3>4. CASE k # 0
        <4>1. C = 1
          <5>1. SUFFICES ASSUME C # 1 PROVE FALSE
            BY Zenon
          <5>2. 2 \in DOMAIN cq /\ 1 < 2 /\ 2 # 1
            BY <1>3, <5>1
          <5>3. cq[2].len = 0
            BY <3>2, <5>2, Zenon
          <5> QED BY <1>3, <1>4, <3>4, <5>2, <5>3 DEF Order, CqOrder
        <4>2. IF wq = <<>> THEN End(heap, cq[1]) = nread + 1
                           ELSE First(heap, wq[1]) = End(heap, cq[1])
          BY <1>2, <1>4, <3>4, <4>1 DEF Order, Heads
        <4>3. End(heap, cq[1]) = Acc + k + 1 /\ Acc' = Acc + k
          BY <1>4, <1>5, <1>6, <3>4
        <4>4. CASE wq = <<>>
          <5>1. Acc + k = nread
            <6> HIDE DEF k
            <6>1. Acc + k + 1 = nread + 1
              BY <4>2, <4>3, <4>4, Zenon
            <6> QED BY <1>4, <6>1
          <5> QED BY <1>2, <4>3, <4>4, <5>1, Zenon
        <4>5. CASE wq # <<>>
          BY <1>2, <3>1, <4>2, <4>3, <4>5, Zenon
        <4> QED BY <4>4, <4>5, Zenon
      <3> QED BY <3>3, <3>4, Zenon
    <2>3. ASSUME cq' # <<>>, cq'[Len(cq')].len > 0
          PROVE  IF wq' = <<>> THEN End(heap', cq'[Len(cq')]) = nread' + 1
                               ELSE First(heap', wq'[1]) = End(heap', cq'[Len(cq')])
      <3>1. wq # <<>> => First(heap', wq'[1]) = First(heap, wq[1])
        <4>1. wq # <<>> => 1 \in DOMAIN wq
          BY <1>1 DEF QueueTyped
        <4> QED BY <1>9, <4>1, Zenon
      <3>2. C - 1 \in DOMAIN cq' /\ (C - 1) + 1 = C /\ Len(cq') = C - 1
        <4>1. C - 1 # 0
          BY <1>2, <1>3, <1>7, <2>3, TailFacts, Zenon
        <4> QED BY <1>3, <1>7, <4>1
      <3>3. cq'[C - 1] = cq[C] /\ End(heap', cq'[C - 1]) = End(heap, cq[C])
        BY <1>8, <3>2, Zenon
      <3>4. IF wq = <<>> THEN End(heap, cq[C]) = nread + 1
                         ELSE First(heap, wq[1]) = End(heap, cq[C])
        BY <1>2, <2>3, <3>2, <3>3, Zenon DEF Order, Heads
      <3> QED BY <1>2, <3>1, <3>2, <3>3, <3>4, ZenonT(40)
    <2> QED BY <2>1, <2>2, <2>3, Zenon DEF Heads
  <1> QED BY <1>10, <1>11, <1>12, Zenon DEF Order
\* Every step keeps the requests end to end on the client's stream.
LEMMA OrderStep ==
  ASSUME TypeOK, Control, Sync, BufferOwnership, Order, Next
  PROVE  Order'
  <1>1. CASE WriteError
    BY <1>1, WriteErrorEffect, OrderMove, Zenon DEF Order
  <1>2. CASE uv__stream_flush_write_queue /\ wq # <<>>
    BY <1>2, FlushEffect, OrderMove, Zenon DEF Order
  <1> QED
    BY <1>1, <1>2, QueueCases, OrderFrame, OrderRead, OrderWrite, OrderCallback, Zenon

-----------------------------------------------------------------------------
(* The output.                                                             *)

\* A reset and the destruction of the handle are final, and only write()
\* adds to the output.
LEMMA OutFrame ==
  ASSUME TypeOK, Control, Next
  PROVE  /\ peer' # "reset" => peer # "reset"
         /\ hstate' # "closed" => hstate # "closed"
         /\ WriteSome \/ out' = out
  <1>1. CASE Client
    BY <1>1, Zenon DEF Client, ClientConnect, ClientSend, ClientRecv,
                ClientShutdown, ClientReset, server
  <1>2. CASE \/ uv__run_pending \/ on_new_connection \/ uv__io_poll
             \/ uv__io_poll_timeout \/ uv__run_closing_handles
    BY <1>2, Zenon DEF uv__run_pending, on_new_connection, uv__io_poll,
                uv__io_poll_timeout, uv__run_closing_handles, client, flags
  <1>3. CASE \/ ReadData \/ ReadAgain \/ ReadEnd \/ ReadStop
             \/ uv__stream_io_hup
    BY <1>3, Zenon DEF ReadData, ReadAgain, ReadEnd, ReadStop, uv__stream_io_hup,
                ReadTurn, In, uv_close, Control, client, flags
  <1>4. CASE \/ WriteNothing \/ WriteAgain \/ WriteError \/ Sigpipe
             \/ write_cb \/ CallbacksDone \/ uv__stream_flush_write_queue
    BY <1>4, Zenon DEF WriteNothing, WriteAgain, WriteError, Sigpipe, write_cb,
                CallbacksDone, uv__stream_flush_write_queue, client, flags
  <1>5. CASE WriteSome
    BY <1>5, ZenonT(30) DEF WriteSome, client, flags
  <1> QED
    BY <1>1, <1>2, <1>3, <1>4, <1>5, Zenon DEF Next, Loop

\* Until the reset, what write() has taken is what write_queue_size has
\* dropped.
LEMMA SyncStep ==
  ASSUME TypeOK, Control, Sync, Order, Next
  PROVE  Sync'
  <1> SUFFICES ASSUME peer' # "reset", hstate' # "closed"
               PROVE  Acc' = Len(out') /\ \A i \in DOMAIN cq' : cq'[i].len = 0
    BY Zenon DEF Sync
  <1>1. /\ peer # "reset" /\ hstate # "closed"
        /\ Acc = Len(out) /\ \A i \in DOMAIN cq : cq[i].len = 0
        /\ WriteSome \/ out' = out
    BY OutFrame, Zenon DEF Sync
  <1>2. /\ cq \in Seq(Req) /\ DOMAIN cq = 1 .. Len(cq) /\ Len(cq) \in Nat
        /\ nread \in Nat /\ wqsize \in Nat /\ Len(out) \in Nat
    BY DEF TypeOK
  <1>3. CASE WriteSome
    <2>1. PICK n \in Nat \ {0} :
            /\ wqsize' = wqsize - n /\ Len(out') = Len(out) + n
            /\ wq # <<>> /\ n <= wq[1].len /\ Advance(wq[1], n) \in Req
            /\ \/ cq' = cq
               \/ n = wq[1].len /\ cq' = Append(cq, Advance(wq[1], n))
      BY <1>3, WriteSomeEffect, ZenonT(30) DEF Order
    <2>2. Acc' = Acc + n
      BY <1>2, <1>3, <2>1 DEF Acc, WriteSome
    <2>3. n = wq[1].len => Advance(wq[1], n).len = 0
      <3>1. wq[1] \in Req /\ wq[1].len \in Nat
        BY <2>1, HeadFits, Zenon DEF Order, Req
      <3>2. Advance(wq[1], n).len = wq[1].len - n
        BY <2>1, <3>1, AdvanceFacts, Zenon
      <3> QED BY <3>1, <3>2
    <2>4. CASE cq' = cq
      BY <1>1, <2>1, <2>2, <2>4, Zenon
    <2>5. CASE n = wq[1].len /\ cq' = Append(cq, Advance(wq[1], n))
      <3> DEFINE s == Advance(wq[1], n)
      <3>1. s \in Req /\ s.len = 0 /\ cq' = Append(cq, s)
        BY <2>1, <2>3, <2>5, Zenon
      <3> HIDE DEF s
      <3>2. /\ cq' \in Seq(Req) /\ Len(cq') = Len(cq) + 1
            /\ \A i \in 1 .. Len(cq) : cq'[i] = cq[i]
            /\ cq'[Len(cq) + 1] = s
        BY <1>2, <3>1, AppendFacts
      <3>3. ASSUME NEW i \in DOMAIN cq' PROVE cq'[i].len = 0
        <4>1. i \in 1 .. Len(cq) \/ i = Len(cq) + 1
          BY <1>2, <3>2
        <4> QED BY <1>1, <1>2, <3>1, <3>2, <4>1, Zenon
      <3> QED BY <1>1, <2>1, <2>2, <3>3, Zenon
    <2> QED BY <2>1, <2>4, <2>5, Zenon
  <1>4. CASE ReadData
    <2>1. PICK n \in Nat : wqsize' = wqsize + n /\ nread' = nread + n
                           /\ cq' = cq /\ out' = out
      BY <1>4, ReadDataEffect, Zenon
    <2> QED BY <1>1, <1>2, <2>1 DEF Acc
  <1>5. CASE write_cb
    <2>1. /\ cq # <<>> /\ cq' = Tail(cq) /\ wqsize' = wqsize - cq[1].len
          /\ nread' = nread /\ out' = out
      BY <1>5, CallbackEffect, Zenon DEF Order
    <2>2. cq[1].len = 0
      BY <1>1, <1>2, <2>1
    <2>3. /\ cq' \in Seq(Req) /\ Len(cq') = Len(cq) - 1
          /\ \A i \in 1 .. Len(cq) - 1 : cq'[i] = cq[i + 1]
      BY <1>2, <2>1, TailFacts, Zenon
    <2>4. ASSUME NEW i \in DOMAIN cq' PROVE cq'[i].len = 0
      <3>1. i \in 1 .. Len(cq) - 1 /\ i + 1 \in DOMAIN cq
        BY <1>2, <2>3
      <3> QED BY <1>1, <2>3, <3>1, Zenon
    <2>5. Acc' = Acc
      BY <1>2, <2>1, <2>2 DEF Acc
    <2> QED BY <1>1, <2>1, <2>4, <2>5, Zenon
  <1>6. CASE WriteError
    BY <1>1, <1>6, Zenon DEF WriteError
  <1>7. CASE uv__stream_flush_write_queue
    BY <1>1, <1>7, Zenon DEF uv__stream_flush_write_queue, In, Control
  <1>8. CASE QueueFrame /\ ~WriteSome
    BY <1>1, <1>8, Zenon DEF QueueFrame, Acc
  <1> QED
    BY <1>3, <1>4, <1>5, <1>6, <1>7, <1>8, QueueCases, Zenon

\* The bytes a write() adds continue the output.
LEMMA EchoPrefixStep ==
  ASSUME TypeOK, Control, Sync, Order, EchoPrefix, Next
  PROVE  EchoPrefix'
  <1>1. CASE WriteSome
    <2>1. PICK n \in Nat \ {0} :
            /\ wq # <<>> /\ Len(out') = Len(out) + n
            /\ \A i \in 1 .. Len(out) : out'[i] = out[i]
            /\ \A i \in Len(out) + 1 .. Len(out) + n :
                 out'[i] = First(heap, wq[1]) + (i - Len(out) - 1)
      BY <1>1, WriteSomeEffect, Zenon DEF Order
    <2>2. Acc = Len(out) /\ \A i \in DOMAIN cq : cq[i].len = 0
      BY <1>1, Zenon DEF WriteSome, Writing, Control, Sync
    <2>3. First(heap, wq[1]) = Len(out) + 1 /\ Len(out) \in Nat
      BY <2>1, <2>2 DEF Order, Heads, TypeOK
    <2>4. ASSUME NEW i \in 1 .. Len(out') PROVE out'[i] = i
      <3>1. i \in 1 .. Len(out) \/ i \in Len(out) + 1 .. Len(out) + n
        BY <2>1, <2>3
      <3>2. CASE i \in 1 .. Len(out)
        BY <2>1, <3>2, Zenon DEF EchoPrefix
      <3>3. CASE i \in Len(out) + 1 .. Len(out) + n
        BY <2>1, <2>3, <3>3
      <3> QED BY <3>1, <3>2, <3>3, Zenon
    <2> QED BY <2>4, Zenon DEF EchoPrefix
  <1>2. CASE out' = out
    BY <1>2, Zenon DEF EchoPrefix
  <1> QED
    BY <1>1, <1>2, OutFrame, Zenon
-----------------------------------------------------------------------------
(* The inductive invariant and the properties that follow from it.         *)

\* The state in which main enters uv_run satisfies the invariant.
LEMMA InitIInv ==
  ASSUME Init
  PROVE  IInv
  <1>1. TypeOK
    <2>1. heap \in [Buffers -> Nat]
      BY Zenon DEF Init
    <2>2. /\ out \in Seq(Nat) /\ Len(out) = 0
          /\ wq \in Seq(Req) /\ cq \in Seq(Req)
      BY DEF Init
    <2>3. count \in 0 .. ReadCount /\ nread \in 0 .. sent
      BY ConstantsAssumption DEF Init
    <2> QED
      BY <2>1, <2>2, <2>3, Zenon DEF Init, TypeOK
  <1>2. Control /\ Wakeup
    BY Zenon DEF Init, Control, Wakeup
  <1>3. wq = <<>> /\ cq = <<>> /\ out = <<>> /\ nread = 0 /\ wqsize = 0
    BY Zenon DEF Init
  <1>4. BufferOwnership
    BY <1>3 DEF Init, BufferOwnership
  <1>5. WqOrder /\ CqOrder /\ Heads /\ Sync
    BY <1>3 DEF WqOrder, CqOrder, Heads, Sync, Acc
  <1>6. EchoPrefix
    BY <1>3 DEF EchoPrefix
  <1> QED
    BY <1>1, <1>2, <1>4, <1>5, <1>6, Zenon DEF IInv

\* Every step of the client or of the loop thread keeps the invariant.
LEMMA NextIInv ==
  ASSUME IInv, [Next]_vars
  PROVE  IInv'
  <1>1. CASE Next
    <2>1. Order'
      BY <1>1, OrderStep, Zenon DEF IInv, Order
    <2>2. TypeOK' /\ Control' /\ BufferOwnership'
      BY <1>1, TypeStep, ControlStep, OwnershipStep, Zenon DEF IInv
    <2>3. Sync' /\ EchoPrefix' /\ Wakeup'
      BY <1>1, SyncStep, EchoPrefixStep, WakeupStep, Zenon DEF IInv, Order
    <2> QED
      BY <2>1, <2>2, <2>3, Zenon DEF IInv, Order
  <1>2. CASE UNCHANGED vars
    <2>1. TypeOK'
      BY <1>2 DEF vars, IInv, TypeOK
    <2>2. Control'
      BY <1>2, ZenonT(40) DEF vars, IInv, Control
    <2>3. BufferOwnership' /\ EchoPrefix'
      BY <1>2 DEF vars, IInv, BufferOwnership, EchoPrefix
    <2>4. Order'
      BY <1>2, OrderFrame, Zenon DEF vars, QueueFrame, IInv, Order
    <2>5. Sync' /\ Wakeup'
      BY <1>2, Zenon DEF vars, IInv, Sync, Wakeup, Acc
    <2> QED
      BY <2>1, <2>2, <2>3, <2>4, <2>5, ZenonT(40) DEF IInv, Order
  <1> QED
    BY <1>1, <1>2, Zenon

\* The invariant holds in every reachable state.
THEOREM Inductive == Spec => []IInv
  <1>1. Init => IInv
    BY InitIInv, Zenon
  <1>2. IInv /\ [Next]_vars => IInv'
    BY NextIInv, Zenon
  <1> QED
    BY <1>1, <1>2, PTL DEF Spec

\* The server's state keeps its types; in particular write_queue_size, an
\* unsigned size_t decremented by uv__write and uv__write_callbacks, never
\* goes below zero.
THEOREM TypeCorrect == Spec => []TypeOK
  <1>1. IInv => TypeOK
    BY Zenon DEF IInv
  <1> QED
    BY <1>1, Inductive, PTL

\* The server only ever writes back a prefix of what it read.
THEOREM EchoIsPrefix == Spec => []EchoPrefix
  <1>1. IInv => EchoPrefix
    BY Zenon DEF IInv
  <1> QED
    BY <1>1, Inductive, PTL

\* No byte read is dropped or counted twice while the connection lives.
THEOREM NothingDropped == Spec => []NoByteDropped
  <1>1. IInv => NoByteDropped
    <2> SUFFICES ASSUME IInv, peer # "reset", hstate # "closed"
                 PROVE  Len(out) + wqsize = nread
      BY Zenon DEF NoByteDropped
    <2>1. nread \in Nat /\ wqsize \in Nat /\ Len(out) \in Nat
      BY DEF IInv, TypeOK
    <2>2. nread - wqsize = Len(out)
      BY Zenon DEF IInv, Sync, Acc
    <2> QED BY <2>1, <2>2
  <1> QED
    BY <1>1, Inductive, PTL

\* Every buffer belongs to exactly one unanswered request: none is freed
\* twice, used after free or leaked.
THEOREM BuffersOwned == Spec => []BufferOwnership
  <1>1. IInv => BufferOwnership
    BY Zenon DEF IInv
  <1> QED
    BY <1>1, Inductive, PTL

\* libuv's assertions hold wherever the thread reaches them.
THEOREM AssertionsHold == Spec => []AssertsHold
  <1>1. ASSUME IInv PROVE AssertsHold
    <2>1. Control /\ TypeOK /\ WqOrder /\ CqOrder /\ Heads
      BY <1>1, Zenon DEF IInv
    <2>2. wq # <<>> => wqsize >= wq[1].len
      BY <2>1, HeadFits, Zenon
    <2>3. cq # <<>> => wqsize >= cq[1].len
      <3> SUFFICES ASSUME cq # <<>> PROVE wqsize >= cq[1].len
        BY Zenon
      <3>1. /\ cq[1] \in Req /\ 1 \in DOMAIN cq
            /\ wqsize \in Nat /\ nread \in Nat
        BY <2>1 DEF TypeOK
      <3>2. First(heap, cq[1]) \in Nat /\ cq[1].len \in Nat
        BY <2>1, <3>1, FirstType, Zenon
      <3>3. cq[1].len > 0
              => First(heap, cq[1]) > Acc /\ End(heap, cq[1]) <= nread + 1
        BY <2>1, <3>1, Zenon DEF CqOrder
      <3> QED BY <3>1, <3>2, <3>3 DEF Acc, End
    <2>4. pc = "callbacks" /\ cq = <<>> /\ hstate = "closed" => wqsize = 0
      <3> SUFFICES ASSUME pc = "callbacks", cq = <<>>, hstate = "closed"
                   PROVE  wqsize = 0
        BY Zenon
      <3>1. wq = <<>>
        BY <2>1, Zenon DEF Control
      <3>2. Acc = nread
        BY <2>1, <3>1 DEF Heads
      <3> QED BY <2>1, <3>2 DEF Acc, TypeOK
    <2>5. hstate \in {"closing", "closed"} => pevents = {} /\ ~fed
      BY <2>1, Zenon DEF Control
    <2>6. pc \in {"read", "inline", "hup", "write"} => hstate = "open"
      BY <2>1, Zenon DEF Control
    <2> QED
      BY <2>2, <2>3, <2>4, <2>5, <2>6, Zenon DEF AssertsHold
  <1> QED
    BY <1>1, Inductive, PTL

\* A connection with unanswered requests is always going to be woken.
THEOREM WakeupNeverLost == Spec => []NoLostWakeup
  <1>1. IInv => NoLostWakeup
    BY Zenon DEF IInv, Wakeup, NoLostWakeup
  <1> QED
    BY <1>1, Inductive, PTL

-----------------------------------------------------------------------------
(* Refinement: reads are Receive, writes are Echo, closing is HangUp.      *)

\* Every step is a step of the abstract echo or leaves it unchanged.
LEMMA EchoStep ==
  ASSUME IInv, IInv', [Next]_vars
  PROVE  [Abs!ANext]_(Abs!avars)
  <1> USE DEF Abs!ANext, Abs!avars
  <1>1. TypeOK /\ Control
    BY DEF IInv
  <1>2. CASE ReadData
    <2>1. PICK n \in Nat \ {0} : nread' = nread + n
      BY <1>1, <1>2, ReadDataEffect, Zenon
    <2>2. nread \in Nat
      BY <1>1 DEF TypeOK
    <2>3. nread' \in Nat /\ nread' > nread
      BY <2>1, <2>2
    <2> QED
      BY <1>1, <1>2, <2>3, Zenon DEF Abs!Receive, ReadData, ReadTurn, In, Control,
                              flags
  <1>3. CASE WriteSome
    <2>1. hstate = "open" /\ nread' = nread /\ hstate' = hstate
          /\ peer' # "reset"
      BY <1>1, <1>3, Zenon DEF WriteSome, Writing, Control, flags, client
    <2>2. Len(out') > Len(out)
      <3>1. PICK n \in Nat \ {0} : Len(out') = Len(out) + n
        BY <1>1, <1>3, WriteSomeEffect, Zenon DEF IInv
      <3>2. Len(out) \in Nat
        BY <1>1 DEF TypeOK
      <3> QED BY <3>1, <3>2
    <2>3. Len(out') <= nread
      <3>1. nread' - wqsize' = Len(out')
        BY <2>1, Zenon DEF IInv, Sync, Acc
      <3>2. nread \in Nat /\ wqsize' \in Nat
        BY DEF IInv, TypeOK
      <3> QED BY <2>1, <3>1, <3>2
    <2>4. \A i \in 1 .. Len(out') : out'[i] = i
      BY Zenon DEF IInv, EchoPrefix
    <2> QED
      BY <2>1, <2>2, <2>3, <2>4, Zenon DEF Abs!Echo
  <1>4. CASE ReadEnd \/ uv__stream_io_hup
    BY <1>1, <1>4
                  DEF Abs!HangUp, ReadEnd, uv__stream_io_hup, ReadTurn, In,
                      uv_close, Control, flags
  <1>5. CASE Client
    BY <1>5, ZenonT(40) DEF Client, ClientConnect, ClientSend, ClientRecv,
                ClientShutdown, ClientReset, server
  <1>6. CASE \/ uv__run_pending \/ on_new_connection \/ uv__io_poll
             \/ uv__io_poll_timeout \/ uv__run_closing_handles
    BY <1>6
       DEF uv__run_pending, on_new_connection, uv__io_poll,
           uv__io_poll_timeout, uv__run_closing_handles, flags
  <1>7. CASE \/ ReadAgain \/ ReadStop \/ WriteNothing \/ WriteAgain
             \/ WriteError \/ Sigpipe \/ write_cb \/ CallbacksDone
             \/ uv__stream_flush_write_queue
    BY <1>7, Zenon DEF ReadAgain, ReadStop, WriteNothing, WriteAgain, WriteError,
                Sigpipe, write_cb, CallbacksDone,
                uv__stream_flush_write_queue, flags
  <1>8. CASE UNCHANGED vars
    BY <1>8, Zenon DEF vars
  <1> QED
    BY <1>2, <1>3, <1>4, <1>5, <1>6, <1>7, <1>8, Zenon DEF Next, Loop

\* The callbacks on libuv's stream implement the abstract echo.
THEOREM Refinement == Spec => ImplementsEcho
  <1>1. Init => Abs!AInit
    BY Zenon DEF Init, Abs!AInit
  <1>2. IInv /\ IInv' /\ [Next]_vars => [Abs!ANext]_(Abs!avars)
    BY EchoStep, Zenon
  <1> QED
    BY <1>1, <1>2, Inductive, PTL DEF Spec, ImplementsEcho, Abs!ASpec
============================================================================
