------------------------------ MODULE DBConnector ------------------------------
(***************************************************************************)
(* DBConnector (server/source/DBConnector.cpp) over the MySQL client       *)
(* library: connecting, the search for an account with an unbuffered       *)
(* result, signing up.  The server executes a statement at some moment     *)
(* after it was sent, other clients sign up and delete accounts, and the   *)
(* connection may break at any moment.  Connect comes before other calls.  *)
(***************************************************************************)
EXTENDS Integers, Sequences, FiniteSets

CONSTANTS
  Ids, Passwords,
  NoAccount,   \* no row for an id
  MaxCalls,    \* bound: calls
  MaxConns     \* bound: calls of Connect

Commands == {"search", "signup"}
Idle == [op |-> "idle"]

VARIABLES
  table,   \* the accounts in the database: Ids -> password or NoAccount
  conn,    \* Conn: "none", "init" (not connected) or "up"
  status,  \* mysql->status: "ready" or "use_result"
  broken,  \* the connection is lost
  wire,    \* what is under way: statements, then answers
  call,    \* the call in progress
  pc,
  seen,    \* passwords the call's id had since the call began
  stored,  \* did the server execute the call's INSERT?
  result,  \* of the last call that returned: what it gave, whether the account had
           \* and lacked the password in the call, whether the connection was lost
  calls, conns

vars == <<table, conn, status, broken, wire, call, pc, seen, stored, result,
          calls, conns>>

NoResult == [op |-> "none", value |-> FALSE, had |-> FALSE, lacked |-> FALSE,
             stored |-> FALSE, lost |-> FALSE]

Init ==
  /\ table = [i \in Ids |-> NoAccount]
  /\ conn = "none" /\ status = "ready" /\ broken = FALSE /\ wire = <<>>
  /\ call = Idle /\ pc = "idle" /\ seen = {} /\ stored = FALSE
  /\ result = NoResult /\ calls = 0 /\ conns = 0

-----------------------------------------------------------------------------
(* The server, other clients, the network.                                 *)

Put(i, p) ==
  /\ table' = [table EXCEPT ![i] = p]
  /\ seen' = IF pc # "idle" /\ call.id = i THEN seen \cup {p} ELSE seen

\* A SELECT is answered by its fields and its rows, an INSERT by OK, or by an
\* error if the id has an account.
ServerExecutes ==
  /\ wire # <<>> /\ Head(wire).kind \in Commands
  /\ LET c == Head(wire)
     IN IF c.kind = "search"
        THEN /\ wire' = IF table[c.id] = c.pw
                        THEN <<[kind |-> "fields"], [kind |-> "row"], [kind |-> "eof"]>>
                        ELSE <<[kind |-> "fields"], [kind |-> "eof"]>>
             /\ UNCHANGED <<table, seen, stored>>
        ELSE IF table[c.id] = NoAccount
             THEN /\ wire' = <<[kind |-> "ok"]>>
                  /\ Put(c.id, c.pw)
                  /\ stored' = TRUE
             ELSE /\ wire' = <<[kind |-> "error"]>>
                  /\ UNCHANGED <<table, seen, stored>>
  /\ UNCHANGED <<conn, status, broken, call, pc, result, calls, conns>>

OtherClient ==
  /\ \E i \in Ids, p \in Passwords \cup {NoAccount} : p # table[i] /\ Put(i, p)
  /\ UNCHANGED <<conn, status, broken, wire, call, pc, stored, result, calls,
                 conns>>

\* The break loses any suffix of what is under way.  A statement executed
\* after its caller gave up acts like another client's.
Break ==
  /\ conn = "up" /\ ~broken
  /\ broken' = TRUE
  /\ \E n \in 0 .. Len(wire) : wire' = SubSeq(wire, 1, n)
  /\ UNCHANGED <<table, conn, status, call, pc, seen, stored, result, calls,
                 conns>>

-----------------------------------------------------------------------------
Return(v) ==
  /\ result' = [op |-> call.op, value |-> v,
                had |-> call.pw \in seen, lacked |-> seen # {call.pw},
                stored |-> stored, lost |-> broken \/ conn # "up"]
  /\ call' = Idle /\ pc' = "idle" /\ seen' = {} /\ stored' = FALSE
  /\ UNCHANGED <<table, broken, calls>>

\* mysql_init and mysql_real_connect; the handle of an earlier call is lost.
Connect ==
  /\ pc = "idle" /\ conns < MaxConns
  /\ conn' \in {"init", "up"}
  /\ conns' = conns + 1
  /\ status' = "ready" /\ broken' = FALSE /\ wire' = <<>>
  /\ UNCHANGED <<table, call, pc, seen, stored, result, calls>>

Close ==
  /\ pc = "idle" /\ conn # "none"
  /\ conn' = "none" /\ status' = "ready" /\ broken' = FALSE /\ wire' = <<>>
  /\ UNCHANGED <<table, call, pc, seen, stored, result, calls, conns>>

Begin(op) ==
  /\ pc = "idle" /\ calls < MaxCalls /\ conn # "none"
  /\ \E i \in Ids, p \in Passwords :
       /\ call' = [op |-> op, id |-> i, pw |-> p]
       /\ seen' = {table[i]}
  /\ stored' = FALSE
  /\ pc' = "query" /\ calls' = calls + 1
  /\ UNCHANGED <<table, conn, status, broken, wire, result, conns>>

SearchAccount == Begin("search")
SignUpAccount == Begin("signup")

\* mysql_query sends the statement unless the handle is not connected or a
\* result is still open (commands out of sync).
mysql_query ==
  /\ pc = "query"
  /\ IF conn = "up" /\ status = "ready" /\ ~broken
     THEN /\ wire' = Append(wire, [kind |-> call.op, id |-> call.id,
                                   pw |-> call.pw])
          /\ pc' = "answer"
          /\ UNCHANGED <<table, conn, status, broken, call, seen, stored,
                         result, calls, conns>>
     ELSE Return(FALSE) /\ UNCHANGED <<conn, status, wire, conns>>

\* It waits for the first answer; a lost connection is an error, too.
QueryFails ==
  /\ pc = "answer"
  /\ \/ wire = <<>> /\ broken /\ UNCHANGED wire
     \/ wire # <<>> /\ broken /\ Head(wire).kind \in Commands /\ wire' = <<>>
     \/ wire # <<>> /\ Head(wire).kind = "error" /\ wire' = Tail(wire)
  /\ Return(FALSE)
  /\ UNCHANGED <<conn, status, conns>>

\* The INSERT was executed.
SignUpReturns ==
  /\ pc = "answer" /\ wire # <<>> /\ Head(wire).kind = "ok"
  /\ wire' = Tail(wire)
  /\ Return(TRUE)
  /\ UNCHANGED <<conn, status, conns>>

\* The SELECT's fields have come: mysql_use_result opens the result.
mysql_use_result ==
  /\ pc = "answer" /\ wire # <<>> /\ Head(wire).kind = "fields"
  /\ wire' = Tail(wire)
  /\ status' = "use_result"
  /\ pc' = "fetch"
  /\ UNCHANGED <<table, conn, broken, call, seen, stored, result, calls, conns>>

\* mysql_fetch_row gives a row, the end of the rows, or null for a lost
\* connection, which SearchAccount takes for the end.
mysql_fetch_row ==
  /\ pc = "fetch"
  /\ \/ /\ wire # <<>>
        /\ pc' = IF Head(wire).kind = "row" THEN "found" ELSE "absent"
        /\ status' = IF Head(wire).kind = "row" THEN status ELSE "ready"
        /\ wire' = Tail(wire)
     \/ /\ wire = <<>> /\ broken
        /\ pc' = "absent" /\ status' = "ready"
        /\ UNCHANGED wire
  /\ UNCHANGED <<table, conn, broken, call, seen, stored, result, calls, conns>>

mysql_free_result_forgotten ==
  /\ pc \in {"found", "absent"}
  /\ Return(pc = "found")
  /\ UNCHANGED <<conn, status, wire, conns>>

mysql_free_result_unread ==
  /\ pc \in {"found", "absent"}
  /\ status' = "ready"
  /\ Return(pc = "found")
  /\ UNCHANGED <<conn, wire, conns>>

\* mysql_free_result reads what is left of an open result.
mysql_free_result ==
  /\ pc \in {"found", "absent"}
  /\ status = "use_result" => wire # <<>> \/ broken
  /\ wire' = <<>> /\ status' = "ready"
  /\ Return(pc = "found")
  /\ UNCHANGED <<conn, conns>>

-----------------------------------------------------------------------------
Thread ==
  \/ mysql_query \/ QueryFails \/ SignUpReturns \/ mysql_use_result
  \/ mysql_fetch_row \/ mysql_free_result

Next ==
  \/ ServerExecutes \/ OtherClient \/ Break
  \/ Connect \/ Close \/ SearchAccount \/ SignUpAccount \/ Thread

Spec == Init /\ [][Next]_vars

\* The thread runs, and the server answers.
FairSpec == Spec /\ WF_vars(Thread) /\ WF_vars(ServerExecutes)

-----------------------------------------------------------------------------
(* Properties.                                                             *)

\* Between two calls a working connection has no open result and nothing
\* under way, so no call reads the answer to another one and mysql_query never
\* fails with "commands out of sync" (mysql_free_result on every path).
InSync ==
  pc = "idle" /\ conn = "up" /\ ~broken => status = "ready" /\ wire = <<>>

\* SearchAccount returns true only for an account that existed with that
\* password at some moment of the call.
SearchTrueFound ==
  result.op = "search" /\ result.value => result.had

\* SearchAccount returns false, on a connection that is not broken, only if
\* the account did not have that password at some moment of the call.
SearchFalseAbsent ==
  result.op = "search" /\ ~result.value /\ ~result.lost => result.lacked

\* SignUpAccount returns true exactly if the server made the account, unless
\* the connection broke before its answer came.
SignUpTold ==
  result.op = "signup" /\ (result.value \/ ~result.lost) =>
    result.value = result.stored

\* Every call returns if the server answers or the connection breaks.
CallsReturn == pc # "idle" ~> pc = "idle"
================================================================================
