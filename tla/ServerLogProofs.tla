--------------------------- MODULE ServerLogProofs ---------------------------
(***************************************************************************)
(* What ServerLog promises for any number of messages, workers and days    *)
(* and any settings: the flushers' threads, the messages kept in order,    *)
(* and the rotation of the file.                                           *)
(***************************************************************************)
EXTENDS ServerLog, SequenceTheorems, TLAPS

-----------------------------------------------------------------------------
(* The inductive invariant.                                                *)

\* A line in the stdio buffer or in a file.
Line == [id : Nat, time : Nat, file : Int]

Types ==
  /\ clock \in Nat /\ conf \in Conf /\ logger \in BOOLEAN
  /\ file \in Int /\ rotation \in -1 .. Day - 1 /\ rotation_tp \in Int
  /\ buffer \in Seq(Line) /\ disk \in Seq(Line)
  /\ worker \in [Workers -> {"none", "lock", "wait", "flush_all", "flush", "exited"}]
  /\ flusher \in 0 .. MaxWorkers /\ old \in 0 .. MaxWorkers
  /\ nworkers \in 0 .. MaxWorkers
  /\ after \in {"idle", "log", "drop"}
  /\ msg \in [id : Nat, time : Nat]

\* Where the loop thread may be after which call.
Control ==
  /\ pc \in {"ctor", "ctor_tp", "register", "flush_every"} => after # "drop"
  /\ pc \in {"log", "sink", "rotated"} => after = "log"
  /\ pc \in {"ctor", "ctor_tp", "register"} => ~logger
  /\ pc \in {"flush_every", "log", "sink", "rotated"} => logger
  /\ pc \in {"stop", "join"} /\ after # "drop" => logger
  /\ pc \in {"stop", "join"} /\ after = "drop" => old = flusher
  /\ pc \in {"stop", "join"} => old # None

\* The worker made last is the current one.
LastWorker ==
  /\ flusher = nworkers
  /\ \A w \in Workers : w > nworkers => worker[w] = "none"

\* The message of the call that is running is not in the files yet; all before
\* it are, or were lost.
Pending == after = "log" /\ pc # "idle"

Kept ==
  /\ \A k \in DOMAIN Written : Written[k].file # NoFile
  /\ \A k \in DOMAIN Written : Written[k].id <= msg.id
  /\ Pending => \A k \in DOMAIN Written : Written[k].id # msg.id
  /\ \A j, k \in DOMAIN Written : j < k => Written[j].id < Written[k].id
  /\ \A n \in 1 .. msg.id :
       \/ n = msg.id /\ Pending
       \/ n \in lost
       \/ \E k \in DOMAIN Written : Written[k].id = n

\* A sink without a file is due for rotation, and one with a file is due less
\* than two days after the moment the file is named after.
Due ==
  /\ msg.time <= clock
  /\ pc \in {"ctor_tp", "register", "rotated"} => file # NoFile
  /\ logger /\ file = NoFile =>
       rotation_tp <= clock /\ (pc = "sink" => rotation_tp <= msg.time)
  /\ logger /\ file # NoFile /\ pc # "rotated" => rotation_tp < file + 2 * Day
  /\ pc = "register" => rotation_tp < file + 2 * Day
  /\ pc = "sink" => clock < msg.time + Day
  /\ pc \in {"ctor_tp", "rotated"} => clock < file + Day
  /\ pc = "rotated" => file = msg.time

IInv == Types /\ Control /\ LastWorker /\ OneFlusher /\ Kept /\ Due /\ RotatesInTime

-----------------------------------------------------------------------------
(* The lines written.                                                      *)

\* Handing the buffer to the system changes nothing.
LEMMA CloseWrites ==
  ASSUME NEW b \in Seq(Line), NEW d \in Seq(Line)
  PROVE  (d \o b) \o <<>> = d \o b /\ d \o b \in Seq(Line)
OBVIOUS

\* A line is added behind the others, whether or not stdio flushes.
LEMMA AppendWrites ==
  ASSUME NEW b \in Seq(Line), NEW d \in Seq(Line), NEW x \in Line
  PROVE  /\ d \o Append(b, x) = Append(d \o b, x)
         /\ (d \o Append(b, x)) \o <<>> = Append(d \o b, x)
         /\ Append(b, x) \in Seq(Line) /\ d \o Append(b, x) \in Seq(Line)
OBVIOUS

\* next_rotation_tp is at most a day ahead.
LEMMA RotationNear ==
  ASSUME NEW c \in Nat, NEW h \in -1 .. Day - 1
  PROVE  LET r == (c \div Day) * Day + h
         IN r \in Int /\ (IF r > c THEN r ELSE r + Day) \in Int
            /\ (IF r > c THEN r ELSE r + Day) <= c + Day
<1>1. Day \in Nat /\ Day > 0
  BY LogAssumption
<1>2. (c \div Day) \in Nat /\ (c \div Day) * Day \in Nat /\ (c \div Day) * Day <= c
  BY <1>1
<1> QED BY <1>1, <1>2

-----------------------------------------------------------------------------
(* The flushers.                                                           *)

\* The program starts without a logger and without workers.
LEMMA InitHolds == Init => IInv
<1> SUFFICES ASSUME Init PROVE IInv
  BY Zenon
<1>1. Types
  <2>1. conf \in Conf /\ 0 \in -1 .. Day - 1 /\ 0 \in 0 .. MaxWorkers
    BY LogAssumption DEF Init
  <2>2. worker \in [Workers -> {"none", "lock", "wait", "flush_all", "flush", "exited"}]
    BY Zenon DEF Init
  <2>3. msg \in [id : Nat, time : Nat]
    BY Zenon DEF Init
  <2>4. <<>> \in Seq(Line) /\ -1 \in Int /\ 0 \in Nat /\ 0 \in Int
    OBVIOUS
  <2> QED BY <2>1, <2>2, <2>3, <2>4, Zenon DEF Init, Types, None, NoFile
<1>2. Control /\ LastWorker
  BY Zenon DEF Init, Control, LastWorker, None
<1>3. OneFlusher
  BY Zenon DEF Init, OneFlusher, Running
<1>4. Written = <<>>
  BY DEF Init, Written
<1>5. Kept /\ RotatesInTime
  BY <1>4 DEF Init, Kept, Pending, RotatesInTime
<1>6. Due
  BY DEF Init, Due
<1> QED BY <1>1, <1>2, <1>3, <1>5, <1>6, Zenon DEF IInv

\* What each step of the loop thread and of the clock does to the flushers.
LEMMA LoopFlushers ==
  ASSUME IInv, Tick \/ Caller \/ Call \/ UNCHANGED vars
  PROVE  LastWorker' /\ OneFlusher'
<1>1. /\ worker \in [Workers -> {"none", "lock", "wait", "flush_all", "flush", "exited"}]
      /\ flusher \in 0 .. MaxWorkers /\ old \in 0 .. MaxWorkers
      /\ nworkers \in 0 .. MaxWorkers /\ None \notin Workers
      /\ after \in {"idle", "log", "drop"}
      /\ MaxWorkers \in Nat
  BY LogAssumption DEF IInv, Types, None, Workers
<1>2. /\ flusher = nworkers
      /\ \A w \in Workers : w > nworkers => worker[w] = "none"
      /\ \A w \in Workers : Running(w) =>
           w = flusher \/ (w = old /\ pc \in {"stop", "join"})
      /\ pc \in {"drop", "exited"} => \A w \in Workers : ~Running(w)
  BY Zenon DEF IInv, LastWorker, OneFlusher
<1>3. CASE flush_every
  <2> DEFINE n == nworkers + 1
  <2>1. /\ nworkers' = n /\ flusher' = n /\ old' = flusher
        /\ pc = "flush_every" /\ n \in Workers /\ n # nworkers
        /\ pc' = IF flusher # None /\ worker[flusher] # "none" THEN "stop" ELSE after
        /\ \E s : worker' = [worker EXCEPT ![n] = s]
        /\ after # "drop"
    <3>1. nworkers' = n /\ flusher' = n /\ old' = flusher /\ pc = "flush_every"
      BY <1>3, Zenon DEF flush_every
    <3>2. pc' = IF flusher # None /\ worker[flusher] # "none" THEN "stop" ELSE after
      BY <1>3, Zenon DEF flush_every
    <3>3. \E s : worker' = [worker EXCEPT ![n] = s]
      BY <1>3, Zenon DEF flush_every
    <3>4. nworkers < MaxWorkers
      BY <1>3, Zenon DEF flush_every
    <3>5. n \in Workers /\ n # nworkers
      BY <1>1, <3>4 DEF Workers
    <3>6. after # "drop"
      BY <3>1, Zenon DEF IInv, Control
    <3> QED BY <3>1, <3>2, <3>3, <3>5, <3>6, Zenon
  <2>2. \A w \in Workers : w # n => worker'[w] = worker[w]
    BY <1>1, <2>1, Zenon
  <2>3. \A w \in Workers : w > n => w > nworkers /\ w # n
    BY <1>1 DEF Workers
  <2> HIDE DEF n
  <2>4. LastWorker'
    BY <1>2, <2>1, <2>2, <2>3, Zenon DEF LastWorker
  <2>5. ASSUME NEW w \in Workers, Running(w)', w # n
        PROVE  w = old' /\ pc' = "stop"
    <3>1. Running(w)
      BY <2>2, <2>5, Zenon DEF Running
    <3>2. w = flusher
      BY <1>2, <2>1, <3>1, Zenon
    <3> QED BY <1>1, <2>1, <3>1, <3>2, Zenon DEF Running
  <2>6. pc' \notin {"drop", "exited"}
    BY <1>1, <2>1, Zenon
  <2> QED BY <2>1, <2>4, <2>5, <2>6, Zenon DEF OneFlusher
<1>4. CASE JoinWorker
  <2>1. /\ pc = "join" /\ worker[old] = "exited" /\ pc' = after
        /\ UNCHANGED <<worker, flusher, old, nworkers>>
    BY <1>4, Zenon DEF JoinWorker, flushers
  <2>2. \A w \in Workers : Running(w) => w # old
    BY <2>1, Zenon DEF Running
  <2>3. after = "drop" => old = flusher
    BY <2>1, Zenon DEF IInv, Control
  <2> QED BY <1>1, <1>2, <2>1, <2>2, <2>3, Zenon DEF LastWorker, OneFlusher, Running
<1>5. CASE Exit
  <2>1. /\ pc = "idle" /\ old' = flusher
        /\ pc' = IF flusher # None /\ worker[flusher] # "none" THEN "stop" ELSE "drop"
        /\ UNCHANGED <<worker, flusher, nworkers>>
    BY <1>5, Zenon DEF Exit
  <2>2. \A w \in Workers : Running(w) => w = flusher /\ pc' = "stop"
    BY <1>1, <1>2, <2>1, Zenon DEF Running
  <2> QED BY <1>2, <2>1, <2>2, Zenon DEF LastWorker, OneFlusher, Running
<1>6. CASE StopWorker
  BY <1>2, <1>6, Zenon DEF StopWorker, LastWorker, OneFlusher, Running
<1>7. CASE \/ Tick \/ LoadServerConf \/ Log \/ InitLog \/ LogMsg \/ sink_it \/ Rotated
           \/ daily_file_sink \/ SinkRotationTp \/ initialize_logger \/ Drop
           \/ UNCHANGED vars
  <2>1. UNCHANGED <<worker, flusher, old, nworkers>>
    BY <1>7, ZenonT(60) DEF Tick, LoadServerConf, Log, InitLog, LogMsg, sink_it,
       Rotated, daily_file_sink, SinkRotationTp, initialize_logger, Drop, flushers, vars
  <2>2. /\ pc' \in {"drop", "exited"} => pc \in {"drop", "exited"}
        /\ pc' \in {"stop", "join"} <=> pc \in {"stop", "join"}
    BY <1>7, Zenon DEF Tick, LoadServerConf, Log, InitLog, LogMsg, sink_it, Rotated,
       daily_file_sink, SinkRotationTp, initialize_logger, Drop, vars
  <2> QED BY <1>2, <2>1, <2>2, Zenon DEF LastWorker, OneFlusher, Running
<1> QED BY <1>3, <1>4, <1>5, <1>6, <1>7, Zenon DEF Caller, Call

\* A worker's own step, to s, by a thread that runs.
LEMMA WorkerFlushers ==
  ASSUME IInv, NEW w \in Workers, Worker(w)
  PROVE  LastWorker' /\ OneFlusher'
<1>1. \E s \in {"lock", "wait", "flush_all", "flush", "exited"} :
        worker' = [worker EXCEPT ![w] = s]
  BY ZenonT(30) DEF Worker, WaitFor, WakeUp, flush_all, Flush, Step
<1>2. UNCHANGED <<flusher, old, nworkers, pc>>
  BY ZenonT(30) DEF Worker, WaitFor, WakeUp, flush_all, Flush, Step
<1>3. Running(w)
  BY LogAssumption DEF Worker, WaitFor, WakeUp, flush_all, Flush, Running, Workers, None
<1>4. \A v \in Workers : v # w => worker'[v] = worker[v]
  BY <1>1, Zenon DEF IInv, Types
<1>5. worker[w] # "none"
  BY <1>3, Zenon DEF Running
<1>6. LastWorker'
  <2>1. ~(w > nworkers)
    BY <1>5, Zenon DEF IInv, LastWorker
  <2> QED BY <1>2, <1>4, <2>1, Zenon DEF IInv, LastWorker
<1>7. \A v \in Workers : Running(v)' => Running(v)
  BY <1>3, <1>4, Zenon DEF Running
<1>8. OneFlusher'
  BY <1>2, <1>7, Zenon DEF IInv, OneFlusher
<1> QED BY <1>6, <1>8, Zenon

-----------------------------------------------------------------------------
(* The messages.                                                           *)

\* A step that writes nothing and leaves the running call's message pending.
LEMMA KeptSame ==
  ASSUME IInv, Written' = Written, msg'.id = msg.id, lost' = lost, Pending' <=> Pending
  PROVE  Kept' /\ RotatesInTime'
BY Zenon DEF IInv, Kept, RotatesInTime

\* file_helper::close and flush.
LEMMA CloseSame == ASSUME IInv, Close PROVE Written' = Written
<1>1. buffer \in Seq(Line) /\ disk \in Seq(Line)
  BY Zenon DEF IInv, Types
<1>2. Written' = (disk \o buffer) \o <<>>
  BY Zenon DEF Close, Written
<1> QED BY <1>1, <1>2, CloseWrites, Zenon DEF Written

\* The pending message is written to an open file that is less than two
\* rotations old.
LEMMA WriteKeeps ==
  ASSUME IInv, pc \in {"sink", "rotated"}, pc' = "idle", msg' = msg, lost' = lost,
         Write(buffer, file), file # NoFile, msg.time < file + 2 * Day
  PROVE  /\ Kept' /\ RotatesInTime'
         /\ buffer' \in Seq(Line) /\ disk' \in Seq(Line)
<1> DEFINE x == [id |-> msg.id, time |-> msg.time, file |-> file]
           W == Written
<1>1. /\ buffer \in Seq(Line) /\ disk \in Seq(Line)
      /\ msg.id \in Nat /\ msg.time \in Nat /\ file \in Int
  BY Zenon DEF IInv, Types
<1>2. x \in Line /\ x.id = msg.id /\ x.time = msg.time /\ x.file = file
  BY <1>1, Zenon DEF Line
<1>3. \/ buffer' = Append(buffer, x) /\ disk' = disk
      \/ disk' = disk \o Append(buffer, x) /\ buffer' = <<>>
  BY Zenon DEF Write
<1> HIDE DEF x
<1>4. /\ Written' = Append(W, x) /\ W \in Seq(Line)
      /\ buffer' \in Seq(Line) /\ disk' \in Seq(Line)
  <2>1. CASE buffer' = Append(buffer, x) /\ disk' = disk
    BY <1>1, <1>2, <2>1, AppendWrites, CloseWrites, Zenon DEF Written
  <2>2. CASE disk' = disk \o Append(buffer, x) /\ buffer' = <<>>
    <3>1. Written' = (disk \o Append(buffer, x)) \o <<>>
      BY <2>2, Zenon DEF Written
    <3>2. <<>> \in Seq(Line)
      OBVIOUS
    <3>3. /\ (disk \o Append(buffer, x)) \o <<>> = Append(disk \o buffer, x)
          /\ disk \o Append(buffer, x) \in Seq(Line) /\ disk \o buffer \in Seq(Line)
      BY <1>1, <1>2, AppendWrites, CloseWrites, ZenonT(40)
    <3> QED BY <2>2, <3>1, <3>2, <3>3, Zenon DEF Written
  <2> QED BY <1>3, <2>1, <2>2, Zenon
<1>5. Pending /\ ~Pending'
  BY Zenon DEF IInv, Control, Pending
<1>6. /\ \A k \in DOMAIN W : W[k].file # NoFile
      /\ \A k \in DOMAIN W : W[k].id <= msg.id /\ W[k].id # msg.id
      /\ \A j, k \in DOMAIN W : j < k => W[j].id < W[k].id
      /\ \A n \in 1 .. msg.id :
           n = msg.id \/ n \in lost \/ \E k \in DOMAIN W : W[k].id = n
      /\ \A k \in DOMAIN W : W[k].time < W[k].file + 2 * Day
  BY <1>5, Zenon DEF IInv, Kept, RotatesInTime
<1> HIDE DEF W
<1>7. /\ DOMAIN W = 1 .. Len(W) /\ Len(W) \in Nat
      /\ DOMAIN Written' = 1 .. Len(W) + 1
      /\ Written'[Len(W) + 1] = x
      /\ \A k \in DOMAIN W : Written'[k] = W[k] /\ W[k].id \in Nat
  <2>1. \A k \in DOMAIN W : W[k] \in Line
    BY <1>4
  <2>2. \A y \in Line : y.id \in Nat
    BY Zenon DEF Line
  <2>3. /\ DOMAIN W = 1 .. Len(W) /\ Len(W) \in Nat
        /\ DOMAIN Append(W, x) = 1 .. Len(W) + 1
        /\ Append(W, x)[Len(W) + 1] = x
        /\ \A k \in DOMAIN W : Append(W, x)[k] = W[k]
    BY <1>2, <1>4
  <2> QED BY <1>4, <2>1, <2>2, <2>3, Zenon
<1>8. \A k \in DOMAIN Written' : k \in DOMAIN W \/ k = Len(W) + 1
  BY <1>7
<1>9. /\ \A k \in DOMAIN Written' : Written'[k].file # NoFile
      /\ \A k \in DOMAIN Written' : Written'[k].id <= msg.id
      /\ \A k \in DOMAIN Written' : Written'[k].time < Written'[k].file + 2 * Day
  <2>1. ASSUME NEW k \in DOMAIN Written'
        PROVE  /\ Written'[k].file # NoFile /\ Written'[k].id <= msg.id
               /\ Written'[k].time < Written'[k].file + 2 * Day
    <3>1. CASE k \in DOMAIN W
      BY <1>6, <1>7, <3>1, Zenon
    <3>2. CASE k = Len(W) + 1
      BY <1>1, <1>2, <1>7, <3>2
    <3> QED BY <1>8, <3>1, <3>2, Zenon
  <2> QED BY <2>1, Zenon
<1>10. ASSUME NEW j \in DOMAIN Written', NEW k \in DOMAIN Written', j < k
       PROVE  Written'[j].id < Written'[k].id
  <2>1. j \in DOMAIN W
    BY <1>7, <1>10
  <2> QED BY <1>1, <1>2, <1>6, <1>7, <1>8, <1>10, <2>1
<1>11. ASSUME NEW n \in 1 .. msg.id
       PROVE  n \in lost \/ \E k \in DOMAIN Written' : Written'[k].id = n
  <2>1. CASE n = msg.id
    <3>1. Len(W) + 1 \in DOMAIN Written'
      BY <1>7
    <3> QED BY <1>2, <1>7, <2>1, <3>1, Zenon
  <2>2. CASE n \in lost
    BY <2>2, Zenon
  <2>3. CASE \E k \in DOMAIN W : W[k].id = n
    <3>1. \A k \in DOMAIN W : k \in DOMAIN Written'
      BY <1>7
    <3> QED BY <1>7, <2>3, <3>1, Zenon
  <2> QED BY <1>6, <2>1, <2>2, <2>3, Zenon
<1>12. Kept' /\ RotatesInTime'
  BY <1>5, <1>9, <1>10, <1>11, Zenon DEF Kept, RotatesInTime
<1> QED BY <1>4, <1>12, Zenon

\* A call of the sink.
LEMMA SinkKept ==
  ASSUME IInv, sink_it \/ Rotated
  PROVE  /\ Kept' /\ RotatesInTime'
         /\ buffer' \in Seq(Line) /\ disk' \in Seq(Line)
<1>0. /\ buffer \in Seq(Line) /\ disk \in Seq(Line) /\ msg.id \in Nat
      /\ clock \in Nat /\ file \in Int /\ rotation_tp \in Int /\ msg.time \in Nat
      /\ Day \in Nat \ {0} /\ <<>> \in Seq(Line)
  BY LogAssumption DEF IInv, Types
<1>1. CASE Rotated
  <2>1. /\ pc = "rotated" /\ pc' = "idle" /\ msg' = msg /\ lost' = lost
        /\ Write(buffer, file)
    BY <1>1, Zenon DEF Rotated
  <2>2. file = msg.time /\ file # NoFile
    BY <2>1, Zenon DEF IInv, Due
  <2>3. msg.time < file + 2 * Day
    BY <1>0, <2>2
  <2> QED BY <2>1, <2>2, <2>3, WriteKeeps, Zenon
<1>2. CASE sink_it /\ msg.time < rotation_tp
  <2>1. /\ pc = "sink" /\ pc' = "idle" /\ msg' = msg /\ lost' = lost
        /\ Write(buffer, file)
    BY <1>2, Zenon DEF sink_it
  <2>2. logger
    BY <2>1, Zenon DEF IInv, Control
  <2>3. file # NoFile
    BY <1>0, <1>2, <2>1, <2>2 DEF IInv, Due
  <2>4. rotation_tp < file + 2 * Day
    BY <2>1, <2>2, <2>3, Zenon DEF IInv, Due
  <2>5. msg.time < file + 2 * Day
    BY <1>0, <1>2, <2>4
  <2> QED BY <2>1, <2>3, <2>5, WriteKeeps, Zenon
<1>3. CASE sink_it /\ ~(msg.time < rotation_tp)
  <2>1. /\ pc = "sink" /\ msg' = msg /\ after' = after /\ Close
        /\ \/ pc' = "rotated" /\ lost' = lost
           \/ pc' = "idle" /\ lost' = lost \cup {msg.id}
    BY <1>3, Zenon DEF sink_it
  <2>2. Written' = Written
    BY <2>1, CloseSame, Zenon
  <2>3. buffer' \in Seq(Line) /\ disk' \in Seq(Line)
    BY <1>0, <2>1, CloseWrites, Zenon DEF Close
  <2>4. Pending
    BY <2>1, Zenon DEF IInv, Control, Pending
  <2>5. CASE pc' = "rotated" /\ lost' = lost
    <3>1. Pending'
      BY <2>1, <2>4, <2>5, Zenon DEF Pending
    <3> QED BY <2>1, <2>2, <2>3, <2>4, <2>5, <3>1, KeptSame, Zenon
  <2>6. CASE pc' = "idle" /\ lost' = lost \cup {msg.id}
    <3>1. ~Pending'
      BY <2>6, Zenon DEF Pending
    <3> QED BY <2>1, <2>2, <2>3, <2>4, <2>6, <3>1, Zenon DEF IInv, Kept, RotatesInTime
  <2> QED BY <2>1, <2>5, <2>6, Zenon
<1> QED BY <1>1, <1>2, <1>3, Zenon

\* The other steps write nothing.
LEMMA OthersKept ==
  ASSUME IInv,
         \/ Tick \/ Caller \/ LogMsg \/ daily_file_sink \/ SinkRotationTp
         \/ initialize_logger \/ flush_every \/ StopWorker \/ JoinWorker \/ Drop
         \/ (\E w \in Workers : Worker(w)) \/ UNCHANGED vars
  PROVE  /\ Kept' /\ RotatesInTime'
         /\ buffer' \in Seq(Line) /\ disk' \in Seq(Line)
<1>0. /\ buffer \in Seq(Line) /\ disk \in Seq(Line) /\ msg.id \in Nat
      /\ after \in {"idle", "log", "drop"} /\ <<>> \in Seq(Line)
  BY DEF IInv, Types
<1>1. Close \/ UNCHANGED <<buffer, disk>>
  BY ZenonT(60) DEF Tick, Caller, LoadServerConf, Log, InitLog, Exit, LogMsg,
     daily_file_sink, SinkRotationTp, initialize_logger, flush_every, StopWorker,
     JoinWorker, Drop, Worker, WaitFor, WakeUp, flush_all, Flush, sink, vars
<1>2. Written' = Written /\ buffer' \in Seq(Line) /\ disk' \in Seq(Line)
  <2>1. CASE Close
    BY <1>0, <2>1, CloseSame, CloseWrites, Zenon DEF Close
  <2>2. CASE UNCHANGED <<buffer, disk>>
    BY <1>0, <2>2, Zenon DEF Written
  <2> QED BY <1>1, <2>1, <2>2, Zenon
<1>3. lost' = lost
  BY ZenonT(60) DEF Tick, Caller, LoadServerConf, Log, InitLog, Exit, LogMsg,
     daily_file_sink, SinkRotationTp, initialize_logger, flush_every, StopWorker,
     JoinWorker, Drop, Worker, WaitFor, WakeUp, flush_all, Flush, Step, sink, vars
<1>4. CASE Log
  <2>1. msg'.id = msg.id + 1 /\ pc = "idle" /\ pc' # "idle" /\ after' = "log"
    BY <1>4, Zenon DEF Log
  <2>2. ~Pending /\ Pending'
    BY <2>1, Zenon DEF Pending
  <2>3. \A k \in DOMAIN Written : Written[k].id \in Nat
    <3>1. Written \in Seq(Line)
      BY <1>0, CloseWrites, Zenon DEF Written
    <3>2. \A y \in Line : y.id \in Nat
      BY Zenon DEF Line
    <3>3. \A k \in DOMAIN Written : Written[k] \in Line
      BY <3>1
    <3> QED BY <3>2, <3>3, Zenon
  <2>4. \A k \in DOMAIN Written : Written[k].id <= msg'.id /\ Written[k].id # msg'.id
    BY <1>0, <2>1, <2>2, <2>3 DEF IInv, Kept
  <2>5. \A n \in 1 .. msg'.id : n = msg'.id \/ n \in 1 .. msg.id
    BY <1>0, <2>1
  <2> QED BY <1>2, <1>3, <2>2, <2>4, <2>5, Zenon DEF IInv, Kept, RotatesInTime
<1>5. CASE ~Log
  <2>1. msg'.id = msg.id
    <3>1. CASE LogMsg
      <4>1. msg' = [msg EXCEPT !.time = clock]
        BY <3>1, Zenon DEF LogMsg
      <4> QED BY <4>1
    <3>2. CASE ~LogMsg
      BY <1>5, <3>2, ZenonT(60) DEF Tick, Caller, LoadServerConf, InitLog, Exit,
         daily_file_sink, SinkRotationTp, initialize_logger, flush_every, StopWorker,
         JoinWorker, Drop, Worker, WaitFor, WakeUp, flush_all, Flush, Step, vars
    <3> QED BY <3>1, <3>2, Zenon
  <2>2. Pending' <=> Pending
    <3>1. CASE InitLog \/ Exit
      BY <3>1, Zenon DEF InitLog, Exit, Pending
    <3>2. CASE flush_every \/ JoinWorker
      BY <1>0, <3>2, Zenon DEF flush_every, JoinWorker, Pending
    <3>3. CASE \/ Tick \/ LoadServerConf \/ LogMsg \/ daily_file_sink \/ SinkRotationTp
               \/ initialize_logger \/ StopWorker \/ Drop \/ UNCHANGED vars
      BY <3>3, Zenon DEF Tick, LoadServerConf, LogMsg, daily_file_sink, SinkRotationTp,
         initialize_logger, StopWorker, Drop, vars, Pending
    <3>4. ASSUME NEW w \in Workers, Worker(w) PROVE Pending' <=> Pending
      BY <3>4, Zenon DEF Worker, WaitFor, WakeUp, flush_all, Flush, Step, Pending
    <3> QED BY <1>5, <3>1, <3>2, <3>3, <3>4, Zenon DEF Caller
  <2> QED BY <1>2, <1>3, <2>1, <2>2, KeptSame, Zenon
<1> QED BY <1>4, <1>5, Zenon

-----------------------------------------------------------------------------
(* Types, control and the rotation.                                        *)

\* The clock, the settings, and the calls that begin or end.
LEMMA CallerTypes ==
  ASSUME IInv, Tick \/ Caller \/ JoinWorker \/ StopWorker \/ UNCHANGED vars,
         buffer' \in Seq(Line), disk' \in Seq(Line)
  PROVE  Types' /\ Control' /\ Due'
<1>0. /\ clock \in Nat /\ file \in Int /\ rotation_tp \in Int /\ msg.time \in Nat
      /\ msg.id \in Nat /\ Day \in Nat \ {0}
      /\ Confs \subseteq Conf
  BY LogAssumption, Zenon DEF IInv, Types
<1>1. CASE Tick
  <2>1. /\ clock' = clock + 1
        /\ pc \in {"ctor_tp", "rotated"} => clock + 1 < file + Day
        /\ pc = "sink" => clock + 1 < msg.time + Day
        /\ UNCHANGED <<conf, loggers, logger, file, rotation, rotation_tp, worker,
                       flusher, old, nworkers, pc, after, msg>>
    BY <1>1, Zenon DEF Tick, sink, flushers
  <2>2. Types'
    BY <1>0, <2>1 DEF IInv, Types
  <2>3. Control'
    BY <2>1, Zenon DEF IInv, Control
  <2>4. Due'
    BY <1>0, <2>1 DEF IInv, Due
  <2> QED BY <2>2, <2>3, <2>4, Zenon
<1>2. CASE Log
  <2>1. /\ msg' = [id |-> msg.id + 1, time |-> 0]
        /\ pc = "idle" /\ pc' = (IF logger THEN "log" ELSE "ctor") /\ after' = "log"
        /\ UNCHANGED <<clock, conf, logger, file, rotation, rotation_tp, worker,
                       flusher, old, nworkers>>
    BY <1>2, Zenon DEF Log, sink, flushers
  <2>2. Types'
    BY <1>0, <2>1 DEF IInv, Types
  <2>3. Control'
    BY <2>1, Zenon DEF IInv, Control
  <2>4. Due'
    BY <1>0, <2>1 DEF IInv, Due
  <2> QED BY <2>2, <2>3, <2>4, Zenon
<1>3. CASE LoadServerConf \/ InitLog \/ Exit
  <2>1. /\ pc = "idle"
        /\ \/ pc' = "idle" /\ after' = after
           \/ pc' = (IF logger THEN "flush_every" ELSE "ctor") /\ after' = "idle"
           \/ /\ pc' = (IF flusher # None /\ worker[flusher] # "none"
                        THEN "stop" ELSE "drop")
              /\ after' = "drop" /\ old' = flusher
        /\ UNCHANGED <<clock, logger, file, rotation, rotation_tp, worker,
                       flusher, nworkers, msg>>
        /\ conf' \in Confs \cup {conf} /\ old' \in {old, flusher}
    BY <1>3, Zenon DEF LoadServerConf, InitLog, Exit, sink, flushers
  <2>2. Types'
    BY <1>0, <2>1, Zenon DEF IInv, Types
  <2>3. Control'
    BY <2>1, Zenon DEF IInv, Control
  <2>4. Due'
    BY <1>0, <2>1, Zenon DEF IInv, Due
  <2> QED BY <2>2, <2>3, <2>4, Zenon
<1>4. CASE JoinWorker \/ StopWorker \/ UNCHANGED vars
  <2>1. /\ \/ pc = "join" /\ pc' = after
           \/ pc = "stop" /\ pc' = "join"
           \/ pc' = pc
        /\ UNCHANGED <<clock, conf, logger, file, rotation, rotation_tp, worker,
                       flusher, old, nworkers, after, msg>>
    BY <1>4, Zenon DEF JoinWorker, StopWorker, sink, flushers, vars
  <2>2. Types'
    BY <2>1, Zenon DEF IInv, Types
  <2>3. Control'
    BY <2>1, Zenon DEF IInv, Types, Control
  <2>4. Due'
    BY <1>0, <2>1, Zenon DEF IInv, Types, Due
  <2> QED BY <2>2, <2>3, <2>4, Zenon
<1> QED BY <1>1, <1>2, <1>3, <1>4, Zenon DEF Caller

\* The sink: a file that is opened is named after the message, and the next
\* rotation is less than two days after it.
LEMMA SinkTypes ==
  ASSUME IInv,
         \/ LogMsg \/ sink_it \/ Rotated \/ daily_file_sink \/ SinkRotationTp \/ Drop,
         buffer' \in Seq(Line), disk' \in Seq(Line)
  PROVE  Types' /\ Control' /\ Due'
<1>0. /\ clock \in Nat /\ file \in Int /\ rotation_tp \in Int /\ msg.time \in Nat
      /\ msg.id \in Nat /\ Day \in Nat \ {0} /\ rotation \in -1 .. Day - 1
      /\ conf.hour \in -1 .. Day - 1 /\ NoFile \in Int /\ NoFile < 0
  BY LogAssumption DEF IInv, Types, Conf, NoFile
<1>1. UNCHANGED <<clock, conf, worker, flusher, old, nworkers, after>>
  BY Zenon DEF LogMsg, sink_it, Rotated, daily_file_sink, SinkRotationTp, Drop, flushers
<1>2. next_rotation_tp(rotation) \in Int /\ next_rotation_tp(rotation) <= clock + Day
  BY <1>0, RotationNear, Zenon DEF next_rotation_tp
<1>3. CASE LogMsg
  <2>1. /\ msg' = [msg EXCEPT !.time = clock] /\ pc = "log" /\ pc' = "sink"
        /\ UNCHANGED <<logger, file, rotation, rotation_tp>>
    BY <1>3, Zenon DEF LogMsg, sink
  <2>2. msg' \in [id : Nat, time : Nat] /\ msg'.time = clock
    BY <1>0, <2>1, Zenon DEF IInv, Types
  <2>3. Types'
    BY <1>1, <2>1, <2>2, Zenon DEF IInv, Types
  <2>4. Control'
    BY <1>1, <2>1, Zenon DEF IInv, Control
  <2>5. Due'
    <3>1. /\ logger /\ file = NoFile => rotation_tp <= clock
          /\ logger /\ file # NoFile => rotation_tp < file + 2 * Day
      BY <2>1, Zenon DEF IInv, Due
    <3>2. UNCHANGED <<clock, logger, file, rotation_tp>> /\ pc' = "sink"
      BY <1>1, <2>1, Zenon
    <3>3. msg'.time = clock /\ clock < clock + Day
      BY <1>0, <2>2
    <3> QED BY <1>0, <3>1, <3>2, <3>3 DEF Due
  <2> QED BY <2>3, <2>4, <2>5, Zenon
<1>4. CASE sink_it
  <2>1. /\ pc = "sink" /\ logger
        /\ \/ pc' = "idle" /\ file' = file
           \/ pc' = "rotated" /\ file' = msg.time
           \/ pc' = "idle" /\ file' = NoFile /\ rotation_tp <= msg.time
        /\ UNCHANGED <<logger, rotation, rotation_tp, msg>>
    BY <1>0, <1>4 DEF sink_it, IInv, Control
  <2>2. Types'
    <3>1. \A t \in Nat : t \in Int
      OBVIOUS
    <3>2. NoFile \in Int
      BY DEF NoFile
    <3>3. file' \in Int
      BY <1>0, <3>1, <3>2, <2>1, Zenon
    <3> QED BY <1>1, <2>1, <3>3, Zenon DEF IInv, Types
  <2>3. Control'
    BY <1>1, <2>1, Zenon DEF IInv, Control
  <2>4. Due'
    <3>1. pc' = "idle" /\ file' = file => Due'
      BY <1>1, <2>1, Zenon DEF IInv, Due
    <3>2. pc' = "rotated" /\ file' = msg.time => Due'
      BY <1>0, <1>1, <2>1 DEF IInv, Due
    <3>3. pc' = "idle" /\ file' = NoFile /\ rotation_tp <= msg.time => Due'
      BY <1>0, <1>1, <2>1 DEF IInv, Due
    <3> QED BY <2>1, <3>1, <3>2, <3>3, Zenon
  <2> QED BY <2>2, <2>3, <2>4, Zenon
<1>5. CASE Rotated
  <2>1. /\ pc = "rotated" /\ pc' = "idle"
        /\ rotation_tp' = next_rotation_tp(rotation)
        /\ UNCHANGED <<logger, file, rotation, msg>>
    BY <1>5, Zenon DEF Rotated
  <2>2. Types'
    BY <1>1, <1>2, <2>1, Zenon DEF IInv, Types
  <2>3. Control'
    BY <1>1, <2>1, Zenon DEF IInv, Control
  <2>4. file # NoFile /\ clock < file + Day
    BY <2>1, Zenon DEF IInv, Due
  <2>5. rotation_tp' < file + 2 * Day
    BY <1>0, <1>2, <2>1, <2>4
  <2>6. Due'
    BY <1>0, <1>1, <2>1, <2>4, <2>5, Zenon DEF IInv, Due
  <2> QED BY <2>2, <2>3, <2>6, Zenon
<1>6. CASE daily_file_sink
  <2>1. /\ pc = "ctor" /\ ~logger
        /\ \/ pc' = "ctor_tp" /\ file' = clock
           \/ pc' \in {"no_file", "bad_time"} /\ file' = NoFile
        /\ rotation' = conf.hour
        /\ UNCHANGED <<logger, rotation_tp, msg>>
    BY <1>6, Zenon DEF daily_file_sink, IInv, Control
  <2>2. Types'
    <3>1. clock \in Int /\ NoFile \in Int
      BY <1>0 DEF NoFile
    <3>2. file' \in Int /\ rotation' \in -1 .. Day - 1
      BY <3>1, <1>0, <2>1, Zenon
    <3> QED BY <1>1, <2>1, <3>2, Zenon DEF IInv, Types
  <2>3. Control'
    BY <1>1, <2>1, Zenon DEF IInv, Control
  <2>4. Due'
    BY <1>0, <1>1, <2>1 DEF IInv, Due
  <2> QED BY <2>2, <2>3, <2>4, Zenon
<1>7. CASE SinkRotationTp
  <2>1. /\ pc = "ctor_tp" /\ pc' = "register" /\ ~logger
        /\ rotation_tp' = next_rotation_tp(rotation)
        /\ UNCHANGED <<logger, file, rotation, msg>>
    BY <1>7, Zenon DEF SinkRotationTp, IInv, Control
  <2>2. Types'
    BY <1>1, <1>2, <2>1, Zenon DEF IInv, Types
  <2>3. Control'
    BY <1>1, <2>1, Zenon DEF IInv, Control
  <2>4. file # NoFile /\ clock < file + Day
    BY <2>1, Zenon DEF IInv, Due
  <2>5. rotation_tp' < file + 2 * Day
    BY <1>0, <1>2, <2>1, <2>4
  <2>6. Due'
    BY <1>0, <1>1, <2>1, <2>4, <2>5, Zenon DEF IInv, Due
  <2> QED BY <2>2, <2>3, <2>6, Zenon
<1>8. CASE Drop
  <2>1. /\ pc = "drop" /\ pc' = "exited" /\ logger' = FALSE /\ file' = NoFile
        /\ UNCHANGED <<rotation, rotation_tp, msg>>
    BY <1>8, Zenon DEF Drop
  <2>2. Types'
    BY <1>0, <1>1, <2>1, Zenon DEF IInv, Types
  <2>3. Control'
    BY <1>1, <2>1, Zenon DEF IInv, Control
  <2>4. Due'
    BY <1>1, <2>1, Zenon DEF IInv, Due
  <2> QED BY <2>2, <2>3, <2>4, Zenon
<1> QED BY <1>3, <1>4, <1>5, <1>6, <1>7, <1>8, Zenon

\* Registering the logger and replacing the worker, and the workers' steps.
LEMMA RegistryTypes ==
  ASSUME IInv, initialize_logger \/ flush_every \/ \E w \in Workers : Worker(w),
         buffer' \in Seq(Line), disk' \in Seq(Line)
  PROVE  Types' /\ Control' /\ Due'
<1>1. CASE initialize_logger
  <2>1. /\ pc = "register"
        /\ \/ pc' = "duplicate" /\ logger' = logger
           \/ pc' = "flush_every" /\ logger' = TRUE
        /\ UNCHANGED <<clock, conf, file, rotation, rotation_tp, worker, flusher,
                       old, nworkers, after, msg>>
    BY <1>1, Zenon DEF initialize_logger, sink, flushers
  <2>2. Types'
    BY <2>1, Zenon DEF IInv, Types
  <2>3. Control'
    BY <2>1, Zenon DEF IInv, Control
  <2>4. Due'
    BY <2>1, Zenon DEF IInv, Due
  <2> QED BY <2>2, <2>3, <2>4, Zenon
<1>2. CASE flush_every
  <2>1. /\ pc = "flush_every" /\ nworkers < MaxWorkers
        /\ nworkers' = nworkers + 1 /\ flusher' = nworkers + 1 /\ old' = flusher
        /\ pc' = IF flusher # None /\ worker[flusher] # "none" THEN "stop" ELSE after
        /\ UNCHANGED <<clock, conf, logger, file, rotation, rotation_tp, after, msg>>
    BY <1>2, Zenon DEF flush_every, sink
  <2>2. \E s \in {"lock", "none"} : worker' = [worker EXCEPT ![nworkers + 1] = s]
    BY <1>2, Zenon DEF flush_every
  <2>3. worker' \in [Workers -> {"none", "lock", "wait", "flush_all", "flush", "exited"}]
    BY <2>2, Zenon DEF IInv, Types
  <2>4. nworkers + 1 \in 0 .. MaxWorkers
    BY <2>1, LogAssumption DEF IInv, Types
  <2>5. Types'
    BY <2>1, <2>3, <2>4, Zenon DEF IInv, Types
  <2>6. after \in {"idle", "log"} /\ logger
    BY <2>1, Zenon DEF IInv, Types, Control
  <2>7. Control'
    BY <2>1, <2>6, Zenon DEF Control
  <2>8. Due'
    BY <2>1, <2>6, Zenon DEF IInv, Due
  <2> QED BY <2>5, <2>7, <2>8, Zenon
<1>3. ASSUME NEW w \in Workers, Worker(w) PROVE Types' /\ Control' /\ Due'
  <2>1. \E s \in {"lock", "wait", "flush_all", "flush", "exited"} :
          worker' = [worker EXCEPT ![w] = s]
    BY <1>3, ZenonT(30) DEF Worker, WaitFor, WakeUp, flush_all, Flush, Step
  <2>2. UNCHANGED <<clock, conf, logger, file, rotation, rotation_tp, flusher, old,
                    nworkers, pc, after, msg>>
    BY <1>3, ZenonT(30) DEF Worker, WaitFor, WakeUp, flush_all, Flush, Step
  <2>3. worker' \in [Workers -> {"none", "lock", "wait", "flush_all", "flush", "exited"}]
    BY <2>1, Zenon DEF IInv, Types
  <2>4. Types'
    BY <2>2, <2>3, Zenon DEF IInv, Types
  <2>5. Control' /\ Due'
    BY <2>2, Zenon DEF IInv, Control, Due
  <2> QED BY <2>4, <2>5, Zenon
<1> QED BY <1>1, <1>2, <1>3, Zenon

-----------------------------------------------------------------------------
\* Every step keeps the invariant.
LEMMA StepKeeps == IInv /\ [Next]_vars => IInv'
<1> SUFFICES ASSUME IInv, [Next]_vars PROVE IInv'
  BY Zenon
<1>1. LastWorker' /\ OneFlusher'
  BY LoopFlushers, WorkerFlushers, Zenon DEF Next
<1>2. Kept' /\ RotatesInTime' /\ buffer' \in Seq(Line) /\ disk' \in Seq(Line)
  BY SinkKept, OthersKept, Zenon DEF Next, Call
<1>3. Types' /\ Control' /\ Due'
  BY <1>2, CallerTypes, SinkTypes, RegistryTypes, Zenon DEF Next, Call
<1> QED BY <1>1, <1>2, <1>3, Zenon DEF IInv

\* For any number of calls of InitLog, with any intervals, the flusher threads
\* are that of the current worker and the one being joined, and none is left
\* when the registry destroys its loggers.
THEOREM FlushersJoined == Spec => []OneFlusher
<1>1. IInv => OneFlusher
  BY Zenon DEF IInv
<1> QED BY InitHolds, StepKeeps, <1>1, PTL DEF Spec

\* For any number of messages, whatever the flusher and the rotation do
\* meanwhile, messages reach the files in order, through an open file, and one
\* that does not was reported lost.
THEOREM MessagesStayKept == Spec => []MessagesKept
<1>1. IInv => MessagesKept
  <2> SUFFICES ASSUME IInv PROVE MessagesKept
    BY Zenon
  <2>1. msg.id \in Nat
    BY Zenon DEF IInv, Types
  <2>2. \A n \in 1 .. msg.id - 1 : n \in 1 .. msg.id /\ n # msg.id
    BY <2>1
  <2> QED BY <2>2, Zenon DEF IInv, Kept, MessagesKept
<1> QED BY InitHolds, StepKeeps, <1>1, PTL DEF Spec

\* For any length of the day, any moment of the rotation and any run of the
\* clock, no message goes to a file that is two rotations old.
THEOREM RotationInTime == Spec => []RotatesInTime
<1>1. IInv => RotatesInTime
  BY Zenon DEF IInv
<1> QED BY InitHolds, StepKeeps, <1>1, PTL DEF Spec
================================================================================
