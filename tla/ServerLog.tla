------------------------------- MODULE ServerLog -------------------------------
(***************************************************************************)
(* Logging: ServerLog (server/source/ServerLog.cpp) over spdlog's registry *)
(* of loggers, its daily file sink and its periodic flusher.  The loop     *)
(* thread logs; every call of flush_every starts a worker thread, and the  *)
(* destructor of the worker it replaces joins the old thread.              *)
(*                                                                         *)
(* The steps of the threads are cut at the mutexes, at the readings of the *)
(* clock and at fopen.  Mutexes are held exactly at the places Held... say. *)
(***************************************************************************)
EXTENDS Integers, Sequences, FiniteSets

CONSTANTS
  Confs,        \* settings of stLoggerInfo a load may bring, see Conf
  DefaultConf,  \* the settings before any load
  DefaultName,  \* "", the name of spdlog's default logger
  Day,          \* moments per day
  MaxTime,      \* bound: last moment of the clock
  MaxMsgs,      \* bound: messages logged
  MaxWorkers    \* bound: calls of flush_every

\* Name of the logger, moment of the day of the rotation (-1: hour or minute
\* out of range), flush interval in seconds.
Conf == [name : {c.name : c \in Confs \cup {DefaultConf}},
         hour : -1 .. Day - 1, flushCache : Nat]

ASSUME LogAssumption ==
  /\ Day \in Nat \ {0} /\ MaxTime \in Nat /\ MaxMsgs \in Nat
  /\ MaxWorkers \in Nat \ {0}
  /\ Confs \cup {DefaultConf} \subseteq Conf

Workers == 1 .. MaxWorkers
None == 0
NoFile == -1

VARIABLES
  clock,     \* the wall clock
  conf,      \* the settings
  loggers,   \* names in the registry
  logger,    \* RotatingLogger is not null
  file,      \* the moment the sink's open file is named after, or NoFile
  rotation,  \* rotation_h_ of the sink
  rotation_tp,
  buffer,    \* messages in the stdio buffer
  disk,      \* messages handed to the system
  lost,      \* messages dropped with an error
  worker,    \* the thread of each periodic_worker
  active,    \* its active_
  flusher,   \* periodic_flusher_
  old,       \* the worker being destroyed
  nworkers,
  pc, after, \* the loop thread, and where it goes on after InitLog
  msg        \* the message being logged

sink == <<file, rotation, rotation_tp, buffer, disk, lost>>
flushers == <<worker, active, flusher, old, nworkers>>
vars == <<clock, conf, loggers, logger, file, rotation, rotation_tp, buffer,
          disk, lost, worker, active, flusher, old, nworkers, pc, after, msg>>

Init ==
  /\ clock = 0 /\ conf = DefaultConf
  /\ loggers = {DefaultName} /\ logger = FALSE
  /\ file = NoFile /\ rotation = 0 /\ rotation_tp = 0
  /\ buffer = <<>> /\ disk = <<>> /\ lost = {}
  /\ worker = [w \in Workers |-> "none"] /\ active = [w \in Workers |-> FALSE]
  /\ flusher = None /\ old = None /\ nworkers = 0
  /\ pc = "idle" /\ after = "idle" /\ msg = [id |-> 0, time |-> 0]

-----------------------------------------------------------------------------
(* Mutexes and threads.                                                    *)

Running(w) == w # None /\ worker[w] \notin {"none", "exited"}

HeldWorkerMutex(w) == worker[w] \in {"flush_all", "flush"}
HeldMapMutex == \E w \in Workers : worker[w] = "flush"
HeldSinkMutex == pc = "rotated"

\* A call of the sink takes less than a day.
Tick ==
  /\ clock < MaxTime
  /\ pc \in {"ctor_tp", "rotated"} => clock + 1 < file + Day
  /\ pc = "sink" => clock + 1 < msg.time + Day
  /\ clock' = clock + 1
  /\ UNCHANGED <<conf, loggers, logger, sink, flushers, pc, after, msg>>

-----------------------------------------------------------------------------
(* The daily file sink.                                                    *)

next_rotation_tp(h) ==
  LET r == (clock \div Day) * Day + h
  IN IF r > clock THEN r ELSE r + Day

\* file_helper::close hands the buffer to the system.
Close == disk' = disk \o buffer /\ buffer' = <<>>

Write(records, f) ==
  LET line == [id |-> msg.id, time |-> msg.time, file |-> f]
  IN \/ buffer' = Append(records, line) /\ UNCHANGED disk
     \/ disk' = disk \o Append(records, line) /\ buffer' = <<>>

sink_it_no_rotation ==
  /\ pc = "sink"
  /\ Write(buffer, file)
  /\ pc' = "idle"
  /\ UNCHANGED <<clock, conf, loggers, logger, file, rotation, rotation_tp,
                 lost, flushers, after, msg>>

\* base_sink::log takes the mutex of the sink.  A message at or after the
\* rotation time closes the file and opens the next one; if fopen fails (five
\* times) the exception reaches the logger's error handler and the message is
\* lost.
sink_it ==
  /\ pc = "sink"
  /\ IF msg.time < rotation_tp
     THEN /\ Write(buffer, file)
          /\ pc' = "idle"
          /\ UNCHANGED <<file, lost>>
     ELSE /\ Close
          /\ \/ file' = msg.time /\ pc' = "rotated" /\ UNCHANGED lost
             \/ file' = NoFile /\ pc' = "idle" /\ lost' = lost \cup {msg.id}
  /\ UNCHANGED <<clock, conf, loggers, logger, rotation, rotation_tp, flushers,
                 after, msg>>

\* The next rotation is computed from the clock, then the message is written.
Rotated ==
  /\ pc = "rotated"
  /\ rotation_tp' = next_rotation_tp(rotation)
  /\ Write(buffer, file)
  /\ pc' = "idle"
  /\ UNCHANGED <<clock, conf, loggers, logger, file, rotation, lost, flushers,
                 after, msg>>

-----------------------------------------------------------------------------
(* Calls of the loop thread.                                               *)

LoadServerConf ==
  /\ pc = "idle"
  /\ conf' \in Confs
  /\ UNCHANGED <<clock, loggers, logger, sink, flushers, pc, after, msg>>

\* LOG_INFO, LOG_ERROR: GetRotatingLogger, then logger::log.
Log ==
  /\ pc = "idle" /\ msg.id < MaxMsgs
  /\ msg' = [id |-> msg.id + 1, time |-> 0]
  /\ pc' = IF logger THEN "log" ELSE "ctor"
  /\ after' = "log"
  /\ UNCHANGED <<clock, conf, loggers, logger, sink, flushers>>

InitLog ==
  /\ pc = "idle" /\ nworkers < MaxWorkers
  /\ pc' = IF logger THEN "flush_every" ELSE "ctor"
  /\ after' = "idle"
  /\ UNCHANGED <<clock, conf, loggers, logger, sink, flushers, msg>>

\* log_msg takes its time before the sink is locked.
LogMsg ==
  /\ pc = "log"
  /\ msg' = [msg EXCEPT !.time = clock]
  /\ pc' = "sink"
  /\ UNCHANGED <<clock, conf, loggers, logger, sink, flushers, after>>

\* The constructor of daily_file_sink; what it throws nobody catches, and the
\* process ends.
daily_file_sink ==
  /\ pc = "ctor"
  /\ \/ conf.hour >= 0 /\ file' = clock /\ pc' = "ctor_tp"
     \/ conf.hour >= 0 /\ file' = NoFile /\ pc' = "no_file"
     \/ conf.hour < 0 /\ file' = NoFile /\ pc' = "bad_time"
  /\ rotation' = conf.hour
  /\ UNCHANGED <<clock, conf, loggers, logger, rotation_tp, buffer, disk, lost,
                 flushers, after, msg>>

SinkRotationTp ==
  /\ pc = "ctor_tp"
  /\ rotation_tp' = next_rotation_tp(rotation)
  /\ pc' = "register"
  /\ UNCHANGED <<clock, conf, loggers, logger, file, rotation, buffer, disk,
                 lost, flushers, after, msg>>

\* registry::initialize_logger, under the map's mutex; a name that exists
\* already throws.
initialize_logger ==
  /\ pc = "register" /\ ~HeldMapMutex
  /\ IF conf.name \in loggers
     THEN /\ pc' = "duplicate"
          /\ UNCHANGED <<loggers, logger>>
     ELSE /\ loggers' = loggers \cup {conf.name}
          /\ logger' = TRUE
          /\ pc' = "flush_every"
  /\ UNCHANGED <<clock, conf, sink, flushers, after, msg>>

\* registry::flush_every makes the new worker, which starts its thread if the
\* interval is positive, and destroys the old one if it has a thread.
flush_every ==
  /\ pc = "flush_every" /\ nworkers < MaxWorkers
  /\ LET w == nworkers + 1
     IN /\ nworkers' = w
        /\ flusher' = w
        /\ active' = [active EXCEPT ![w] = conf.flushCache > 0]
        /\ worker' = [worker EXCEPT
             ![w] = IF conf.flushCache > 0 THEN "lock" ELSE "none"]
  /\ old' = flusher
  /\ pc' = IF flusher # None /\ worker[flusher] # "none" THEN "stop" ELSE after
  /\ UNCHANGED <<clock, conf, loggers, logger, sink, after, msg>>

StopWorker_still_active ==
  /\ pc = "stop" /\ ~HeldWorkerMutex(old)
  /\ pc' = "join"
  /\ UNCHANGED <<clock, conf, loggers, logger, sink, flushers, after, msg>>

\* ~periodic_worker: active_ is cleared under the worker's mutex ...
StopWorker ==
  /\ pc = "stop" /\ ~HeldWorkerMutex(old)
  /\ active' = [active EXCEPT ![old] = FALSE]
  /\ pc' = "join"
  /\ UNCHANGED <<clock, conf, loggers, logger, sink, worker, flusher, old,
                 nworkers, after, msg>>

JoinWorker_detached ==
  /\ pc = "join"
  /\ pc' = after
  /\ UNCHANGED <<clock, conf, loggers, logger, sink, flushers, after, msg>>

\* ... and the thread is joined.
JoinWorker ==
  /\ pc = "join" /\ worker[old] = "exited"
  /\ pc' = after
  /\ UNCHANGED <<clock, conf, loggers, logger, sink, flushers, after, msg>>

\* main returns: the registry is destroyed, its flusher before its map.
Exit ==
  /\ pc = "idle"
  /\ old' = flusher
  /\ after' = "drop"
  /\ pc' = IF flusher # None /\ worker[flusher] # "none" THEN "stop" ELSE "drop"
  /\ UNCHANGED <<clock, conf, loggers, logger, sink, worker, active, flusher,
                 nworkers, msg>>

\* The map is destroyed, then the ServerLog object, with the last reference to
\* the logger: the sink closes its file.
Drop ==
  /\ pc = "drop"
  /\ loggers' = {} /\ logger' = FALSE
  /\ Close /\ file' = NoFile
  /\ pc' = "exited"
  /\ UNCHANGED <<clock, conf, rotation, rotation_tp, lost, flushers, after,
                 msg>>

-----------------------------------------------------------------------------
(* The thread of a periodic_worker.                                        *)

Step(w, s) ==
  /\ worker' = [worker EXCEPT ![w] = s]
  /\ UNCHANGED <<clock, conf, loggers, logger, file, rotation, rotation_tp, lost,
                 active, flusher, old, nworkers, pc, after, msg>>

\* wait_for looks at active_ before it waits.
WaitFor(w) ==
  /\ worker[w] = "lock"
  /\ Step(w, IF active[w] THEN "wait" ELSE "exited")
  /\ UNCHANGED <<buffer, disk>>

\* The interval is over, or the destructor has notified.
WakeUp(w) ==
  /\ worker[w] = "wait"
  /\ Step(w, IF active[w] THEN "flush_all" ELSE "exited")
  /\ UNCHANGED <<buffer, disk>>

\* registry::flush_all locks the map ...
flush_all(w) ==
  /\ worker[w] = "flush_all" /\ ~HeldMapMutex
  /\ Step(w, "flush")
  /\ UNCHANGED <<buffer, disk>>

Flush_drops(w) ==
  /\ worker[w] = "flush" /\ ~HeldSinkMutex
  /\ buffer' = <<>> /\ UNCHANGED disk
  /\ Step(w, "lock")

Flush_default_only(w) ==
  /\ worker[w] = "flush"
  /\ UNCHANGED <<buffer, disk>>
  /\ Step(w, "lock")

\* ... and flushes every sink under the sink's mutex.
Flush(w) ==
  /\ worker[w] = "flush" /\ ~HeldSinkMutex
  /\ IF logger THEN Close ELSE UNCHANGED <<buffer, disk>>
  /\ Step(w, "lock")

Worker(w) == WaitFor(w) \/ WakeUp(w) \/ flush_all(w) \/ Flush(w)

-----------------------------------------------------------------------------
Caller == LoadServerConf \/ Log \/ InitLog \/ Exit

Call ==
  \/ LogMsg \/ sink_it \/ Rotated \/ daily_file_sink \/ SinkRotationTp
  \/ initialize_logger \/ flush_every \/ StopWorker \/ JoinWorker \/ Drop

Next == Tick \/ Caller \/ Call \/ \E w \in Workers : Worker(w)

Spec == Init /\ [][Next]_vars

\* Threads run.  A mutex a worker takes again and again is free for the whole
\* of its interval in between, so whoever waits for it gets it.
FairSpec == Spec /\ SF_vars(Call) /\ \A w \in Workers : SF_vars(Worker(w))

-----------------------------------------------------------------------------
(* Properties.                                                             *)

\* The only flusher threads are that of the current worker and, while
\* flush_every or the registry's destructor waits for it, that of the old one;
\* none is left when the map it walks is destroyed.
OneFlusher ==
  /\ \A w \in Workers : Running(w) =>
       w = flusher \/ (w = old /\ pc \in {"stop", "join"})
  /\ pc \in {"drop", "exited"} => \A w \in Workers : ~Running(w)

Written == disk \o buffer

\* Messages reach the files in the order they were logged, and one that does
\* not was reported lost, whatever the flusher and the rotation do meanwhile.
\* None is written through a null FILE*: after a failed rotation the sink stays
\* due, so the next message opens a file first.
MessagesKept ==
  /\ \A k \in DOMAIN Written : Written[k].file # NoFile
  /\ \A j, k \in DOMAIN Written : j < k => Written[j].id < Written[k].id
  /\ \A n \in 1 .. msg.id - 1 :
       n \in lost \/ \E k \in DOMAIN Written : Written[k].id = n

\* No message goes to a file that is two rotations old, as long as a call of
\* the sink takes less than a day.
RotatesInTime ==
  \A k \in DOMAIN Written : Written[k].time < Written[k].file + 2 * Day

\* include/spdlog/details/registry.h:9 "An attempt to create a logger with an
\* already existing name will be ignored": it does not end the process.
DuplicateIgnored == pc # "duplicate"

\* A call of the logger returns: no order of the mutexes of registry, sink and
\* worker, and no join, blocks the loop thread for ever.
CallsReturn ==
  pc # "idle" ~> pc \in {"idle", "exited", "no_file", "bad_time", "duplicate"}

\* With a flush interval a message does not stay in the buffer.
MessagesFlushed ==
  \A n \in 1 .. MaxMsgs :
    (\E k \in DOMAIN buffer : buffer[k].id = n) /\ Running(flusher) ~>
      (\A k \in DOMAIN buffer : buffer[k].id # n) \/ ~Running(flusher)
================================================================================
