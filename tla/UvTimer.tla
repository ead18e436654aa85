------------------------------- MODULE UvTimer --------------------------------
(***************************************************************************)
(* libuv's timers (libuv/src/unix/timer.c) on the turns of uv_run (core.c) *)
(* with the heap of heap-inl.h.  The callbacks, and I/O callbacks between  *)
(* two runs of the timers, make any of the calls of the API.               *)
(***************************************************************************)
EXTENDS HeapInl, FiniteSets

CONSTANTS
  Timeouts,   \* timeouts callers pass
  Repeats,    \* repeats callers pass
  MaxClock,   \* bound: last moment of the clock
  MaxCalls,   \* bound: calls of the API
  MaxU64,     \* greatest uint64_t
  IntMax      \* INT_MAX

ASSUME TimerAssumption ==
  /\ Timeouts \subseteq 0 .. MaxU64 /\ Repeats \subseteq 0 .. MaxU64
  /\ MaxClock \in 0 .. MaxU64 /\ MaxCalls \in Nat /\ IntMax \in Nat \ {0}

VARIABLES
  clock,    \* the clock of the system
  time,     \* loop->time
  counter,  \* loop->timer_counter
  heap,     \* loop->timer_heap
  timer,    \* the fields of each uv_timer_t, see TimerType
  closing,  \* loop->closing_handles
  pc,       \* "update", "timers", "callback", "poll", "io", "closing"
  cur,      \* the timer whose callback runs
  calls     \* calls made

vars == <<clock, time, counter, heap, timer, closing, pc, cur, calls>>

Init ==
  /\ clock = 0 /\ time = 0 /\ counter = 0
  /\ heap = heap_init
  /\ timer = [t \in Nodes |-> [timeout |-> 0, repeat |-> 0, start_id |-> 0,
                               active |-> FALSE, cb |-> FALSE, closed |-> FALSE]]
  /\ closing = {} /\ pc = "io" /\ cur = Nil /\ calls = 0

-----------------------------------------------------------------------------
(* The functions of timer.c, on a heap and the timers' fields.             *)

State == [heap |-> heap, timer |-> timer, counter |-> counter]

uv_timer_stop(s, t) ==
  IF ~s.timer[t].active THEN s
  ELSE [s EXCEPT !.heap = heap_remove(@, t, s.timer),
                 !.timer[t].active = FALSE]

clamped_not(timeout) == (time + timeout) % (MaxU64 + 1)

clamped(timeout) ==
  LET sum == (time + timeout) % (MaxU64 + 1)
  IN IF sum < timeout THEN MaxU64 ELSE sum

uv_timer_start(s, t, timeout, repeat) ==
  LET stopped == uv_timer_stop(s, t)
      fields == [timeout |-> clamped(timeout), repeat |-> repeat,
                 start_id |-> s.counter, active |-> TRUE, cb |-> TRUE,
                 closed |-> FALSE]
      set == [stopped EXCEPT !.timer[t] = fields, !.counter = @ + 1]
  IN [set EXCEPT !.heap = heap_insert(@, t, set.timer)]

uv_timer_again(s, t) ==
  IF s.timer[t].cb /\ s.timer[t].repeat # 0
  THEN uv_timer_start(uv_timer_stop(s, t), t, s.timer[t].repeat,
                      s.timer[t].repeat)
  ELSE s

Becomes(s) ==
  /\ heap' = s.heap
  /\ timer' = s.timer
  /\ counter' = s.counter

-----------------------------------------------------------------------------
(* Calls of the API, by callbacks.                                         *)

Call(t) ==
  /\ pc \in {"callback", "io"} /\ calls < MaxCalls /\ t \notin closing
  /\ ~timer[t].closed
  /\ calls' = calls + 1
  /\ UNCHANGED <<clock, time, pc, cur>>

CallStart(t) ==
  /\ Call(t)
  /\ \E timeout \in Timeouts, repeat \in Repeats :
       Becomes(uv_timer_start(State, t, timeout, repeat))
  /\ UNCHANGED closing

CallStop(t) ==
  /\ Call(t)
  /\ Becomes(uv_timer_stop(State, t))
  /\ UNCHANGED closing

CallAgain(t) ==
  /\ Call(t)
  /\ Becomes(uv_timer_again(State, t))
  /\ UNCHANGED closing

uv_timer_set_repeat(t) ==
  /\ Call(t)
  /\ \E repeat \in Repeats : timer' = [timer EXCEPT ![t].repeat = repeat]
  /\ UNCHANGED <<heap, counter, closing>>

\* uv_close of a timer: uv__timer_close stops it.
uv_close(t) ==
  /\ Call(t)
  /\ Becomes(uv_timer_stop(State, t))
  /\ closing' = closing \cup {t}

-----------------------------------------------------------------------------
(* The turns of uv_run.                                                    *)

Tick ==
  /\ clock < MaxClock
  /\ clock' = clock + 1
  /\ UNCHANGED <<time, counter, heap, timer, closing, pc, cur, calls>>

uv__update_time ==
  /\ pc = "update"
  /\ time' = clock
  /\ pc' = "timers"
  /\ UNCHANGED <<clock, counter, heap, timer, closing, cur, calls>>

Due == heap_min(heap) # Nil /\ timer[heap_min(heap)].timeout <= time

uv__run_timers_no_stop ==
  /\ pc = "timers" /\ Due
  /\ LET t == heap_min(heap)
     IN /\ Becomes(uv_timer_again(State, t))
        /\ cur' = t
  /\ pc' = "callback"
  /\ UNCHANGED <<clock, time, closing, calls>>

\* The first timer is due: it is stopped, armed again if it repeats, and its
\* callback is called.
uv__run_timers ==
  /\ pc = "timers" /\ Due
  /\ LET t == heap_min(heap)
     IN /\ Becomes(uv_timer_again(uv_timer_stop(State, t), t))
        /\ cur' = t
  /\ pc' = "callback"
  /\ UNCHANGED <<clock, time, closing, calls>>

CallbackReturns ==
  /\ pc = "callback"
  /\ pc' = "timers" /\ cur' = Nil
  /\ UNCHANGED <<clock, time, counter, heap, timer, closing, calls>>

RunTimersDone ==
  /\ pc = "timers" /\ ~Due
  /\ pc' = "poll"
  /\ UNCHANGED <<clock, time, counter, heap, timer, closing, cur, calls>>

uv__next_timeout_last ==
  IF heap.nelts = 0 THEN -1
  ELSE LET t == NodeAt(heap, heap.nelts)
       IN IF timer[t].timeout <= time THEN 0
          ELSE IF timer[t].timeout - time > IntMax THEN IntMax
               ELSE timer[t].timeout - time

uv__next_timeout ==
  IF heap_min(heap) = Nil THEN -1
  ELSE LET timeout == timer[heap_min(heap)].timeout
       IN IF timeout <= time THEN 0
          ELSE IF timeout - time > IntMax THEN IntMax ELSE timeout - time

uv_backend_timeout == IF closing # {} THEN 0 ELSE uv__next_timeout

PollEnds == uv_backend_timeout >= 0 /\ clock >= time + uv_backend_timeout

\* uv__io_poll sleeps until its timeout and updates the time.
PollTimeout ==
  /\ pc = "poll" /\ PollEnds
  /\ time' = clock
  /\ pc' = "closing"
  /\ UNCHANGED <<clock, counter, heap, timer, closing, cur, calls>>

\* I/O ends the poll earlier; its callbacks may use the timers.
PollIo ==
  /\ pc = "poll" /\ calls < MaxCalls
  /\ time' = clock
  /\ pc' = "io"
  /\ UNCHANGED <<clock, counter, heap, timer, closing, cur, calls>>

IoReturns ==
  /\ pc = "io"
  /\ pc' = "closing"
  /\ UNCHANGED <<clock, time, counter, heap, timer, closing, cur, calls>>

\* uv__finish_close of the closed timers.
uv__run_closing_handles ==
  /\ pc = "closing"
  /\ timer' = [t \in Nodes |->
                 [timer[t] EXCEPT !.closed = @ \/ t \in closing]]
  /\ closing' = {}
  /\ pc' = "update"
  /\ UNCHANGED <<clock, time, counter, heap, cur, calls>>

-----------------------------------------------------------------------------
Calls ==
  \E t \in Nodes : \/ CallStart(t) \/ CallStop(t) \/ CallAgain(t)
                   \/ uv_timer_set_repeat(t) \/ uv_close(t)

Loop ==
  \/ uv__update_time \/ uv__run_timers \/ CallbackReturns \/ RunTimersDone
  \/ PollTimeout \/ PollIo \/ IoReturns \/ uv__run_closing_handles

Next == Tick \/ Calls \/ Loop

Spec == Init /\ [][Next]_vars

\* The loop thread runs unless it sleeps in the poll, and the clock goes on.
\* All its steps change pc, and no others do.
LoopMoves ==
  /\ pc = "poll" => PollEnds
  /\ pc' \in {"update", "timers", "callback", "poll", "io", "closing"}

FairSpec == Spec /\ WF_pc(LoopMoves) /\ WF_vars(Tick)

-----------------------------------------------------------------------------
(* Properties.                                                             *)

\* The poll timeout never lets the loop sleep past a deadline: it ends no later
\* than the first active timer is due, also when the difference is cut to int.
PollWakesInTime ==
  pc = "poll" => \A t \in Nodes : timer[t].active =>
    uv_backend_timeout >= 0 /\ time + uv_backend_timeout <= timer[t].timeout

Abs == INSTANCE TimerAbs WITH
  Timers <- Nodes,
  now <- time,
  armed <- [t \in Nodes |->
              IF timer[t].active
              THEN [timeout |-> timer[t].timeout, start_id |-> timer[t].start_id]
              ELSE [timeout |-> -1, start_id |-> -1]],
  running <- IF cur = Nil THEN {} ELSE {cur}

\* The timers and the loop implement the abstract timers: callbacks run one at
\* a time in the order of deadline and start, none before its time, none for a
\* stopped timer (uv__run_timers, uv_timer_start, uv_timer_stop).
ImplementsTimers == Abs!ASpec

\* A timer whose time has come is run, stopped or restarted: neither the poll
\* nor the callbacks of other due timers keep it waiting for ever.
TimersRun ==
  \A t \in Nodes :
    timer[t].active /\ timer[t].timeout <= clock
      ~> cur = t \/ ~timer[t].active \/ timer[t].timeout > clock
=============================================================================
