------------------------------- MODULE TimerAbs -------------------------------
(***************************************************************************)
(* What libuv's timers promise: an armed timer runs its callback once its  *)
(* time has come, one callback at a time, the earliest deadline first and  *)
(* the earlier started first among equals.                                 *)
(***************************************************************************)
EXTENDS Integers

CONSTANT Timers

VARIABLES
  now,      \* the loop's idea of the time
  armed,    \* the armed timers, each with its deadline and starting order
  running   \* the timer whose callback runs, or none

vars == <<now, armed, running>>

Before(a, b) ==
  \/ armed[a].timeout < armed[b].timeout
  \/ armed[a].timeout = armed[b].timeout /\ armed[a].start_id < armed[b].start_id

Unarmed == [timeout |-> -1, start_id |-> -1]
IsArmed(t) == armed[t] # Unarmed

AInit ==
  /\ now = 0
  /\ armed = [t \in Timers |-> Unarmed]
  /\ running = {}

\* Time passes between callbacks, never backwards.
APass ==
  /\ running = {}
  /\ now' \in Nat /\ now' >= now
  /\ UNCHANGED <<armed, running>>

\* t gets a deadline that has not passed, behind all timers started before.
Arms(t) ==
  /\ armed' = [armed EXCEPT ![t] = armed'[t]]
  /\ armed'[t].timeout >= now
  /\ \A u \in Timers : IsArmed(u) => armed'[t].start_id > armed[u].start_id

AStart(t) == Arms(t) /\ UNCHANGED <<now, running>>

Disarms(t) == armed' = [armed EXCEPT ![t] = Unarmed]

AStop(t) == Disarms(t) /\ UNCHANGED <<now, running>>

\* The first timer is due and its callback begins.  It is armed no more, or
\* armed anew for a later time.
AFire(t) ==
  /\ running = {}
  /\ IsArmed(t) /\ armed[t].timeout <= now
  /\ \A u \in Timers \ {t} : IsArmed(u) => Before(t, u)
  /\ Disarms(t) \/ (Arms(t) /\ armed'[t].timeout > now)
  /\ running' = {t}
  /\ UNCHANGED now

AReturn == running # {} /\ running' = {} /\ UNCHANGED <<now, armed>>

ANext == APass \/ AReturn \/ \E t \in Timers : AStart(t) \/ AStop(t) \/ AFire(t)

ASpec == AInit /\ [][ANext]_vars
=============================================================================
