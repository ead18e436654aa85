------------------------------- MODULE EchoAbs -------------------------------
(***************************************************************************)
(* What the echo server promises one client, without its buffers, queues   *)
(* and event loop: what comes back is what was received, in order and      *)
(* without gaps, and once the server has hung up nothing more comes.       *)
(***************************************************************************)
EXTENDS Integers, Sequences

VARIABLES
  received,  \* number of bytes the server has taken from the client
  echoed,    \* the bytes sent back, each named by its position
  up         \* the server still serves the connection

avars == <<received, echoed, up>>

AInit ==
  /\ received = 0
  /\ echoed = <<>>
  /\ up = TRUE

Receive ==
  /\ up
  /\ received' \in Nat /\ received' > received
  /\ UNCHANGED <<echoed, up>>

Echo ==
  /\ up
  /\ Len(echoed') > Len(echoed) /\ Len(echoed') <= received
  /\ \A i \in 1 .. Len(echoed') : echoed'[i] = i
  /\ UNCHANGED <<received, up>>

HangUp ==
  /\ up
  /\ up' = FALSE
  /\ UNCHANGED <<received, echoed>>

ANext == Receive \/ Echo \/ HangUp

ASpec == AInit /\ [][ANext]_avars
=============================================================================
