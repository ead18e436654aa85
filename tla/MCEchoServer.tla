----------------------------- MODULE MCEchoServer -----------------------------
(* EchoServer for TLC.  Connections are interchangeable.                   *)
EXTENDS EchoServer, TLC

ConnSymmetry == Permutations(Conns)
=============================================================================
