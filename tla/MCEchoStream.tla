----------------------------- MODULE MCEchoStream -----------------------------
(* EchoStream for TLC.  Buffers are interchangeable addresses.             *)
EXTENDS EchoStream, TLC

BufferSymmetry == Permutations(Buffers)
=============================================================================
