------------------------------ MODULE MCServerLog ------------------------------
(***************************************************************************)
(* Instances of ServerLog for TLC: settings a load may bring.              *)
(***************************************************************************)
EXTENDS ServerLog

MCDefault == [name |-> "", hour |-> 0, flushCache |-> 0]
MCGood == [name |-> "mg", hour |-> 1, flushCache |-> 3]
MCConfs == {MCGood, [MCGood EXCEPT !.flushCache = 0], [MCGood EXCEPT !.hour = -1]}
MCNever == {}
================================================================================
