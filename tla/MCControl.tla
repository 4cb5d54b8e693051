------------------------------ MODULE MCControl ------------------------------
(* Two threads on two CPUs; pages of 4, so that 3 and 6 are refused.       *)
EXTENDS Control

MCThreads == <<"t1", "t2">>
MCSizes == {3, 6, 12}
==============================================================================
