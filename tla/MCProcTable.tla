----------------------------- MODULE MCProcTable -----------------------------
(* Instances of ProcTable: pids are interchangeable, there are two         *)
(* protection keys.                                                        *)
EXTENDS ProcTable, TLC

MCKey == {1, 2}
PidSymmetry == Permutations(Pid)
==============================================================================
