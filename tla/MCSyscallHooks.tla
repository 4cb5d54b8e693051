---------------------------- MODULE MCSyscallHooks ----------------------------
(***************************************************************************)
(* Small instances of SyscallHooks: two of the five hooked system calls    *)
(* are enough to have a START or STOP that is half done.                   *)
(***************************************************************************)
EXTENDS SyscallHooks, TLC

CONSTANTS c1, c2, t1, t2

MCHookOrder == <<"exit", "munmap">>
MCCtl == {c1, c2}
MCThread == {t1, t2}
MCSymmetry == Permutations({c1, c2}) \cup Permutations({t1, t2})
==============================================================================
