---------------------------- MODULE MCEventBuffer ----------------------------
(***************************************************************************)
(* Small instances of EventBuffer.  One unit stands for a few bytes: a     *)
(* buffer of 10 units, an overflow page of 8 (9 where a call has to end),  *)
(* and three kinds of event.                                               *)
(*   "int"  integers only, nothing can be cut;                             *)
(*   "str"  a string that can be cut from 4 units down to 1;               *)
(*   "big"  a string followed by integers: the string may have been pushed *)
(*          in full before an integer finds no room.                       *)
(***************************************************************************)
EXTENDS EventBuffer

MCKind == {"int", "str", "big"}
MCFixed == [k \in MCKind |-> 2]
MCMinData == [int |-> 1, str |-> 1, big |-> 3]
MCFullData == [int |-> 1, str |-> 4, big |-> 4]
MCPartial == [int |-> {0}, str |-> {0}, big |-> {0, 2}]

(* "big" with more data than a page holds, most of it pushed before the    *)
(* argument that does not fit (execve with long arguments).                *)
MCLargeFullData == [MCFullData EXCEPT !["big"] = 12]
MCLargePartial == [MCPartial EXCEPT !["big"] = {0, 8}]

MCGarbage == {0, 3}
MCAnyGarbage == {0, 3, 20}
==============================================================================
