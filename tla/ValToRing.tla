----------------------------- MODULE ValToRing ------------------------------
(***************************************************************************)
(* One argument of an event: the requests a filler makes (push a value,    *)
(* copy a structure from user memory, give up) and how val_to_ring of      *)
(* kmodule/fillers.c turns a pushed value into bytes of the record.  Of a  *)
(* value only its origin and its length are kept.                          *)
(***************************************************************************)
EXTENDS EventTable

CONSTANT UserString   \* lengths of user strings, terminator included

NOD_MAX_ARG_SIZE == 65000
STR_STORAGE_SIZE == 4096
snaplen == 80
dpi_lookahead_size == 16
NULL_len == 7            \* "(NULL)"
INVAL_len == 8           \* "(INVAL)"

Least(a, b) == IF a <= b THEN a ELSE b

(* Where a recorded number comes from: a system-call argument 0 .. 5, the  *)
(* return value or a default (as in the autofill table), anything else the *)
(* kernel computes, or two argument registers put together by merge_64.    *)
COMPUTED == -3
merge_64 == -4

------------------------------------------------------------------------------
(* The requests.  mem says how the memory behind a pointer may be found,   *)
(* lens which lengths the value may have; for a user string the length is  *)
(* whatever the application put there.                                     *)
Mem == {"null", "bad", "ok"}
Result == {"ok", "full", "inval", "bug", "errno", "panic"}

Push(k, s, m, ls) ==
  [op |-> "push", kind |-> k, src |-> s, mem |-> m, lens |-> ls, dyn |-> 0, res |-> "ok"]

Num(s) == Push("num", s, {"ok"}, {0})
Arg(i) == Num(i)
Ret == Num(AF_ID_RETVAL)
Zero == Num(AF_ID_USEDEFAULT)
Kernel == Num(COMPUTED)
Reg(i) == Push("reg", i, Mem, UserString)        \* fromuser, type from the table
UStr(i) == Push("ustr", i, Mem, UserString)
UBuf(i, ls) == Push("ubuf", i, Mem, ls)
NoBuf == Push("kbuf", AF_ID_USEDEFAULT, {"null"}, {0})
KStr(ls) == Push("kstr", COMPUTED, {"ok"}, ls)
KBuf(ls) == Push("kbuf", COMPUTED, {"ok"}, ls)
Dyn(d, r) == [r EXCEPT !.dyn = d]
Unchecked(r) == [r EXCEPT !.op = "try"]
CopyFromUser == [Zero EXCEPT !.op = "copy"]
Fail(code) == [Zero EXCEPT !.op = "fail", !.res = code]

FromUser == {"reg", "ustr", "ubuf"}

Step == [op : {"push", "try", "copy", "fail"}, kind : FromUser \cup {"num", "kstr", "kbuf"},
         src : Int, mem : SUBSET Mem, lens : SUBSET Nat, dyn : Nat, res : Result]

------------------------------------------------------------------------------
String == {"CHARBUF", "FSPATH", "FSRELPATH"}
Address == {"SOCKADDR", "SOCKTUPLE", "FDLIST"}
Byte == {"FLAGS8", "UINT8", "SIGTYPE", "INT8"}
Short == {"FLAGS16", "UINT16", "SYSCALLID", "INT16"}
Word == {"FLAGS32", "UINT32", "MODE", "UID", "GID", "SIGSET", "INT32"}
Long == {"RELTIME", "ABSTIME", "UINT64", "INT64", "ERRNO", "FD", "PID"}
Number == Byte \cup Short \cup Word \cup Long

Size(t) == CASE t \in Byte -> 1 [] t \in Short -> 2 [] t \in Word -> 4 [] OTHER -> 8

Done(n) == [res |-> "ok", len |-> n]
Full == [res |-> "full", len |-> 0]
Bug == [res |-> "bug", len |-> 0]

(* Faulty variants: a user string that just fits is taken for one that     *)
(* does not, and the length of a buffer is compared with the room before   *)
(* it is cut to the snaplen.                                               *)
StringOffByOne(user, u, n, max) ==
  IF u = "null" THEN Done(Least(NULL_len, max))
  ELSE IF user /\ (u = "bad" \/ n >= max) THEN Done(Least(INVAL_len, max))
  ELSE Done(Least(n, max))
BytesUncut(user, u, n, max) ==
  IF u = "null" THEN Done(0)
  ELSE IF n >= max THEN Full ELSE Done(Least(n, snaplen))

Number_to_ring(t, max) == IF Size(t) <= max THEN Done(Size(t)) ELSE Full

(* A user string must end within the room, else "(INVAL)" replaces it; a   *)
(* kernel string is cut to the room.                                       *)
String_to_ring(user, u, n, max) ==
  IF u = "null" THEN Done(Least(NULL_len, max))
  ELSE IF user /\ (u = "bad" \/ n > max) THEN Done(Least(INVAL_len, max))
  ELSE Done(Least(n, max))

(* A user buffer is read in two parts; only the first part can be refused  *)
(* for lack of room.  A page fault in the second part changes the bytes,   *)
(* not the length.                                                         *)
Bytes_to_ring(user, u, n, max) ==
  IF u = "null" THEN Done(0)
  ELSE IF ~user
  THEN IF Least(n, snaplen) >= max THEN Full ELSE Done(Least(n, snaplen))
  ELSE IF Least(dpi_lookahead_size, n) >= max THEN Full
  ELSE IF u = "bad" /\ n > 0 THEN Done(Least(INVAL_len, max))
  ELSE IF n <= dpi_lookahead_size THEN Done(n)
  ELSE Done(Least(Least(n, snaplen), max))

Address_to_ring(user, u, n, max) ==
  IF u = "null" THEN Done(0)
  ELSE IF n >= max THEN Full
  ELSE IF user /\ u = "bad" /\ n > 0 THEN Done(Least(INVAL_len, max))
  ELSE Done(n)

(* The switch of val_to_ring.                                              *)
Value_to_ring(t, user, u, n, max) ==
  CASE t \in Number -> Number_to_ring(t, max)
    [] t \in String -> String_to_ring(user, u, n, max)
    [] t = "BYTEBUF" -> Bytes_to_ring(user, u, n, max)
    [] t \in Address -> Address_to_ring(user, u, n, max)
    [] OTHER -> Bug

(* The room the value would take if there were no limit: an upper bound    *)
(* when user memory turns out unreadable.                                  *)
Whole(t, user, u, n) ==
  CASE t \in Number -> Size(t)
    [] t \in String -> IF u = "null" THEN NULL_len
                       ELSE IF user /\ u = "bad" THEN INVAL_len ELSE n
    [] OTHER -> IF u = "null" THEN 0
                ELSE IF user /\ u = "bad" /\ n < INVAL_len THEN INVAL_len
                ELSE IF t = "BYTEBUF" THEN Least(n, snaplen) ELSE n
=============================================================================
