------------------------------ MODULE Fillers -------------------------------
(***************************************************************************)
(* One call of nod_filler_callback (kmodule/fillers.c): the requests of a  *)
(* filler are served one by one, each pushed value by val_to_ring, until   *)
(* one fails or all are done.  do_record_one_event accepts the record when *)
(* the call succeeds with exactly as many arguments as the event table     *)
(* declares.                                                               *)
(***************************************************************************)
EXTENDS ValToRing

CONSTANTS
  Events,    \* the events that are recorded
  Program,   \* Program[e]: the request sequences the filler of e may make
  Room       \* values of arg_data_size when the filler is called

ASSUME FillersAssumption ==
  /\ Room \subseteq Nat
  /\ Program \in [Events -> SUBSET Seq(Step)]
  /\ Events # {}

(* A request that may fail unnoticed is for a number, and the ones before  *)
(* it are pushes that are looked at: bind and connect go on whatever       *)
(* val_to_ring answers to the return value.                                *)
NumbersUnchecked ==
  \A e \in Events : \A p \in Program[e] : \A i \in 1 .. Len(p) :
    p[i].op = "try" => /\ g_event_info[e].types[i] \in Number
                       /\ \A j \in 1 .. i - 1 : p[j].op = "push"

VARIABLES
  ev, room,        \* the event and the room it was given
  todo,            \* the requests the filler still has to make
  curarg,          \* args->curarg
  used, size,      \* bytes of argument data written, args->arg_data_size
  result,          \* what the call returned; "run" while it runs
  want,            \* history: bytes the values so far would take uncut
  faulted          \* history: user memory was found unreadable

vars == <<ev, room, todo, curarg, used, size, result, want, faulted>>

Running == result = "run" /\ todo # << >>
Request == Head(todo)

nargs == g_event_info[ev].nparams
declared == g_event_info[ev].types[curarg + 1]

(* param_info after a PT_DYN parameter was resolved; the index that tells  *)
(* which type was chosen takes a byte of its own.                          *)
IsDyn == declared \in DOMAIN dynamic_param
type == IF IsDyn THEN dynamic_param[declared][Request.dyn + 1] ELSE declared
head == IF IsDyn THEN 1 ELSE 0

(* The most room an argument may take.                                     *)
max_arg_size == Least(size, NOD_MAX_ARG_SIZE) - head

(* The value of ev between two calls, when nothing reads it.               *)
AnyEvent == CHOOSE e \in Events : TRUE

Init ==
  /\ ev = AnyEvent
  /\ room = 0 /\ size = 0 /\ used = 0 /\ curarg = 0 /\ want = 0
  /\ todo = << >> /\ result = "idle" /\ faulted = FALSE

------------------------------------------------------------------------------
(* do_record_one_event prepares the arguments and calls the filler.        *)
Callback(e, p, r) ==
  /\ result = "idle"
  /\ ev' = e /\ todo' = p /\ room' = r
  /\ curarg' = 0 /\ used' = 0 /\ size' = r
  /\ result' = "run"
  /\ UNCHANGED <<want, faulted>>

(* What val_to_ring answers, and the bytes it has taken by then.           *)
Serve(u, n) ==
  IF curarg >= nargs THEN [res |-> "bug", taken |-> 0]
  ELSE IF size = 0 THEN [res |-> "full", taken |-> 0]
  ELSE IF IsDyn /\ Request.dyn >= Len(dynamic_param[declared]) THEN [res |-> "bug", taken |-> 0]
  ELSE LET v == Value_to_ring(type, Request.kind \in FromUser, u, n, max_arg_size)
       IN  [res |-> v.res, taken |-> head + v.len]

(* Faulty variant: the room is not charged for what was written.           *)
ValToRingUncharged(u, n) ==
  LET s == Serve(u, n)
  IN  /\ used' = used + s.taken
      /\ size' = IF s.res = "ok" THEN size - s.taken + head ELSE size
      /\ curarg' = IF s.res = "ok" THEN curarg + 1 ELSE curarg
      /\ result' = IF s.res = "ok" \/ Request.op = "try" THEN "run" ELSE s.res
      /\ want' = IF curarg >= nargs THEN want
                 ELSE want + head + Whole(type, Request.kind \in FromUser, u, n)

(* val_to_ring, in an environment where the memory behind the pointer is   *)
(* found in state u and the value has length n.                            *)
val_to_ring(u, n) ==
  LET s == Serve(u, n)
  IN  /\ used' = used + s.taken
      /\ size' = size - s.taken
      /\ curarg' = IF s.res = "ok" THEN curarg + 1 ELSE curarg
      /\ result' = IF s.res = "ok" \/ Request.op = "try" THEN "run" ELSE s.res
      /\ want' = IF curarg >= nargs THEN want
                 ELSE want + head + Whole(type, Request.kind \in FromUser, u, n)

PushValue ==
  /\ Running /\ Request.op \in {"push", "try"}
  /\ \E u \in Request.mem, n \in Request.lens :
       /\ val_to_ring(u, n)
       /\ faulted' = (faulted \/ (u = "bad" /\ ~(curarg >= nargs) /\ type \notin Number))
  /\ todo' = Tail(todo)
  /\ UNCHANGED <<ev, room>>

(* nod_copy_from_user of a structure a filler needs: a fault ends the call. *)
CopyStruct ==
  /\ Running /\ Request.op = "copy"
  /\ \/ result' = "inval" \/ UNCHANGED result
  /\ todo' = Tail(todo)
  /\ UNCHANGED <<ev, room, curarg, used, size, want, faulted>>

GiveUp ==
  /\ Running /\ Request.op = "fail"
  /\ result' = Request.res
  /\ todo' = << >>
  /\ UNCHANGED <<ev, room, curarg, used, size, want, faulted>>

Succeed ==
  /\ result = "run" /\ todo = << >>
  /\ result' = "ok"
  /\ UNCHANGED <<ev, room, todo, curarg, used, size, want, faulted>>

(* The record is taken or dropped; the next call starts afresh.            *)
Return ==
  /\ result \in Result
  /\ ev' = AnyEvent
  /\ room' = 0 /\ size' = 0 /\ used' = 0 /\ curarg' = 0 /\ want' = 0
  /\ todo' = << >> /\ result' = "idle" /\ faulted' = FALSE

Next ==
  \/ \E e \in Events : \E p \in Program[e], r \in Room : Callback(e, p, r)
  \/ PushValue \/ CopyStruct \/ GiveUp \/ Succeed \/ Return

Spec == Init /\ [][Next]_vars

------------------------------------------------------------------------------
(* The variables have their types.                                         *)
TypeOK ==
  /\ ev \in Events /\ todo \in Seq(Step) /\ room \in Room \cup {0}
  /\ curarg \in Nat /\ used \in Nat /\ want \in Nat /\ size \in Nat
  /\ faulted \in BOOLEAN
  /\ result \in Result \cup {"idle", "run"}

(* Whatever a filler pushes, and however it ends, arg_data_offset and      *)
(* arg_data_size of fillers.c move together and never leave the room that  *)
(* do_record_one_event found in the buffer.                                *)
InRoom == used <= room /\ used + size = room

(* A call that succeeds has pushed exactly the parameters the event table  *)
(* declares; otherwise do_record_one_event reports a corrupted filler and  *)
(* drops the event.                                                        *)
Complete == result = "ok" => curarg = nargs

(* No filler runs into the "too many arguments" and "invalid argument      *)
(* type" errors of val_to_ring, or fails an assertion.                     *)
NoBug == result \notin {"bug", "panic"}

(* The assertions of the fillers (BUG_ON) hold: in particular the address  *)
(* of the peer of an accepted IPv6 connection can always be had.           *)
AssertHolds == result # "panic"

Recorded == curarg' = curarg + 1

(* A value that gets into the record is of the kind the event table        *)
(* declares at that position: a number, a string, or a buffer whose length *)
(* is given.  (bind and connect go on after a failed push: what they push  *)
(* next must not land in the place of the result.)                         *)
TypeFits ==
  [][Recorded => CASE Request.kind = "num" -> type \in Number
                   [] Request.kind = "reg" -> type \in Number \cup String
                   [] Request.kind \in {"ustr", "kstr"} -> type \in String
                   [] OTHER -> type \in Address \cup {"BYTEBUF"}]_vars

(* The parameter the event table names `res' records the return value of   *)
(* the system call and nothing else.                                       *)
ResultIsReturn ==
  [][Recorded /\ curarg' = g_event_info[ev].res => Request.src = AF_ID_RETVAL]_vars

(* The position a positioned read or write records is the register that    *)
(* holds it: on x86-64 a 64-bit value takes one register.                  *)
PositionIsRegister == [][Recorded => Request.src # merge_64]_vars

(* A value is refused for lack of room only when the values so far really  *)
(* fill the room: an event that fits is never sent back to be recorded     *)
(* again in an emptied buffer.                                             *)
FullMeansNoRoom ==
  [][Running /\ Request.op = "push" /\ result' = "full"
     => want' >= Least(room, NOD_MAX_ARG_SIZE)]_vars

(* Nothing is cut or replaced in an event that fits and whose memory could *)
(* be read.                                                                *)
WholeIfFits ==
  result = "ok" /\ ~faulted /\ want <= Least(room, NOD_MAX_ARG_SIZE) => used = want
=============================================================================
