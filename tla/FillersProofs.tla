---------------------------- MODULE FillersProofs ---------------------------
(* Proofs about Fillers, for every table of programs, every set of rooms   *)
(* and whatever the event table declares.                                  *)
EXTENDS Fillers, TLAPS

LEMMA SizeBound == \A t : Size(t) \in {1, 2, 4, 8}
  BY DEF Size

LEMMA LeastIs == \A a, b \in Nat : Least(a, b) \in Nat /\ Least(a, b) <= a /\ Least(a, b) <= b
                                   /\ Least(a, b) \in {a, b}
  BY DEF Least

(* What Value_to_ring takes is never more than the room it is told of nor  *)
(* than the whole value, and it refuses only a value that fills that room. *)
Fits(v, whole, max) ==
  /\ v.res \in {"ok", "full", "bug"}
  /\ v.len \in Nat /\ whole \in Nat
  /\ v.len <= max /\ v.len <= whole
  /\ v.res = "full" => whole >= max

LEMMA NumberFits ==
  ASSUME NEW t \in Number, NEW user, NEW u, NEW n \in Nat, NEW max \in Nat
  PROVE  Fits(Value_to_ring(t, user, u, n, max), Whole(t, user, u, n), max)
  <1>0. t \notin String /\ t # "BYTEBUF" /\ t \notin Address
    BY DEF String, Number, Byte, Short, Word, Long, Address
  <1>1. Value_to_ring(t, user, u, n, max) = Number_to_ring(t, max)
    BY <1>0 DEF Value_to_ring
  <1>2. Whole(t, user, u, n) = Size(t)
    BY <1>0 DEF Whole
  <1>. QED  BY <1>1, <1>2, SizeBound DEF Fits, Number_to_ring, Done, Full

LEMMA StringFits ==
  ASSUME NEW t \in String, NEW user \in BOOLEAN, NEW u, NEW n \in Nat, NEW max \in Nat
  PROVE  Fits(Value_to_ring(t, user, u, n, max), Whole(t, user, u, n), max)
  <1>1. t \notin Number /\ t # "BYTEBUF" /\ t \notin Address
    BY DEF String, Number, Byte, Short, Word, Long, Address
  <1>2. Value_to_ring(t, user, u, n, max) = String_to_ring(user, u, n, max)
    BY <1>1 DEF Value_to_ring
  <1>3. Whole(t, user, u, n) = IF u = "null" THEN 7 ELSE IF user /\ u = "bad" THEN 8 ELSE n
    BY <1>1 DEF Whole, NULL_len, INVAL_len
  <1>4. CASE user
    BY <1>2, <1>3, <1>4 DEF Fits, String_to_ring, Done, Least, NULL_len, INVAL_len
  <1>5. CASE ~user
    BY <1>2, <1>3, <1>5 DEF Fits, String_to_ring, Done, Least, NULL_len, INVAL_len
  <1>. QED  BY <1>4, <1>5

LEMMA BytesFit ==
  ASSUME NEW user \in BOOLEAN, NEW u, NEW n \in Nat, NEW max \in Nat
  PROVE  Fits(Value_to_ring("BYTEBUF", user, u, n, max), Whole("BYTEBUF", user, u, n), max)
  <1>1. "BYTEBUF" \notin Number /\ "BYTEBUF" \notin String /\ "BYTEBUF" \notin Address
    BY DEF String, Number, Byte, Short, Word, Long, Address
  <1>2. Value_to_ring("BYTEBUF", user, u, n, max) = Bytes_to_ring(user, u, n, max)
    BY <1>1 DEF Value_to_ring
  <1>3. Whole("BYTEBUF", user, u, n)
          = IF u = "null" THEN 0
            ELSE IF user /\ u = "bad" /\ n < 8 THEN 8 ELSE Least(n, 80)
    BY <1>1 DEF Whole, INVAL_len, snaplen
  <1>4. CASE u = "null"
    BY <1>2, <1>3, <1>4 DEF Fits, Bytes_to_ring, Done
  <1>5. CASE u # "null" /\ ~user
    BY <1>2, <1>3, <1>5 DEF Fits, Bytes_to_ring, Done, Full, Least, snaplen
  <1>6. CASE u # "null" /\ user
    <2>1. Bytes_to_ring(user, u, n, max)
            = IF Least(16, n) >= max THEN Full
              ELSE IF u = "bad" /\ n > 0 THEN Done(Least(8, max))
              ELSE IF n <= 16 THEN Done(n) ELSE Done(Least(Least(n, 80), max))
      BY <1>6 DEF Bytes_to_ring, INVAL_len, dpi_lookahead_size, snaplen
    <2> DEFINE w == Whole("BYTEBUF", user, u, n)
    <2>a. w = IF u = "bad" /\ n < 8 THEN 8 ELSE Least(n, 80)
      BY <1>3, <1>6
    <2>b. w \in Nat /\ w >= Least(16, n) /\ w >= Least(n, 80)
      BY <2>a DEF Least
    <2>c. u = "bad" => w >= 8
      BY <2>a DEF Least
    <2> HIDE DEF w
    <2>2. CASE Least(16, n) >= max
      BY <1>2, <2>1, <2>2, <2>b DEF Fits, Full, Least, w
    <2>3. CASE Least(16, n) < max /\ u = "bad" /\ n > 0
      <3>1. Bytes_to_ring(user, u, n, max) = Done(Least(8, max))
        BY <2>1, <2>3 DEF Least
      <3>2. Least(8, max) \in Nat /\ Least(8, max) <= max /\ Least(8, max) <= w
        BY <2>b, <2>c, <2>3 DEF Least
      <3>. QED  BY <1>2, <2>b, <3>1, <3>2 DEF Fits, Done, w
    <2>4. CASE Least(16, n) < max /\ ~(u = "bad" /\ n > 0)
      <3>1. PICK k \in Nat : k <= max /\ k <= w /\ Bytes_to_ring(user, u, n, max) = Done(k)
        <4>1. CASE n <= 16
          BY <2>1, <2>4, <2>b, <4>1 DEF Least
        <4>2. CASE n > 16
          BY <2>1, <2>4, <2>b, <4>2 DEF Least
        <4>. QED  BY <4>1, <4>2
      <3>. QED  BY <1>2, <2>b, <3>1 DEF Fits, Done, w
    <2>. QED  BY <2>2, <2>3, <2>4 DEF Least
  <1>. QED  BY <1>4, <1>5, <1>6

LEMMA AddressFits ==
  ASSUME NEW t \in Address, NEW user \in BOOLEAN, NEW u, NEW n \in Nat, NEW max \in Nat
  PROVE  Fits(Value_to_ring(t, user, u, n, max), Whole(t, user, u, n), max)
  <1>1. t \notin Number /\ t # "BYTEBUF" /\ t \notin String
    BY DEF String, Number, Byte, Short, Word, Long, Address
  <1>2. Value_to_ring(t, user, u, n, max) = Address_to_ring(user, u, n, max)
    BY <1>1 DEF Value_to_ring
  <1>3. Whole(t, user, u, n)
          = IF u = "null" THEN 0 ELSE IF user /\ u = "bad" /\ n < 8 THEN 8 ELSE n
    BY <1>1 DEF Whole, INVAL_len
  <1>4. CASE user
    BY <1>2, <1>3, <1>4 DEF Fits, Address_to_ring, Done, Full, Least, INVAL_len
  <1>5. CASE ~user
    BY <1>2, <1>3, <1>5 DEF Fits, Address_to_ring, Done, Full, Least
  <1>. QED  BY <1>4, <1>5

LEMMA ValueFits ==
  ASSUME NEW t, NEW user \in BOOLEAN, NEW u, NEW n \in Nat, NEW max \in Nat
  PROVE  Fits(Value_to_ring(t, user, u, n, max), Whole(t, user, u, n), max)
  <1>1. CASE t \notin Number \cup String \cup Address \cup {"BYTEBUF"}
    <2>1. Value_to_ring(t, user, u, n, max) = Bug
      BY <1>1 DEF Value_to_ring
    <2>2. Whole(t, user, u, n)
            = IF u = "null" THEN 0 ELSE IF user /\ u = "bad" /\ n < 8 THEN 8 ELSE n
      BY <1>1 DEF Whole, INVAL_len
    <2>. QED  BY <2>1, <2>2 DEF Fits, Bug
  <1>. QED  BY <1>1, NumberFits, StringFits, BytesFit, AddressFits

------------------------------------------------------------------------------
(* The inductive invariant: what was written is never more than what was   *)
(* asked for.                                                              *)
IInv == TypeOK /\ InRoom /\ used <= want

wholeOf(u, n) == Whole(type, Request.kind \in FromUser, u, n)

LEMMA RequestIsStep == ASSUME TypeOK, Running PROVE Request \in Step
  BY DEF TypeOK, Running, Request

(* What val_to_ring takes stays in the room that is left, and it is full   *)
(* only when the value would fill that room.                               *)
LEMMA ServeFits ==
  ASSUME IInv, Running, NEW u \in Request.mem, NEW n \in Request.lens
  PROVE  /\ Serve(u, n).taken \in Nat /\ Serve(u, n).taken <= size
         /\ Serve(u, n).res \in {"ok", "full", "bug"}
         /\ head \in Nat /\ wholeOf(u, n) \in Nat
         /\ curarg >= nargs => Serve(u, n).taken = 0 /\ Serve(u, n).res = "bug"
         /\ Serve(u, n).taken <= head + wholeOf(u, n)
         /\ Serve(u, n).res = "full" => head + wholeOf(u, n) >= Least(size, NOD_MAX_ARG_SIZE)
  <1>1. Request \in Step
    BY RequestIsStep DEF IInv
  <1>2. n \in Nat /\ size \in Nat
    BY <1>1 DEF Step, IInv, TypeOK
  <1>3. head \in {0, 1}
    BY DEF head
  <1>4. (Request.kind \in FromUser) \in BOOLEAN
    OBVIOUS
  <1>5. \A max \in Nat :
          Fits(Value_to_ring(type, Request.kind \in FromUser, u, n, max), wholeOf(u, n), max)
    BY <1>2, <1>4, ValueFits DEF wholeOf
  <1>6. wholeOf(u, n) \in Nat
    BY <1>5 DEF Fits
  <1>7. CASE curarg >= nargs
    BY <1>2, <1>3, <1>6, <1>7 DEF Serve
  <1>8. CASE ~(curarg >= nargs) /\ size = 0
    BY <1>2, <1>3, <1>6, <1>8 DEF Serve, Least, NOD_MAX_ARG_SIZE
  <1>9. CASE ~(curarg >= nargs) /\ size # 0
    <2>1. max_arg_size \in Nat /\ max_arg_size + head = Least(size, NOD_MAX_ARG_SIZE)
          /\ max_arg_size + head <= size
      BY <1>2, <1>3, <1>9 DEF max_arg_size, Least, NOD_MAX_ARG_SIZE
    <2> DEFINE v == Value_to_ring(type, Request.kind \in FromUser, u, n, max_arg_size)
    <2>2. Fits(v, wholeOf(u, n), max_arg_size)
      BY <1>5, <2>1
    <2>3. CASE IsDyn /\ Request.dyn >= Len(dynamic_param[declared])
      BY <1>2, <1>3, <1>6, <1>9, <2>3 DEF Serve
    <2>4. CASE ~(IsDyn /\ Request.dyn >= Len(dynamic_param[declared]))
      <3>1. Serve(u, n) = [res |-> v.res, taken |-> head + v.len]
        BY <1>9, <2>4 DEF Serve
      <3> HIDE DEF v
      <3>2. Serve(u, n).res = v.res /\ Serve(u, n).taken = head + v.len
        BY <3>1
      <3>. QED  BY <1>2, <1>3, <1>6, <1>9, <2>1, <2>2, <3>2 DEF Fits
    <2>. QED  BY <2>3, <2>4
  <1>. QED  BY <1>7, <1>8, <1>9

LEMMA Initially == Init => IInv
  <1> SUFFICES ASSUME Init PROVE IInv
    OBVIOUS
  <1>1. ev \in Events
    BY FillersAssumption DEF Init, AnyEvent
  <1>2. << >> \in Seq(Step)
    OBVIOUS
  <1>3. faulted \in BOOLEAN
    BY Zenon DEF Init
  <1>4. /\ room = 0 /\ size = 0 /\ used = 0 /\ curarg = 0 /\ want = 0
        /\ todo = << >> /\ result = "idle"
    BY DEF Init
  <1>. QED  BY <1>1, <1>2, <1>3, <1>4 DEF IInv, TypeOK, InRoom, Result

LEMMA TailOfSteps == ASSUME TypeOK, Running PROVE Tail(todo) \in Seq(Step)
  BY DEF TypeOK, Running

(* A pushed value keeps the invariant.                                     *)
LEMMA PushKeeps ==
  ASSUME IInv, PushValue
  PROVE  IInv'
  <1>1. PICK u \in Request.mem, n \in Request.lens :
          /\ val_to_ring(u, n)
          /\ faulted' = (faulted \/ (u = "bad" /\ ~(curarg >= nargs) /\ type \notin Number))
    BY DEF PushValue
  <1>2. Running /\ todo' = Tail(todo) /\ UNCHANGED <<ev, room>>
    BY DEF PushValue
  <1> DEFINE s == Serve(u, n)
             w == head + wholeOf(u, n)
  <1>3. /\ s.taken \in Nat /\ s.taken <= size /\ s.res \in {"ok", "full", "bug"}
        /\ w \in Nat /\ s.taken <= w /\ (curarg >= nargs => s.taken = 0)
    BY <1>2, ServeFits
  <1>4. /\ used' = used + s.taken /\ size' = size - s.taken
        /\ curarg' = IF s.res = "ok" THEN curarg + 1 ELSE curarg
        /\ result' = IF s.res = "ok" \/ Request.op = "try" THEN "run" ELSE s.res
        /\ want' = IF curarg >= nargs THEN want ELSE want + w
    <2>1. head \in Nat /\ wholeOf(u, n) \in Nat /\ want \in Nat
      BY <1>2, ServeFits DEF IInv, TypeOK
    <2>2. want + head + wholeOf(u, n) = want + w
      BY <2>1
    <2>. QED  BY <1>1, <2>2 DEF val_to_ring, wholeOf
  <1> HIDE DEF s, w
  <1>5. used \in Nat /\ size \in Nat /\ want \in Nat /\ curarg \in Nat
        /\ used + size = room /\ used <= want
    BY DEF IInv, TypeOK, InRoom
  <1>6. used' \in Nat /\ size' \in Nat /\ want' \in Nat /\ curarg' \in Nat
    BY <1>3, <1>4, <1>5
  <1>7. used' + size' = room' /\ used' <= room' /\ used' <= want'
    <2>1. room' = room /\ room = used + size
      BY <1>2, <1>5
    <2>2. used' + size' = used + size /\ used' <= used + size
      BY <1>3, <1>4, <1>5
    <2>3. used' <= want'
      <3>1. CASE curarg >= nargs
        BY <3>1, <1>3, <1>4, <1>5
      <3>2. CASE ~(curarg >= nargs)
        BY <3>2, <1>3, <1>4, <1>5
      <3>. QED  BY <3>1, <3>2
    <2>. QED  BY <2>1, <2>2, <2>3
  <1>8. result' \in Result \cup {"idle", "run"}
    BY <1>3, <1>4 DEF Result
  <1>9. faulted' \in BOOLEAN
    BY <1>1
  <1>10. todo' \in Seq(Step) /\ ev' \in Events /\ room' \in Room \cup {0}
    BY <1>2, TailOfSteps DEF IInv, TypeOK
  <1>. QED  BY <1>6, <1>7, <1>8, <1>9, <1>10 DEF IInv, TypeOK, InRoom

LEMMA StepKeeps == IInv /\ [Next]_vars => IInv'
  <1> SUFFICES ASSUME IInv, [Next]_vars PROVE IInv'
    OBVIOUS
  <1>1. ASSUME NEW e \in Events, NEW p \in Program[e], NEW r \in Room, Callback(e, p, r)
        PROVE  IInv'
    <2>1. p \in Seq(Step) /\ r \in Nat
      BY FillersAssumption
    <2>2. want = 0 \/ want \in Nat
      BY DEF IInv, TypeOK
    <2>3. used' = 0 /\ size' = r /\ room' = r /\ curarg' = 0 /\ want' = want
      BY <1>1 DEF Callback
    <2>4. TypeOK'
      BY <1>1, <2>1, <2>3 DEF Callback, IInv, TypeOK, Result
    <2>5. InRoom' /\ used' <= want'
      BY <2>1, <2>2, <2>3 DEF InRoom
    <2>. QED  BY <2>4, <2>5 DEF IInv
  <1>2. CASE PushValue
    BY <1>2, PushKeeps
  <1>3. CASE CopyStruct
    <2>1. Tail(todo) \in Seq(Step)
      BY <1>3, TailOfSteps DEF CopyStruct, IInv
    <2>. QED  BY <1>3, <2>1 DEF CopyStruct, IInv, TypeOK, InRoom, Result
  <1>4. CASE GiveUp
    <2>1. Request.res \in Result
      BY <1>4, RequestIsStep DEF GiveUp, IInv, Step
    <2>. QED  BY <1>4, <2>1 DEF GiveUp, IInv, TypeOK, InRoom
  <1>5. CASE Succeed
    BY <1>5 DEF Succeed, IInv, TypeOK, InRoom, Result
  <1>6. CASE Return
    <2>1. ev' \in Events
      BY <1>6, FillersAssumption DEF Return, AnyEvent
    <2>2. << >> \in Seq(Step)
      OBVIOUS
    <2>3. faulted' \in BOOLEAN
      BY <1>6, Zenon DEF Return
    <2>4. /\ room' = 0 /\ size' = 0 /\ used' = 0 /\ curarg' = 0 /\ want' = 0
          /\ todo' = << >> /\ result' = "idle"
      BY <1>6 DEF Return
    <2>. QED  BY <2>1, <2>2, <2>3, <2>4 DEF IInv, TypeOK, InRoom, Result
  <1>7. CASE UNCHANGED vars
    BY <1>7 DEF vars, IInv, TypeOK, InRoom
  <1>. QED  BY <1>1, <1>2, <1>3, <1>4, <1>5, <1>6, <1>7 DEF Next

LEMMA Inductive == Spec => []IInv
  BY Initially, StepKeeps, PTL DEF Spec

(* A filler never writes outside the room do_record_one_event gave it,     *)
(* whatever its program, its inputs and the tables are.                    *)
THEOREM FillersInRoom == Spec => []InRoom
  <1>1. IInv => InRoom
    BY DEF IInv
  <1>. QED  BY Inductive, <1>1, PTL

(* val_to_ring reports a full buffer only for values that fill the room.   *)
THEOREM FullOnlyWithoutRoom == Spec => FullMeansNoRoom
  <1> DEFINE Bound == want' >= Least(room, NOD_MAX_ARG_SIZE)
  <1>1. ASSUME IInv, Next, Running, Request.op = "push", result' = "full"
        PROVE  Bound
    <2>1. todo # << >> /\ result = "run"
      BY <1>1 DEF Running
    <2>2. PushValue
      BY <1>1, <2>1 DEF Next, Callback, CopyStruct, GiveUp, Succeed, Return, Result
    <2>3. PICK u \in Request.mem, n \in Request.lens : val_to_ring(u, n)
      BY <2>2 DEF PushValue
    <2> DEFINE s == Serve(u, n)
               w == wholeOf(u, n)
    <2>4. s.res = "full"
      BY <1>1, <2>1, <2>3 DEF val_to_ring
    <2>5. head \in Nat /\ w \in Nat /\ ~(curarg >= nargs)
          /\ head + w >= Least(size, NOD_MAX_ARG_SIZE)
      BY <1>1, <2>4, ServeFits
    <2>6. want' = want + head + w
      BY <2>3, <2>5 DEF val_to_ring, wholeOf
    <2> HIDE DEF s, w
    <2>7. used \in Nat /\ size \in Nat /\ want \in Nat /\ used + size = room /\ used <= want
      BY <1>1 DEF IInv, TypeOK, InRoom
    <2>. QED  BY <2>5, <2>6, <2>7 DEF Least, NOD_MAX_ARG_SIZE
  <1>2. IInv /\ [Next]_vars
          => [Running /\ Request.op = "push" /\ result' = "full" => Bound]_vars
    BY <1>1
  <1>. QED  BY Inductive, <1>2, PTL DEF Spec, FullMeansNoRoom

------------------------------------------------------------------------------
(* What val_to_ring makes of a value whose memory can be read: the whole   *)
(* value, unless it is larger than the room.                               *)
Entire(v, whole, max) == v.len = whole \/ whole > max

LEMMA NumberEntire ==
  ASSUME NEW t \in Number, NEW user, NEW u, NEW n \in Nat, NEW max \in Nat
  PROVE  Entire(Value_to_ring(t, user, u, n, max), Whole(t, user, u, n), max)
  <1>0. t \notin String /\ t # "BYTEBUF" /\ t \notin Address
    BY DEF String, Number, Byte, Short, Word, Long, Address
  <1>1. Value_to_ring(t, user, u, n, max) = Number_to_ring(t, max)
    BY <1>0 DEF Value_to_ring
  <1>2. Whole(t, user, u, n) = Size(t)
    BY <1>0 DEF Whole
  <1>. QED  BY <1>1, <1>2, SizeBound DEF Entire, Number_to_ring, Done, Full

LEMMA ValueEntire ==
  ASSUME NEW t, NEW user \in BOOLEAN, NEW u, u # "bad", NEW n \in Nat, NEW max \in Nat,
         Value_to_ring(t, user, u, n, max).res = "ok"
  PROVE  Entire(Value_to_ring(t, user, u, n, max), Whole(t, user, u, n), max)
  <1>1. CASE t \in Number
    BY <1>1, NumberEntire
  <1>2. CASE t \in String
    <2>1. t \notin Number /\ t # "BYTEBUF" /\ t \notin Address
      BY <1>2 DEF String, Number, Byte, Short, Word, Long, Address
    <2>2. Value_to_ring(t, user, u, n, max) = String_to_ring(user, u, n, max)
      BY <1>2, <2>1 DEF Value_to_ring
    <2>3. Whole(t, user, u, n) = IF u = "null" THEN 7 ELSE n
      BY <1>2, <2>1 DEF Whole, NULL_len
    <2>. QED  BY <2>2, <2>3 DEF Entire, String_to_ring, Done, Least, NULL_len, INVAL_len
  <1>3. CASE t = "BYTEBUF"
    <2>1. t \notin Number /\ t \notin String /\ t \notin Address
      BY <1>3 DEF String, Number, Byte, Short, Word, Long, Address
    <2>2. Value_to_ring(t, user, u, n, max) = Bytes_to_ring(user, u, n, max)
      BY <1>3, <2>1 DEF Value_to_ring
    <2>3. Whole(t, user, u, n) = IF u = "null" THEN 0 ELSE Least(n, 80)
      BY <1>3, <2>1 DEF Whole, snaplen
    <2>4. Bytes_to_ring(user, u, n, max).res = "ok"
      BY <2>2
    <2>. QED  BY <2>2, <2>3, <2>4
              DEF Entire, Bytes_to_ring, Done, Full, Least, snaplen, dpi_lookahead_size
  <1>4. CASE t \in Address
    <2>1. t \notin Number /\ t # "BYTEBUF" /\ t \notin String
      BY <1>4 DEF String, Number, Byte, Short, Word, Long, Address
    <2>2. Value_to_ring(t, user, u, n, max) = Address_to_ring(user, u, n, max)
      BY <1>4, <2>1 DEF Value_to_ring
    <2>3. Whole(t, user, u, n) = IF u = "null" THEN 0 ELSE n
      BY <1>4, <2>1 DEF Whole
    <2>4. Address_to_ring(user, u, n, max).res = "ok"
      BY <2>2
    <2>5. CASE u = "null"
      BY <2>2, <2>3, <2>5 DEF Entire, Address_to_ring, Done
    <2>6. CASE u # "null"
      <3>1. ~(n >= max)
        BY <2>4, <2>6 DEF Address_to_ring, Full
      <3>2. Address_to_ring(user, u, n, max) = Done(n)
        BY <2>6, <3>1 DEF Address_to_ring
      <3>. QED  BY <2>2, <2>3, <2>6, <3>2 DEF Entire, Done
    <2>. QED  BY <2>5, <2>6
  <1>5. CASE t \notin Number \cup String \cup Address \cup {"BYTEBUF"}
    BY <1>5 DEF Value_to_ring, Bug
  <1>. QED  BY <1>1, <1>2, <1>3, <1>4, <1>5

(* The same of the answer to a request that is looked at and was "ok", or  *)
(* is for a number.                                                        *)
LEMMA ServeEntire ==
  ASSUME IInv, Running, NEW u \in Request.mem, NEW n \in Request.lens, ~(curarg >= nargs),
         \/ u # "bad" /\ Serve(u, n).res = "ok"
         \/ Serve(u, n).res = "ok" /\ type \in Number
         \/ declared \in Number
  PROVE  \/ Serve(u, n).taken = head + wholeOf(u, n)
         \/ head + wholeOf(u, n) > Least(size, NOD_MAX_ARG_SIZE)
  <1>1. Request \in Step
    BY RequestIsStep DEF IInv
  <1>2. n \in Nat /\ size \in Nat
    BY <1>1 DEF Step, IInv, TypeOK
  <1>3. head \in {0, 1} /\ wholeOf(u, n) \in Nat
    BY ServeFits DEF head
  <1>4. (Request.kind \in FromUser) \in BOOLEAN
    OBVIOUS
  <1>5. declared \in Number => ~IsDyn /\ type = declared
    BY DEF IsDyn, type, dynamic_param, Number, Byte, Short, Word, Long
  <1>6. type \in Number => wholeOf(u, n) \in {1, 2, 4, 8}
    <2> SUFFICES ASSUME type \in Number PROVE wholeOf(u, n) \in {1, 2, 4, 8}
      OBVIOUS
    <2>1. type \notin String
      BY DEF String, Number, Byte, Short, Word, Long
    <2>2. wholeOf(u, n) = Size(type)
      BY <2>1 DEF wholeOf, Whole
    <2>. QED  BY <2>2, SizeBound
  <1>7. CASE size = 0
    <2>1. Serve(u, n).res = "full"
      BY <1>7 DEF Serve
    <2>2. declared \in Number
      BY <2>1
    <2>. QED  BY <1>2, <1>3, <1>5, <1>6, <1>7, <2>2 DEF Least, NOD_MAX_ARG_SIZE
  <1>8. CASE size # 0
    <2>1. max_arg_size \in Nat /\ max_arg_size + head = Least(size, NOD_MAX_ARG_SIZE)
      BY <1>2, <1>3, <1>8 DEF max_arg_size, Least, NOD_MAX_ARG_SIZE
    <2> DEFINE v == Value_to_ring(type, Request.kind \in FromUser, u, n, max_arg_size)
    <2>2. ~(IsDyn /\ Request.dyn >= Len(dynamic_param[declared]))
      <3>1. CASE declared \in Number
        BY <1>5, <3>1
      <3>2. CASE Serve(u, n).res = "ok"
        BY <1>8, <3>2 DEF Serve
      <3>. QED  BY <3>1, <3>2
    <2>3. Serve(u, n) = [res |-> v.res, taken |-> head + v.len]
      BY <1>8, <2>2 DEF Serve
    <2>4. Entire(v, wholeOf(u, n), max_arg_size)
      <3>1. CASE type \in Number
        BY <1>2, <2>1, <3>1, NumberEntire DEF wholeOf
      <3>2. CASE type \notin Number
        <4>1. u # "bad" /\ v.res = "ok"
          BY <1>5, <2>3, <3>2
        <4>. QED  BY <1>2, <1>4, <2>1, <4>1, ValueEntire DEF wholeOf
      <3>. QED  BY <3>1, <3>2
    <2>5. v.len \in Nat
      BY <1>2, <1>4, <2>1, ValueFits DEF Fits
    <2>6. Serve(u, n).taken = head + v.len
      BY <2>3
    <2> HIDE DEF v
    <2>. QED  BY <1>3, <2>1, <2>4, <2>5, <2>6 DEF Entire
  <1>. QED  BY <1>7, <1>8

(* While nothing has failed, an event that fits so far is written whole.   *)
Uncut ==
  result \in {"run", "ok"} /\ ~faulted /\ want <= Least(room, NOD_MAX_ARG_SIZE) => used = want

(* The requests that are left go on meeting NumbersUnchecked.              *)
Unlooked(steps, types, k) ==
  \A i \in 1 .. Len(steps) :
    steps[i].op = "try" => /\ types[k + i] \in Number
                           /\ \A j \in 1 .. i - 1 : steps[j].op = "push"

Looked ==
  /\ result = "run" => Unlooked(todo, g_event_info[ev].types, curarg)
  /\ result = "idle" => want = 0

WInv == IInv /\ Uncut /\ Looked

LEMMA LookedRest ==
  ASSUME NEW steps \in Seq(Step), steps # << >>, NEW types, NEW k \in Nat, NEW c \in Nat,
         Unlooked(steps, types, k), steps[1].op = "push" => c = k + 1
  PROVE  Unlooked(Tail(steps), types, c)
  <1> SUFFICES ASSUME NEW i \in 1 .. Len(Tail(steps)), Tail(steps)[i].op = "try"
               PROVE  /\ types[c + i] \in Number
                      /\ \A j \in 1 .. i - 1 : Tail(steps)[j].op = "push"
    BY DEF Unlooked
  <1>1. \A j \in 1 .. Len(Tail(steps)) : j + 1 \in 1 .. Len(steps) /\ Tail(steps)[j] = steps[j + 1]
    OBVIOUS
  <1>2. i \in Nat /\ i >= 1 /\ i <= Len(Tail(steps)) /\ Len(Tail(steps)) \in Nat
    OBVIOUS
  <1>3. types[k + (i + 1)] \in Number /\ \A j \in 1 .. (i + 1) - 1 : steps[j].op = "push"
    BY <1>1 DEF Unlooked
  <1>4. c = k + 1 /\ c + i = k + (i + 1)
    <2>1. 1 \in 1 .. (i + 1) - 1
      BY <1>2
    <2>. QED  BY <1>2, <1>3, <2>1
  <1>5. ASSUME NEW j \in 1 .. i - 1 PROVE Tail(steps)[j].op = "push"
    <2>1. j \in 1 .. Len(Tail(steps)) /\ j + 1 \in 1 .. (i + 1) - 1
      BY <1>2
    <2>. QED  BY <1>1, <1>3, <2>1
  <1>. QED  BY <1>3, <1>4, <1>5

LEMMA PushWhole ==
  ASSUME WInv, PushValue
  PROVE  Uncut'
  <1> SUFFICES ASSUME result' \in {"run", "ok"}, ~faulted', want' <= Least(room', NOD_MAX_ARG_SIZE)
               PROVE  used' = want'
    BY DEF Uncut
  <1>1. PICK u \in Request.mem, n \in Request.lens :
          /\ val_to_ring(u, n)
          /\ faulted' = (faulted \/ (u = "bad" /\ ~(curarg >= nargs) /\ type \notin Number))
    BY DEF PushValue
  <1>2. Running /\ room' = room /\ result = "run" /\ Request.op \in {"push", "try"} /\ IInv
    BY DEF PushValue, WInv, Running
  <1>3. ~faulted /\ (u # "bad" \/ curarg >= nargs \/ type \in Number)
    BY <1>1
  <1> DEFINE s == Serve(u, n)
             w == head + wholeOf(u, n)
  <1>4. /\ s.taken \in Nat /\ s.res \in {"ok", "full", "bug"} /\ w \in Nat
        /\ head \in Nat /\ wholeOf(u, n) \in Nat
        /\ curarg >= nargs => s.taken = 0
    BY <1>2, ServeFits
  <1>5. used \in Nat /\ size \in Nat /\ want \in Nat /\ used + size = room /\ used <= want
    BY <1>2 DEF IInv, TypeOK, InRoom
  <1>6. /\ used' = used + s.taken
        /\ result' = IF s.res = "ok" \/ Request.op = "try" THEN "run" ELSE s.res
        /\ want' = IF curarg >= nargs THEN want ELSE want + w
    <2>1. want + head + wholeOf(u, n) = want + w
      BY <1>4, <1>5
    <2>. QED  BY <1>1, <2>1 DEF val_to_ring, wholeOf
  <1>7. want <= want' /\ want' \in Nat
    BY <1>4, <1>5, <1>6
  <1>8. want <= Least(room, NOD_MAX_ARG_SIZE)
    BY <1>2, <1>5, <1>7 DEF Least, NOD_MAX_ARG_SIZE
  <1>9. used = want
    BY <1>2, <1>3, <1>8 DEF WInv, Uncut
  <1>10. CASE curarg >= nargs
    BY <1>4, <1>5, <1>6, <1>9, <1>10
  <1>11. CASE ~(curarg >= nargs)
    <2>1. Request.op = "try" => declared \in Number
      <3>1. 1 \in 1 .. Len(todo) /\ Request = todo[1]
        BY <1>2 DEF Running, Request, IInv, TypeOK
      <3>. QED  BY <1>2, <3>1 DEF WInv, Looked, Unlooked, declared
    <2>2. s.res = "ok" \/ declared \in Number
      BY <1>4, <1>6, <2>1
    <2>3. s.taken = w \/ w > Least(size, NOD_MAX_ARG_SIZE)
      BY <1>2, <1>3, <1>11, <2>2, ServeEntire
    <2>4. want' = want + w /\ room' = used + size
      BY <1>2, <1>5, <1>6, <1>11
    <2> HIDE DEF s, w
    <2>5. ~(w > Least(size, NOD_MAX_ARG_SIZE))
      BY <1>4, <1>5, <1>9, <2>4 DEF Least, NOD_MAX_ARG_SIZE
    <2>. QED  BY <1>6, <1>9, <2>3, <2>4, <2>5
  <1>. QED  BY <1>10, <1>11

LEMMA WholeStep ==
  ASSUME NumbersUnchecked
  PROVE  WInv /\ [Next]_vars => WInv'
  <1> SUFFICES ASSUME WInv, [Next]_vars PROVE Uncut' /\ Looked'
    BY StepKeeps DEF WInv
  <1>0. TypeOK /\ Looked /\ Uncut
    BY DEF WInv, IInv
  <1>1. ASSUME NEW e \in Events, NEW p \in Program[e], NEW r \in Room, Callback(e, p, r)
        PROVE  Uncut' /\ Looked'
    <2>1. used' = 0 /\ want' = 0 /\ result' = "run" /\ ev' = e /\ todo' = p /\ curarg' = 0
      BY <1>0, <1>1 DEF Callback, Looked
    <2>2. Unlooked(p, g_event_info[e].types, 0)
      <3>1. p \in Seq(Step)
        BY FillersAssumption
      <3>2. \A i \in 1 .. Len(p) : 0 + i = i
        BY <3>1
      <3>. QED  BY <3>2, NumbersUnchecked DEF NumbersUnchecked, Unlooked
    <2>. QED  BY <2>1, <2>2 DEF Uncut, Looked
  <1>r. TypeOK /\ Running => /\ todo \in Seq(Step) /\ todo # << >> /\ curarg \in Nat
                             /\ Request = todo[1]
                             /\ Unlooked(todo, g_event_info[ev].types, curarg)
    BY <1>0 DEF TypeOK, Running, Request, Looked
  <1>2. CASE PushValue
    <2>1. Running /\ todo' = Tail(todo) /\ ev' = ev
      BY <1>2 DEF PushValue
    <2>2. PICK u \in Request.mem, n \in Request.lens : val_to_ring(u, n)
      BY <1>2 DEF PushValue
    <2>3. /\ Serve(u, n).res \in {"ok", "full", "bug"}
          /\ result' = IF Serve(u, n).res = "ok" \/ Request.op = "try" THEN "run" ELSE Serve(u, n).res
          /\ curarg' = IF Serve(u, n).res = "ok" THEN curarg + 1 ELSE curarg
      BY <2>1, <2>2, ServeFits DEF WInv, val_to_ring
    <2>4. result' # "idle"
      BY <2>3
    <2>5. result' = "run" => Unlooked(Tail(todo), g_event_info[ev].types, curarg')
      <3>1. result' = "run" /\ todo[1].op = "push" => curarg' = curarg + 1
        BY <1>0, <1>r, <2>1, <2>3
      <3>2. curarg' \in Nat
        BY <1>0, <1>r, <2>1, <2>3
      <3>. QED  BY <1>0, <1>r, <2>1, <3>1, <3>2, LookedRest
    <2>. QED  BY <1>2, <2>1, <2>4, <2>5, PushWhole DEF Looked
  <1>3. CASE CopyStruct
    <2>1. Running /\ todo' = Tail(todo) /\ result' \in {"run", "inval"} /\ Request.op = "copy"
          /\ UNCHANGED <<ev, room, curarg, used, want, faulted>>
      BY <1>3 DEF CopyStruct, Running
    <2>2. Unlooked(Tail(todo), g_event_info[ev].types, curarg)
      BY <1>0, <1>r, <2>1, LookedRest
    <2>3. Looked'
      BY <2>1, <2>2 DEF Looked
    <2>4. Uncut'
      BY <1>0, <2>1 DEF Uncut, Running
    <2>. QED  BY <2>3, <2>4
  <1>4. CASE GiveUp
    <2>1. Running /\ todo' = << >> /\ result' = Request.res
          /\ UNCHANGED <<room, used, want, faulted>>
      BY <1>4 DEF GiveUp
    <2>2. result' \in Result
      BY <1>0, <2>1, RequestIsStep DEF Step
    <2>3. Looked'
      BY <2>1, <2>2 DEF Looked, Result, Unlooked
    <2>4. Uncut'
      BY <1>0, <2>1 DEF Uncut, Running
    <2>. QED  BY <2>3, <2>4
  <1>5. CASE Succeed
    BY <1>0, <1>5 DEF Succeed, Uncut, Looked, Unlooked
  <1>6. CASE Return
    BY <1>6 DEF Return, Uncut, Looked
  <1>7. CASE UNCHANGED vars
    BY <1>0, <1>7 DEF vars, Uncut, Looked
  <1>. QED  BY <1>1, <1>2, <1>3, <1>4, <1>5, <1>6, <1>7 DEF Next

(* An event that fits the room and the largest argument, and whose user    *)
(* memory could be read, is recorded whole: val_to_ring cuts nothing and   *)
(* replaces nothing, in whatever order a filler pushes its values.         *)
THEOREM FittingEventIsWhole ==
  ASSUME NumbersUnchecked
  PROVE  Spec => []WholeIfFits
  <1>1. Init => WInv
    <2> SUFFICES ASSUME Init PROVE Uncut /\ Looked
      BY Initially DEF WInv
    <2>1. used = 0 /\ want = 0 /\ result = "idle"
      BY DEF Init
    <2>. QED  BY <2>1 DEF Uncut, Looked
  <1>2. WInv /\ [Next]_vars => WInv'
    BY NumbersUnchecked, WholeStep
  <1>3. WInv => WholeIfFits
    BY DEF WInv, Uncut, WholeIfFits
  <1>. QED  BY <1>1, <1>2, <1>3, PTL DEF Spec
==============================================================================
