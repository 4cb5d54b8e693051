-------------------------- MODULE EventBufferProofs --------------------------
(***************************************************************************)
(* Proofs about EventBuffer, for every buffer and page size, every set of  *)
(* event kinds and every bound.                                            *)
(***************************************************************************)
EXTENDS EventBuffer, TLAPS

(* uint32_t subtraction and addition, as freespace, tail and the offsets   *)
(* use them, yield a uint32_t, and wrap around only at the ends.           *)
LEMMA Word32 ==
  ASSUME NEW a \in Word, NEW b \in Word
  PROVE  /\ Sub32(a, b) \in Word /\ (b <= a => Sub32(a, b) = a - b)
         /\ Add32(a, b) \in Word /\ (a + b < U32 => Add32(a, b) = a + b)
BY SizesAssumption DEF Sub32, Add32, Word

(* An event header written over the buffer leaves a well-formed map: the   *)
(* event at its offset, the headers outside its bytes as they were.        *)
LEMMA PutType ==
  ASSUME NEW m, DOMAIN m \subseteq Nat, m \in [DOMAIN m -> Event],
         NEW o \in Nat, NEW e \in Event
  PROVE  /\ DOMAIN Put(m, o, e) = (DOMAIN m \ (o .. (o + e.len - 1))) \cup {o}
         /\ DOMAIN Put(m, o, e) \subseteq Nat
         /\ Put(m, o, e) \in [DOMAIN Put(m, o, e) -> Event]
         /\ Put(m, o, e)[o] = e
         /\ \A x \in DOMAIN Put(m, o, e) : x # o => x \in DOMAIN m /\ Put(m, o, e)[x] = m[x]
BY DEF Put

(* Writing an event that fits keeps all headers within the buffer.         *)
LEMMA PutBounds ==
  ASSUME NEW m, DOMAIN m \subseteq Nat, m \in [DOMAIN m -> Event],
         \A x \in DOMAIN m : x + m[x].len <= BufferSize,
         NEW o \in Nat, NEW e \in Event, o + e.len <= BufferSize
  PROVE  \A x \in DOMAIN Put(m, o, e) : x + Put(m, o, e)[x].len <= BufferSize
<1> TAKE x \in DOMAIN Put(m, o, e)
<1>1. CASE x = o
  BY <1>1 DEF Put
<1>2. CASE x # o
  <2>1. x \in DOMAIN m /\ Put(m, o, e)[x] = m[x]
    BY <1>2 DEF Put
  <2> QED
    BY <2>1
<1> QED
  BY <1>1, <1>2

(* The constants' sizes are uint32_t values.                               *)
LEMMA SizeWords ==
  /\ BufferSize \in Word /\ PageSize \in Word /\ 0 \in Word
  /\ \A k \in Kind : Fixed[k] \in Word /\ MinData[k] \in Word
                    /\ FullData[k] \in Word /\ Partial[k] \subseteq Word
  /\ Word \subseteq Nat
<1>1. BufferSize \in Word /\ PageSize \in Word /\ 0 \in Word /\ Word \subseteq Nat
  BY SizesAssumption DEF Word
<1>2. ASSUME NEW k \in Kind PROVE Fixed[k] \in Word
  BY SizesAssumption, KindsAssumption DEF Word
<1>3. ASSUME NEW k \in Kind
      PROVE MinData[k] \in Word /\ FullData[k] \in Word /\ Partial[k] \subseteq Word
  BY KindsAssumption
<1> QED
  BY <1>1, <1>2, <1>3

LEMMA NoCallType == NoCall \in CurType
BY KindsAssumption, SizeWords DEF NoCall, CurType, Call

LEMMA JunkType == \A n \in Word : Junk(n) \in Event
BY SizeWords DEF Junk, Event

(* The initial state of a traced thread is well formed.                    *)
LEMMA InitType == Init => TypeOK
<1> SUFFICES ASSUME Init PROVE TypeOK
  OBVIOUS
<1>1. page \in Event
  BY JunkType, KindsAssumption DEF Init
<1>2. DOMAIN mem \subseteq Nat /\ mem \in [DOMAIN mem -> Event]
  BY DEF Init
<1>3. cur \in CurType
  BY NoCallType DEF Init
<1>4. filled \in BOOLEAN /\ entry \in BOOLEAN /\ pc \in Phase
  BY Zenon DEF Init, Phase
<1>5. log \in Seq(Event) /\ out \in Seq(Event)
  BY DEF Init
<1>6. stat \in [n_evts : Nat, n_drop : Nat, n_unsolved : Nat]
      /\ clean \in [begun : Nat, done : Nat, wiped : Nat]
  BY DEF Init
<1>7. tail \in Word /\ nevents \in Nat /\ ptr \in Nat /\ end \in Nat
      /\ ctl \in {"idle", "tail", "filled"}
  BY SizeWords DEF Init
<1> QED
  BY <1>1, <1>2, <1>3, <1>4, <1>5, <1>6, <1>7, Zenon DEF TypeOK

(* Every step of the thread, the monitor or the controller keeps the state *)
(* well formed.                                                            *)
LEMMA TypeStep == TypeOK /\ [Next]_vars => TypeOK'
<1> SUFFICES ASSUME TypeOK, [Next]_vars PROVE TypeOK'
  OBVIOUS
<1>nat. tail \in Word /\ nevents \in Nat /\ ptr \in Nat /\ end \in Nat
  BY DEF TypeOK
<1>page. page \in Event /\ page.len \in Word
  BY DEF TypeOK, Event
<1>mem. DOMAIN mem \subseteq Nat /\ mem \in [DOMAIN mem -> Event]
  BY DEF TypeOK
<1>stat. stat \in [n_evts : Nat, n_drop : Nat, n_unsolved : Nat]
  BY DEF TypeOK
<1>clean. clean \in [begun : Nat, done : Nat, wiped : Nat]
  BY DEF TypeOK
<1>log. log \in Seq(Event) /\ out \in Seq(Event)
  BY DEF TypeOK
<1>len. Len(log) \in Nat
  BY <1>log
<1>cur. cur \in CurType
  BY DEF TypeOK
<1>field. /\ cur.kind \in Kind
          /\ cur.at \in Word /\ cur.free \in Word /\ cur.off \in Word /\ cur.len \in Word
  BY <1>cur DEF CurType
<1>1. ASSUME NEW k \in Kind, NEW c \in Call, SyscallProbe(k, c) PROVE TypeOK'
  <2>1. cur' \in CurType
    BY <1>1, NoCallType DEF SyscallProbe, CurType
  <2>2. entry' \in BOOLEAN
    BY <1>1, Zenon DEF SyscallProbe
  <2>3. pc' \in Phase
    BY <1>1 DEF SyscallProbe, Phase, InKernel
  <2> QED
    BY <1>1, <2>1, <2>2, <2>3 DEF TypeOK, SyscallProbe, shared
<1>2. CASE CheckOverflow
  <2>1. tail' \in Word /\ nevents' \in Nat
    BY <1>2, <1>nat, <1>page DEF CheckOverflow
  <2>2. stat' \in [n_evts : Nat, n_drop : Nat, n_unsolved : Nat]
    BY <1>2, <1>stat DEF CheckOverflow
  <2>3. pc' \in Phase
    BY <1>2 DEF CheckOverflow, Phase, InKernel, InMonitor
  <2> QED
    BY <1>2, <2>1, <2>2, <2>3 DEF TypeOK, CheckOverflow, shared
<1>3. CASE MoveOverflow
  <2>1. DOMAIN mem' \subseteq Nat /\ mem' \in [DOMAIN mem' -> Event]
    BY <1>3, <1>mem, <1>page, PutType DEF MoveOverflow
  <2>2. filled' \in BOOLEAN
    BY <1>3 DEF MoveOverflow
  <2>3. pc' \in Phase
    BY <1>3 DEF MoveOverflow, Phase, InKernel, InMonitor
  <2> QED
    BY <1>3, <2>1, <2>2, <2>3 DEF TypeOK, MoveOverflow, shared
<1>4. CASE ComputeSpace
  <2>1. Sub32(BufferSize, tail) \in Word
    BY <1>4, <1>nat, SizeWords, Word32
  <2>2. Fixed[cur.kind] \in Word
    BY <1>4, <1>field, SizeWords
  <2>3. ((cur.call = "exit") \/ ~entry) \in BOOLEAN
    BY <1>4, Zenon
  <2>4. cur' \in CurType
    BY <1>4, <2>1, <2>2, <2>3, <1>cur DEF ComputeSpace, CurType
  <2>5. pc' \in Phase
    BY <1>4 DEF ComputeSpace, Phase, InKernel, InMonitor
  <2> QED
    BY <1>4, <2>1, <2>2, <2>3, <2>4, <2>5 DEF TypeOK, ComputeSpace, shared
<1>5. CASE Place
  <2>1. (cur.free < Fixed[cur.kind] \/ cur.restart) \in BOOLEAN
    BY <1>5, Zenon
  <2>2. (cur.force \/ (cur.free < Fixed[cur.kind] \/ cur.restart)) \in BOOLEAN
    BY <1>5, Zenon
  <2>3. cur' \in CurType
    BY <1>5, <2>1, <2>2, <1>cur, <1>nat DEF Place, CurType
  <2>4. filled' \in BOOLEAN
    BY <1>5, Zenon DEF Place
  <2>5. pc' \in Phase
    BY <1>5 DEF Place, Phase, InKernel, InMonitor
  <2> QED
    BY <1>5, <2>1, <2>2, <2>3, <2>4, <2>5 DEF TypeOK, Place, shared
<1>6. CASE FillOk
  <2>1. PICK d \in Pushed(cur.kind, Room) :
          LET e == [id |-> Len(log) + 1, len |-> Add32(cur.off, d),
                    gap |-> Sub32(cur.off, Fixed[cur.kind]),
                    cut |-> d < FullData[cur.kind]]
          IN  /\ cur' = [cur EXCEPT !.len = e.len]
              /\ log' = Append(log, e)
              /\ IF cur.over THEN page' = e /\ UNCHANGED mem
                             ELSE mem' = Put(mem, cur.at, e) /\ UNCHANGED page
    BY <1>6 DEF FillOk
  <2> DEFINE e == [id |-> Len(log) + 1, len |-> Add32(cur.off, d),
                   gap |-> Sub32(cur.off, Fixed[cur.kind]),
                   cut |-> d < FullData[cur.kind]]
  <2>2. Room \in Word /\ Fixed[cur.kind] \in Word
    BY <1>field, SizeWords, Word32 DEF Room
  <2>3. d \in Word
    <3>1. MinData[cur.kind] \in Word /\ FullData[cur.kind] \in Word
      BY <1>field, SizeWords
    <3> QED
      BY <2>2, <3>1, SizesAssumption DEF Pushed, Word
  <2>4. e \in Event
    BY <2>2, <2>3, <1>field, <1>len, Word32 DEF Event
  <2>5. cur' \in CurType
    BY <2>1, <2>4, <1>cur DEF CurType, Event
  <2>6. log' \in Seq(Event)
    BY <2>1, <2>4, <1>log
  <2>7. page' \in Event
    BY <2>1, <2>4, <1>page
  <2>8. DOMAIN mem' \subseteq Nat /\ mem' \in [DOMAIN mem' -> Event]
    <3>1. CASE cur.over
      BY <3>1, <2>1, <1>mem
    <3>2. CASE ~cur.over
      <4>1. mem' = Put(mem, cur.at, e) /\ cur.at \in Nat
        BY <3>2, <2>1, <1>field, SizeWords
      <4> HIDE DEF e
      <4> QED
        BY <4>1, <2>4, <1>mem, PutType
    <3> QED
      BY <3>1, <3>2
  <2>9. pc' \in Phase
    BY <1>6 DEF FillOk, Phase, InKernel
  <2> QED
    BY <1>6, <2>5, <2>6, <2>7, <2>8, <2>9 DEF TypeOK, FillOk
<1>7. CASE FillFull
  <2>1. \E a \in Partial[cur.kind] : cur' = [cur EXCEPT !.restart = TRUE, !.off = Add32(cur.off, a)]
    BY <1>7 DEF FillFull
  <2>2. \A a \in Partial[cur.kind] : Add32(cur.off, a) \in Word
    BY <1>7, <1>field, SizeWords, Word32
  <2>3. cur' \in CurType
    BY <1>7, <2>1, <2>2, <1>cur DEF CurType
  <2>4. pc' \in Phase
    BY <1>7 DEF FillFull, Phase, InKernel, InMonitor
  <2> QED
    BY <1>7, <2>1, <2>2, <2>3, <2>4 DEF TypeOK, FillFull, shared
<1>8. CASE FillFail
  <2>1. stat' \in [n_evts : Nat, n_drop : Nat, n_unsolved : Nat]
    BY <1>8, <1>stat DEF FillFail
  <2>2. page' \in Event
    BY <1>8, <1>page, JunkType DEF FillFail
  <2>3. pc' \in Phase
    BY <1>8 DEF FillFail, Phase, InKernel, InMonitor
  <2> QED
    BY <1>8, <2>1, <2>2, <2>3 DEF TypeOK, FillFail, shared
<1>9. CASE FillCorrupt
  <2>1. page' \in Event
    BY <1>9, <1>page, JunkType DEF FillCorrupt
  <2>2. cur' \in CurType
    BY <1>9, <1>cur DEF FillCorrupt, CurType
  <2>3. pc' \in Phase
    BY <1>9 DEF FillCorrupt, Phase, InKernel, InMonitor
  <2> QED
    BY <1>9, <2>1, <2>2, <2>3 DEF TypeOK, FillCorrupt, shared
<1>10. CASE Commit
  <2>1. cur' \in CurType
    BY <1>10, <1>cur, <1>nat DEF Commit, CurType
  <2>2. pc' \in Phase
    BY <1>10 DEF Commit, Phase, InKernel, InMonitor
  <2> QED
    BY <1>10, <2>1, <2>2 DEF TypeOK, Commit, shared
<1>11. CASE StoreTail
  <2>1. tail' \in Word /\ nevents' \in Nat
    BY <1>11, <1>nat, <1>field, Word32 DEF StoreTail
  <2>2. stat' \in [n_evts : Nat, n_drop : Nat, n_unsolved : Nat]
    BY <1>11, <1>stat DEF StoreTail
  <2>3. pc' \in Phase
    BY <1>11 DEF StoreTail, Phase, InKernel, InMonitor
  <2> QED
    BY <1>11, <2>1, <2>2, <2>3 DEF TypeOK, StoreTail, shared
<1>12. CASE LoadMonitor
  <2>1. entry' \in BOOLEAN
    BY <1>12 DEF LoadMonitor
  <2>2. pc' \in Phase
    BY <1>12 DEF LoadMonitor, Phase, InKernel, InMonitor
  <2> QED
    BY <1>12, <2>1, <2>2 DEF TypeOK, LoadMonitor, shared
<1>13. CASE NoLoad
  <2>1. (pc' = "user" \/ pc' = "exited") /\ (cur' = cur \/ cur' = NoCall)
    BY <1>13 DEF NoLoad, Leave, Release
  <2>2. pc' \in Phase
    BY <1>13, <2>1 DEF Phase
  <2>3. cur' \in CurType
    BY <1>13, <2>1, <1>cur, NoCallType
  <2>4. stat' \in [n_evts : Nat, n_drop : Nat, n_unsolved : Nat]
    BY <1>13, <1>nat, <1>stat DEF NoLoad, Leave, Release
  <2> QED
    BY <1>13, <2>1, <2>2, <2>3, <2>4 DEF TypeOK, NoLoad, shared
<1>14. CASE LoadFail
  <2>1. (pc' = "user" \/ pc' = "exited") /\ (cur' = cur \/ cur' = NoCall)
    BY <1>14 DEF LoadFail, Leave, Release
  <2>2. pc' \in Phase
    BY <1>14, <2>1 DEF Phase
  <2>3. cur' \in CurType
    BY <1>14, <2>1, <1>cur, NoCallType
  <2>4. stat' \in [n_evts : Nat, n_drop : Nat, n_unsolved : Nat]
    BY <1>14, <1>nat, <1>stat DEF LoadFail, Leave, Release
  <2>5. entry' \in BOOLEAN
    BY <1>14, Zenon DEF LoadFail, TypeOK
  <2> QED
    BY <1>14, <2>1, <2>2, <2>3, <2>4, <2>5 DEF TypeOK, LoadFail, shared
<1>15. CASE StartDrain
  <2>1. ptr' \in Nat /\ end' \in Nat
    BY <1>15, <1>nat, SizeWords DEF StartDrain
  <2>2. pc' \in Phase
    BY <1>15 DEF StartDrain, Phase, InKernel, InMonitor
  <2> QED
    BY <1>15, <2>1, <2>2 DEF TypeOK, StartDrain, shared
<1>16. CASE SkipDrain
  <2>1. pc' \in Phase
    BY <1>16 DEF SkipDrain, Phase, InKernel, InMonitor
  <2> QED
    BY <1>16, <2>1 DEF TypeOK, SkipDrain, shared
<1>17. CASE Consume
  <2>1. \E e \in Event : out' = Append(out, e) /\ ptr' = ptr + e.len
    BY <1>17, <1>mem, JunkType, KindsAssumption DEF Consume
  <2>2. out' \in Seq(Event)
    BY <1>17, <2>1, <1>log
  <2>3. \A e \in Event : e.len \in Nat
    BY <1>17, SizeWords DEF Event
  <2>4. ptr' \in Nat
    BY <1>17, <2>1, <2>3, <1>nat
  <2> QED
    BY <1>17, <2>1, <2>2, <2>3, <2>4 DEF TypeOK, Consume, shared
<1>18. CASE EndDrain
  <2>1. tail' \in Word /\ nevents' \in Nat /\ ptr' \in Nat /\ end' \in Nat
    BY <1>18, SizeWords DEF EndDrain
  <2>2. pc' \in Phase
    BY <1>18 DEF EndDrain, Phase, InKernel, InMonitor
  <2> QED
    BY <1>18, <2>1, <2>2 DEF TypeOK, EndDrain, shared
<1>19. CASE Return
  <2>1. (pc' = "user" \/ pc' = "exited") /\ (cur' = cur \/ cur' = NoCall)
    BY <1>19 DEF Return, Leave, Release
  <2>2. pc' \in Phase
    BY <1>19, <2>1 DEF Phase
  <2>3. cur' \in CurType
    BY <1>19, <2>1, <1>cur, NoCallType
  <2>4. stat' \in [n_evts : Nat, n_drop : Nat, n_unsolved : Nat]
    BY <1>19, <1>nat, <1>stat DEF Return, Leave, Release
  <2> QED
    BY <1>19, <2>1, <2>2, <2>3, <2>4 DEF TypeOK, Return, shared
<1>20. CASE Kill
  <2>1. cur' \in CurType
    BY <1>20, NoCallType DEF Kill
  <2>2. stat' \in [n_evts : Nat, n_drop : Nat, n_unsolved : Nat]
    BY <1>20, <1>nat, <1>stat DEF Kill, Release
  <2>3. pc' \in Phase
    BY <1>20 DEF Kill, Phase, InKernel, InMonitor, Release
  <2> QED
    BY <1>20, <2>1, <2>2, <2>3 DEF TypeOK, Kill, shared
<1>21. CASE ClearEvents
  <2>1. clean' = [clean EXCEPT !.begun = Len(log), !.wiped = clean.wiped + nevents]
    BY <1>21 DEF ClearEvents
  <2>2. \A n, m \in Nat : [clean EXCEPT !.begun = n, !.wiped = m] \in [begun : Nat, done : Nat, wiped : Nat]
    BY <1>21, <1>clean
  <2>3. clean.wiped + nevents \in Nat
    BY <1>21, <1>clean, <1>nat
  <2>4. clean' \in [begun : Nat, done : Nat, wiped : Nat]
    BY <1>21, <2>1, <2>2, <2>3, <1>len, Zenon
  <2>5. nevents' \in Nat /\ ctl' \in {"idle", "tail", "filled"}
    BY <1>21 DEF ClearEvents
  <2> QED
    BY <1>21, <2>1, <2>2, <2>3, <2>4, <2>5 DEF TypeOK, ClearEvents, shared
<1>22. CASE ClearTail
  <2>1. tail' \in Word /\ ctl' \in {"idle", "tail", "filled"}
    BY <1>22, SizeWords DEF ClearTail
  <2> QED
    BY <1>22, <2>1 DEF TypeOK, ClearTail, shared
<1>23. CASE ClearFilled
  <2>1. clean' \in [begun : Nat, done : Nat, wiped : Nat]
    BY <1>23, <1>clean DEF ClearFilled
  <2>2. filled' \in BOOLEAN /\ ctl' \in {"idle", "tail", "filled"}
    BY <1>23 DEF ClearFilled
  <2> QED
    BY <1>23, <2>1, <2>2 DEF TypeOK, ClearFilled, shared
<1>24. CASE UNCHANGED vars
  BY <1>24 DEF TypeOK, vars, shared
<1> QED
  BY <1>1, <1>2, <1>3, <1>4, <1>5, <1>6, <1>7, <1>8, <1>9, <1>10, <1>11, <1>12, <1>13, <1>14, <1>15, <1>16, <1>17, <1>18, <1>19, <1>20, <1>21, <1>22, <1>23, <1>24 DEF Next, Record, Monitor, Clear

(* Type correctness of the buffer, the record path and the monitor, for    *)
(* every size, kind of event and fault mode.                               *)
THEOREM TypeCorrect == Spec => []TypeOK
<1>1. Init => TypeOK
  BY InitType
<1>2. TypeOK /\ [Next]_vars => TypeOK'
  BY TypeStep
<1> QED
  BY <1>1, <1>2, PTL DEF Spec

(* The regime of the theorems below: fillers work, CLEAR_BUFFER is not     *)
(* issued in the middle of a system call, and no more data is pushed       *)
(* before an argument that does not fit than the overflow page could hold. *)
Orderly ==
  /\ ~FillerFaults
  /\ Clearing # "racing"
  /\ \A k \in Kind : \A a \in Partial[k] : Fixed[k] + a <= PageSize

(* The strengthening that makes WritesInBounds inductive: the free space   *)
(* and the write position the record path computed are still those of the  *)
(* buffer when they are used, and the offset fits where it is going.       *)
Placement ==
  /\ ctl # "idle" => pc \in {"user", "exited"}
  /\ pc = "move" => filled
  /\ pc = "space" => ~filled
  /\ pc \in {"place", "fill"} =>
       /\ cur.free = BufferSize - tail
       /\ cur.off <= PageSize
       /\ Fixed[cur.kind] <= cur.off
  /\ pc = "place" => (filled => cur.restart)
  /\ pc \in {"place", "fill"} => (~cur.restart => cur.off = Fixed[cur.kind])
  /\ pc = "fill" => /\ ~cur.over => ~cur.restart /\ cur.off <= cur.free /\ cur.at = tail
                    /\ cur.over <=> filled
  /\ pc \in {"commit", "store"} /\ ~filled => cur.at = tail /\ cur.at + cur.len <= BufferSize
  /\ pc = "store" => ~filled
  /\ filled /\ pc \notin {"place", "fill"} => page.id # 0

Bounded == TypeOK /\ WritesInBounds /\ Placement

(* Every step keeps the writes in bounds.                                  *)
LEMMA BoundedStep == Orderly /\ Bounded /\ [Next]_vars => Bounded'
<1> SUFFICES ASSUME Orderly, Bounded, [Next]_vars PROVE Bounded'
  OBVIOUS
<1>type. TypeOK /\ TypeOK'
  BY TypeStep DEF Bounded
<1> SUFFICES WritesInBounds' /\ Placement'
  BY <1>type DEF Bounded
<1>inv. WritesInBounds /\ Placement
  BY DEF Bounded
<1>nat. tail \in Nat /\ BufferSize \in Nat /\ PageSize \in Nat /\ PageSize <= BufferSize
  BY <1>type, SizesAssumption, SizeWords DEF TypeOK
<1>bool. filled \in BOOLEAN
  BY <1>type DEF TypeOK
<1>mem. DOMAIN mem \subseteq Nat /\ mem \in [DOMAIN mem -> Event]
  BY <1>type DEF TypeOK
<1>page. page \in Event /\ page.len \in Nat
  BY <1>type, SizeWords DEF TypeOK, Event
<1>cur. cur \in CurType
  BY <1>type DEF TypeOK
<1>field. /\ cur.kind \in Kind
          /\ cur.at \in Word /\ cur.free \in Word /\ cur.off \in Word /\ cur.len \in Word
          /\ cur.restart \in BOOLEAN /\ cur.over \in BOOLEAN
  BY <1>cur DEF CurType
<1>num. cur.at \in Nat /\ cur.free \in Nat /\ cur.off \in Nat /\ cur.len \in Nat
  BY <1>field, SizeWords
<1>kind. /\ Fixed[cur.kind] \in Nat /\ Fixed[cur.kind] <= PageSize
         /\ MinData[cur.kind] \in Nat /\ FullData[cur.kind] \in Nat
  BY <1>field, KindsAssumption, SizeWords
<1>1. ASSUME NEW k \in Kind, NEW c \in Call, SyscallProbe(k, c) PROVE WritesInBounds' /\ Placement'
  BY <1>1, <1>inv, <1>bool DEF SyscallProbe, shared, WritesInBounds, Placement, Orderly
<1>2. CASE CheckOverflow
  <2>1. CASE filled
    <3>1. tail' = page.len /\ pc' = "move"
      BY <1>2, <2>1 DEF CheckOverflow
    <3>2. page.len <= PageSize /\ ctl = "idle"
      BY <1>2, <2>1, <1>inv DEF CheckOverflow, WritesInBounds, Placement
    <3>3. WritesInBounds'
      BY <1>2, <3>1, <3>2, <1>inv, <1>nat, <1>page DEF CheckOverflow, WritesInBounds
    <3>4. Placement'
      BY <1>2, <2>1, <3>1, <3>2, <1>inv DEF CheckOverflow, Placement
    <3> QED
      BY <3>3, <3>4
  <2>2. CASE ~filled
    <3>1. UNCHANGED <<tail, mem, page, filled, cur, ctl>> /\ pc' = "space" /\ ctl = "idle"
      BY <1>2, <2>2, <1>inv DEF CheckOverflow, Placement
    <3> QED
      BY <2>2, <3>1, <1>inv DEF WritesInBounds, Placement
  <2> QED
    BY <2>1, <2>2
<1>3. CASE MoveOverflow
  <2>1. filled /\ page.id # 0 /\ page.len <= PageSize /\ ctl = "idle"
    BY <1>3, <1>inv DEF MoveOverflow, WritesInBounds, Placement
  <2>2. \A o \in DOMAIN mem' : o + mem'[o].len <= BufferSize
    <3>1. CASE mem' = mem
      BY <3>1, <1>inv DEF WritesInBounds
    <3>2. CASE mem' = Put(mem, 0, page)
      <4>1. 0 + page.len <= BufferSize
        BY <2>1, <1>nat, <1>page
      <4> QED
        BY <3>2, <4>1, <1>inv, <1>mem, <1>page, PutBounds DEF WritesInBounds
    <3> QED
      BY <1>3, <3>1, <3>2 DEF MoveOverflow
  <2>3. WritesInBounds'
    BY <1>3, <2>2, <1>inv DEF MoveOverflow, WritesInBounds
  <2>4. Placement'
    BY <1>3, <2>1, <1>inv DEF MoveOverflow, Placement
  <2> QED
    BY <2>3, <2>4
<1>4. CASE ComputeSpace
  <2>1. Sub32(BufferSize, tail) = BufferSize - tail
    BY <1>inv, <1>type, SizeWords, Word32, SizesAssumption DEF WritesInBounds, TypeOK
  <2>2. /\ cur'.free = BufferSize - tail /\ cur'.off = Fixed[cur.kind]
        /\ cur'.kind = cur.kind
    BY <1>4, <2>1, <1>cur DEF ComputeSpace, CurType
  <2>3. UNCHANGED <<tail, mem, page, filled, ctl>> /\ pc' = "place" /\ ctl = "idle" /\ ~filled
    BY <1>4, <1>inv DEF ComputeSpace, Placement, shared
  <2> QED
    BY <2>2, <2>3, <1>inv, <1>kind DEF WritesInBounds, Placement
<1>5. CASE Place
  <2> DEFINE over == cur.free < Fixed[cur.kind] \/ cur.restart
  <2>1. /\ cur' = [cur EXCEPT !.over = over, !.at = tail, !.force = @ \/ over]
        /\ filled' = (filled \/ over)
    BY <1>5 DEF Place
  <2>2. /\ cur'.over = over /\ cur'.at = tail /\ cur'.free = cur.free /\ cur'.off = cur.off
        /\ cur'.kind = cur.kind /\ cur'.restart = cur.restart
    BY <2>1, <1>cur DEF CurType
  <2>3. UNCHANGED <<tail, mem, page, ctl>> /\ pc = "place" /\ pc' = "fill"
    BY <1>5 DEF Place
  <2>4. cur'.over <=> filled'
    BY <2>1, <2>2, <2>3, <1>inv, <1>bool, <1>field DEF Placement
  <2>5. ~cur'.over => ~cur'.restart /\ cur'.off <= cur'.free /\ cur'.at = tail'
    <3> SUFFICES ASSUME ~over PROVE ~cur.restart /\ cur.off <= cur.free
      BY <2>2, <2>3
    <3>1. ~cur.restart /\ ~(cur.free < Fixed[cur.kind])
      OBVIOUS
    <3>2. cur.off = Fixed[cur.kind]
      BY <3>1, <2>3, <1>inv DEF Placement
    <3> QED
      BY <3>1, <3>2, <1>kind, <1>num
  <2> HIDE DEF over
  <2> QED
    BY <2>2, <2>3, <2>4, <2>5, <1>inv DEF WritesInBounds, Placement
<1>6. CASE FillOk
  <2>1. PICK d \in Pushed(cur.kind, Room) :
          LET e == [id |-> Len(log) + 1, len |-> Add32(cur.off, d),
                    gap |-> Sub32(cur.off, Fixed[cur.kind]),
                    cut |-> d < FullData[cur.kind]]
          IN  /\ cur' = [cur EXCEPT !.len = e.len]
              /\ IF cur.over THEN page' = e /\ UNCHANGED mem
                             ELSE mem' = Put(mem, cur.at, e) /\ UNCHANGED page
    BY <1>6 DEF FillOk
  <2> DEFINE e == [id |-> Len(log) + 1, len |-> Add32(cur.off, d),
                   gap |-> Sub32(cur.off, Fixed[cur.kind]),
                   cut |-> d < FullData[cur.kind]]
             room == IF cur.over THEN PageSize ELSE cur.free
  <2>2. UNCHANGED <<tail, filled, ctl>> /\ pc = "fill" /\ pc' = "commit" /\ ctl = "idle"
    BY <1>6, <1>inv DEF FillOk, Placement
  <2>3. room \in Word /\ cur.off <= room
    BY <2>2, <1>inv, <1>field, SizeWords DEF Placement
  <2>4. Room = room - cur.off
    BY <2>3, <1>field, Word32 DEF Room
  <2>5. d \in Nat /\ d <= room - cur.off
    BY <1>6, <2>3, <2>4, <1>kind, <1>field, SizeWords DEF FillOk, Pushed
  <2>6. Add32(cur.off, d) = cur.off + d /\ cur.off + d <= room /\ cur.off + d \in Word
    BY <2>3, <2>5, <1>field, SizesAssumption DEF Word, Add32
  <2>7. cur'.len = cur.off + d /\ cur'.at = cur.at
    BY <2>1, <2>6, <1>cur DEF CurType
  <2>8. e \in Event /\ e.len = cur.off + d /\ e.id # 0
    <3>1. Len(log) \in Nat
      BY <1>type DEF TypeOK
    <3>2. Sub32(cur.off, Fixed[cur.kind]) \in Word
      BY <1>field, SizeWords, Word32
    <3> QED
      BY <2>6, <3>1, <3>2 DEF Event
  <2>9. CASE cur.over
    <3>1. page' = e /\ mem' = mem /\ filled
      BY <2>1, <2>2, <2>9, <1>inv DEF Placement
    <3> HIDE DEF e
    <3>2. page'.len <= PageSize /\ page'.id # 0
      BY <3>1, <2>6, <2>8, <2>9
    <3> QED
      BY <3>1, <3>2, <2>2, <1>inv DEF WritesInBounds, Placement
  <2>10. CASE ~cur.over
    <3>1. mem' = Put(mem, cur.at, e) /\ page' = page /\ ~filled
      BY <2>1, <2>2, <2>10, <1>inv, <1>bool DEF Placement
    <3> HIDE DEF e
    <3>2. cur.at \in Nat /\ cur.at = tail /\ room = BufferSize - tail
      BY <2>2, <2>10, <1>inv, <1>nat DEF Placement
    <3>3. cur.at + e.len <= BufferSize
      BY <3>2, <2>5, <2>6, <2>8, <1>nat, <1>num
    <3>4. \A o \in DOMAIN mem' : o + mem'[o].len <= BufferSize
      BY <3>1, <3>2, <3>3, <2>8, <1>mem, <1>inv, PutBounds DEF WritesInBounds
    <3> QED
      BY <3>1, <3>2, <3>3, <3>4, <2>2, <2>7, <2>8, <1>inv DEF WritesInBounds, Placement
  <2> QED
    BY <2>9, <2>10
<1>7. CASE FillFull
  <2>1. PICK a \in Partial[cur.kind] :
          a <= Room /\ cur' = [cur EXCEPT !.restart = TRUE, !.off = Add32(cur.off, a)]
    BY <1>7 DEF FillFull
  <2>2. UNCHANGED <<tail, mem, page, filled, ctl>> /\ pc = "fill" /\ pc' = "place" /\ ctl = "idle"
    BY <1>7, <1>inv DEF FillFull, shared, Placement
  <2>3. a \in Nat
    BY <1>field, SizeWords
  <2>4. cur.off + a <= PageSize
    <3>1. CASE cur.over
      <4>1. Room = PageSize - cur.off
        <5>1. cur.off <= PageSize
          BY <2>2, <1>inv DEF Placement
        <5>2. Room = Sub32(PageSize, cur.off)
          BY <3>1 DEF Room
        <5> QED
          BY <5>1, <5>2 DEF Sub32
      <4> QED
        BY <4>1, <2>1, <2>3, <1>nat, <1>field, SizeWords
    <3>2. CASE ~cur.over
      BY <3>2, <2>2, <1>inv, <1>field DEF Placement, Orderly
    <3> QED
      BY <3>1, <3>2
  <2>5. Add32(cur.off, a) = cur.off + a
    BY <2>3, <2>4, <1>num, SizesAssumption DEF Add32
  <2>6. /\ cur'.off = cur.off + a /\ cur'.restart = TRUE
        /\ cur'.kind = cur.kind /\ cur'.free = cur.free
    BY <2>1, <2>5, <1>cur DEF CurType
  <2> QED
    BY <2>2, <2>3, <2>4, <2>6, <1>inv, <1>kind, <1>num DEF WritesInBounds, Placement
<1>8. CASE FillFail
  BY <1>8, <1>inv DEF FillFail, Orderly, WritesInBounds, Placement
<1>9. CASE FillCorrupt
  BY <1>9, <1>inv DEF FillCorrupt, Orderly, WritesInBounds, Placement
<1>10. CASE Commit
  <2>1. UNCHANGED <<tail, mem, page, filled, ctl>> /\ pc = "commit" /\ ctl = "idle"
    BY <1>10, <1>inv DEF Commit, shared, Placement
  <2>2. CASE filled
    BY <1>10, <2>1, <2>2, <1>inv DEF Commit, WritesInBounds, Placement
  <2>3. CASE ~filled
    <3>1. cur'.at = tail /\ cur'.len = cur.len /\ pc' = "store"
      BY <1>10, <2>3, <1>cur DEF Commit, CurType
    <3> QED
      BY <2>1, <2>3, <3>1, <1>inv DEF WritesInBounds, Placement
  <2> QED
    BY <2>2, <2>3
<1>11. CASE StoreTail
  <2>1. ~filled /\ ctl = "idle" /\ cur.at + cur.len <= BufferSize
    BY <1>11, <1>inv DEF StoreTail, Placement
  <2>2. tail' = cur.at + cur.len
    BY <1>11, <2>1, <1>field, SizesAssumption, SizeWords DEF StoreTail, Add32
  <2> QED
    BY <1>11, <2>1, <2>2, <1>inv DEF StoreTail, WritesInBounds, Placement
<1>12. CASE LoadMonitor
  BY <1>12, <1>inv DEF LoadMonitor, shared, WritesInBounds, Placement
<1>13. CASE NoLoad
  BY <1>13, <1>inv DEF NoLoad, Leave, Release, shared, WritesInBounds, Placement
<1>14. CASE LoadFail
  BY <1>14, <1>inv DEF LoadFail, Leave, Release, shared, WritesInBounds, Placement
<1>15. CASE StartDrain
  BY <1>15, <1>inv DEF StartDrain, shared, WritesInBounds, Placement
<1>16. CASE SkipDrain
  BY <1>16, <1>inv DEF SkipDrain, shared, WritesInBounds, Placement
<1>17. CASE Consume
  BY <1>17, <1>inv DEF Consume, shared, WritesInBounds, Placement
<1>18. CASE EndDrain
  BY <1>18, <1>inv, <1>nat DEF EndDrain, WritesInBounds, Placement
<1>19. CASE Return
  BY <1>19, <1>inv DEF Return, Leave, Release, shared, WritesInBounds, Placement
<1>20. CASE Kill
  BY <1>20, <1>inv DEF Kill, Release, InMonitor, shared, WritesInBounds, Placement
<1>21. CASE ClearEvents
  BY <1>21, <1>inv DEF ClearEvents, Orderly, WritesInBounds, Placement
<1>22. CASE ClearTail
  BY <1>22, <1>inv, <1>nat DEF ClearTail, WritesInBounds, Placement
<1>23. CASE ClearFilled
  BY <1>23, <1>inv DEF ClearFilled, WritesInBounds, Placement
<1>24. CASE UNCHANGED vars
  BY <1>24, <1>inv DEF vars, shared, WritesInBounds, Placement
<1> QED
  BY <1>1, <1>2, <1>3, <1>4, <1>5, <1>6, <1>7, <1>8, <1>9, <1>10, <1>11, <1>12, <1>13, <1>14, <1>15, <1>16, <1>17, <1>18, <1>19, <1>20, <1>21, <1>22, <1>23, <1>24 DEF Next, Record, Monitor, Clear

(* The initial state satisfies the strengthened invariant: an overflow     *)
(* page never written holds no event.                                      *)
LEMMA BoundedInit == Init => Bounded
<1> SUFFICES ASSUME Init PROVE WritesInBounds /\ Placement
  BY InitType DEF Bounded
<1>1. page.id = 0
  BY DEF Init, Junk
<1> QED
  BY <1>1, SizesAssumption DEF Init, WritesInBounds, Placement

(* do_record_one_event stays inside the buffer and the overflow page, and  *)
(* tail never passes buffer_size, even if the monitor is never loaded or   *)
(* never drains: provided the fillers work, push little enough before they *)
(* find no room, and CLEAR_BUFFER does not cut into a record call.         *)
THEOREM InBounds ==
  ASSUME Orderly
  PROVE  Spec => []WritesInBounds
<1>1. Init => Bounded
  BY BoundedInit
<1>2. Bounded /\ [Next]_vars => Bounded'
  BY BoundedStep, Orderly
<1>3. Bounded => WritesInBounds
  BY DEF Bounded
<1> QED
  BY <1>1, <1>2, <1>3, PTL DEF Spec

------------------------------------------------------------------------------
(* The recorded events are numbered and none is empty.                     *)
Numbered == \A i \in 1 .. Len(log) : log[i].id = i /\ log[i].len > 0

(* What writing an event at offset o leaves behind: the event, no header   *)
(* inside its bytes, and the headers before it.                            *)
LEMMA PutAt ==
  ASSUME NEW m, DOMAIN m \subseteq Nat, m \in [DOMAIN m -> Event],
         NEW o \in Nat, NEW e \in Event
  PROVE  /\ o \in DOMAIN Put(m, o, e) /\ Put(m, o, e)[o] = e
         /\ \A x \in DOMAIN Put(m, o, e) : ~(o < x /\ x < o + e.len)
         /\ \A x \in DOMAIN m : x < o => x \in DOMAIN Put(m, o, e)
         /\ \A x \in DOMAIN Put(m, o, e) : x < o => x \in DOMAIN m /\ Put(m, o, e)[x] = m[x]
<1>1. e.len \in Nat
  BY SizeWords DEF Event
<1>2. DOMAIN Put(m, o, e) = (DOMAIN m \ (o .. (o + e.len - 1))) \cup {o}
  BY DEF Put
<1>3. Put(m, o, e)[o] = e
  BY DEF Put
<1>4. \A x \in DOMAIN Put(m, o, e) : x # o => x \in DOMAIN m /\ Put(m, o, e)[x] = m[x]
  BY DEF Put
<1> QED
  BY <1>1, <1>2, <1>3, <1>4

(* A filler that succeeds pushes what fits, so the event's length does not *)
(* wrap around; it is at least its header's.                               *)
LEMMA FillLen ==
  ASSUME TypeOK, Fixed[cur.kind] <= cur.off, MinData[cur.kind] <= Room,
         cur.over => cur.off <= PageSize, ~cur.over => cur.off <= cur.free,
         NEW d \in Pushed(cur.kind, Room)
  PROVE  d \in Nat /\ cur.off \in Nat /\ cur.off > 0 /\ Add32(cur.off, d) = cur.off + d
<1> DEFINE room == IF cur.over THEN PageSize ELSE cur.free
<1>1. cur.kind \in Kind /\ cur.off \in Word /\ cur.free \in Word
  BY DEF TypeOK, CurType
<1>2. /\ Fixed[cur.kind] \in Nat \ {0}
      /\ MinData[cur.kind] \in Nat /\ FullData[cur.kind] \in Nat
  BY <1>1, KindsAssumption, SizeWords
<1>3. room \in Word /\ cur.off <= room
  BY <1>1, SizeWords
<1>4. Room = room - cur.off
  BY <1>1, <1>3, Word32 DEF Room
<1>5. cur.off \in Nat /\ room \in Nat
  BY <1>1, <1>3, SizeWords
<1>6. d \in Nat /\ d <= room - cur.off
  BY <1>2, <1>3, <1>4, <1>5 DEF Pushed
<1> QED
  BY <1>2, <1>3, <1>5, <1>6, SizesAssumption DEF Word, Add32

(* What a successful filler leaves: the next event of the log, in the page *)
(* or in the buffer.                                                       *)
LEMMA FillEvent ==
  ASSUME TypeOK, TypeOK', FillOk, Fixed[cur.kind] <= cur.off,
         cur.over => cur.off <= PageSize, ~cur.over => cur.off <= cur.free
  PROVE  /\ Len(log) \in Nat /\ Len(log') = Len(log) + 1
         /\ \A i \in 1 .. Len(log) : log'[i] = log[i]
         /\ \E e \in Event : /\ e.id = Len(log) + 1 /\ e.len > 0 /\ log'[Len(log) + 1] = e
                             /\ cur' = [cur EXCEPT !.len = e.len]
                             /\ cur.over => page' = e /\ mem' = mem
                             /\ ~cur.over => mem' = Put(mem, cur.at, e) /\ page' = page
<1>1. PICK d \in Pushed(cur.kind, Room) :
        LET e == [id |-> Len(log) + 1, len |-> Add32(cur.off, d),
                  gap |-> Sub32(cur.off, Fixed[cur.kind]),
                  cut |-> d < FullData[cur.kind]]
        IN  /\ cur' = [cur EXCEPT !.len = e.len]
            /\ log' = Append(log, e)
            /\ IF cur.over THEN page' = e /\ UNCHANGED mem
                           ELSE mem' = Put(mem, cur.at, e) /\ UNCHANGED page
  BY DEF FillOk
<1> DEFINE e == [id |-> Len(log) + 1, len |-> Add32(cur.off, d),
                 gap |-> Sub32(cur.off, Fixed[cur.kind]),
                 cut |-> d < FullData[cur.kind]]
<1>2. e.id = Len(log) + 1 /\ e.len > 0
  <2>1. d \in Nat /\ cur.off \in Nat /\ cur.off > 0 /\ Add32(cur.off, d) = cur.off + d
    BY FillLen DEF FillOk
  <2> QED
    BY <2>1
<1>3. /\ cur' = [cur EXCEPT !.len = e.len] /\ log' = Append(log, e)
      /\ cur.over => page' = e /\ mem' = mem
      /\ ~cur.over => mem' = Put(mem, cur.at, e) /\ page' = page
  BY <1>1
<1> HIDE DEF e
<1>4. log \in Seq(Event) /\ log' \in Seq(Event) /\ Len(log) \in Nat
  BY DEF TypeOK
<1>5. /\ Len(log') = Len(log) + 1 /\ log'[Len(log) + 1] = e
      /\ \A i \in 1 .. Len(log) : log'[i] = log[i]
  BY <1>3, <1>4
<1>6. e \in Event
  BY <1>4, <1>5
<1> QED
  BY <1>2, <1>3, <1>4, <1>5, <1>6

------------------------------------------------------------------------------
(* The strengthening for ClearEmpties.  The headers behind tail belong to  *)
(* events recorded after the last reset that is done, and so does an event *)
(* in the overflow page; while the page is being moved tail already counts *)
(* it, and the event written at tail is the newest one.                    *)
Fresh ==
  /\ clean.done <= clean.begun /\ clean.begun <= Len(log)
  /\ ctl # "idle" => clean.begun = Len(log)
  /\ ctl = "filled" => tail = 0
  /\ pc = "move" => tail = page.len
  /\ pc # "move" => \A o \in DOMAIN mem : o < tail => mem[o].id > clean.done
  /\ filled /\ pc \notin {"place", "fill"} => page.id > clean.done
  /\ pc \in {"commit", "store"} /\ ~filled =>
       \A o \in DOMAIN mem : o < tail + cur.len => mem[o].id > clean.done

(* No step of the record path, of the monitor or of a reset lets an event  *)
(* recorded before the last reset reappear behind tail or in the page.     *)
LEMMA FreshStep == Orderly /\ Bounded /\ Bounded' /\ Fresh /\ [Next]_vars => Fresh'
<1> SUFFICES ASSUME Orderly, Bounded, Bounded', Fresh, [Next]_vars PROVE Fresh'
  OBVIOUS
<1>type. /\ TypeOK /\ TypeOK' /\ Placement
  BY DEF Bounded
<1>nat. /\ Len(log) \in Nat /\ tail \in Nat /\ page.len \in Nat /\ cur.len \in Nat
        /\ clean.done \in Nat /\ clean.begun \in Nat
  <2>1. tail \in Word /\ page.len \in Word /\ cur.len \in Word
    BY <1>type DEF TypeOK, CurType, Event
  <2>2. clean.done \in Nat /\ clean.begun \in Nat /\ Len(log) \in Nat
    BY <1>type DEF TypeOK
  <2> QED
    BY <2>1, <2>2, SizeWords
<1>mem. DOMAIN mem \subseteq Nat /\ mem \in [DOMAIN mem -> Event] /\ page \in Event
  BY <1>type DEF TypeOK
<1>0. CASE UNCHANGED vars
  BY <1>0 DEF Fresh, vars, shared
<1>1. CASE /\ UNCHANGED <<tail, mem, page, ctl, clean, log>>
           /\ pc # "move" /\ pc' \notin {"move", "commit", "store"}
           /\ filled' /\ pc' \notin {"place", "fill"} => filled /\ pc \notin {"place", "fill"}
  BY <1>1 DEF Fresh
<1>2. ASSUME NEW k \in Kind, NEW c \in Call, SyscallProbe(k, c) PROVE Fresh'
  BY <1>1, <1>2 DEF SyscallProbe, shared
<1>3. CASE CheckOverflow
  <2>1. CASE filled
    <3>1. pc' = "move" /\ tail' = page.len /\ pc = "check" /\ ctl = "idle"
      BY <1>3, <1>type, <2>1 DEF CheckOverflow, Placement
    <3> QED
      BY <1>3, <2>1, <3>1 DEF CheckOverflow, Fresh
  <2>2. CASE ~filled
    BY <1>1, <1>3, <2>2 DEF CheckOverflow
  <2> QED
    BY <2>1, <2>2
<1>4. CASE MoveOverflow
  <2>1. /\ pc = "move" /\ pc' = "space" /\ filled /\ ~filled' /\ ctl = "idle"
        /\ tail = page.len /\ page.id > clean.done
        /\ UNCHANGED <<tail, page, ctl, clean, log>>
        /\ mem' = IF tail > 0 THEN Put(mem, 0, page) ELSE mem
    BY <1>4, <1>type DEF MoveOverflow, Placement, Fresh
  <2>2. ASSUME NEW o \in DOMAIN mem', o < tail' PROVE mem'[o].id > clean'.done
    <3>1. tail > 0 /\ mem' = Put(mem, 0, page) /\ o \in Nat
      <4>1. DOMAIN mem' \subseteq Nat
        BY <1>type DEF TypeOK
      <4> QED
        BY <1>nat, <2>1, <2>2, <4>1
    <3>2. mem'[0] = page /\ ~(0 < o /\ o < 0 + page.len)
      <4>1. /\ Put(mem, 0, page)[0] = page
            /\ \A x \in DOMAIN Put(mem, 0, page) : ~(0 < x /\ x < 0 + page.len)
        BY <1>mem, PutAt
      <4> QED
        BY <2>2, <3>1, <4>1
    <3> QED
      BY <1>nat, <2>1, <2>2, <3>1, <3>2
  <2> QED
    BY <2>1, <2>2 DEF Fresh
<1>5. CASE ComputeSpace \/ Place
  BY <1>1, <1>5 DEF ComputeSpace, Place, shared
<1>6. CASE FillOk
  <2>1. /\ pc = "fill" /\ pc' = "commit" /\ ctl = "idle"
        /\ UNCHANGED <<tail, filled, ctl, clean>>
    BY <1>6, <1>type DEF FillOk, Placement
  <2>2. /\ Fixed[cur.kind] <= cur.off
        /\ cur.over => cur.off <= PageSize
        /\ ~cur.over => cur.off <= cur.free /\ cur.at = tail
        /\ cur.over <=> filled
    BY <1>type, <2>1 DEF Placement
  <2>3. /\ Len(log') = Len(log) + 1
        /\ \E e \in Event : /\ e.id = Len(log) + 1
                            /\ cur' = [cur EXCEPT !.len = e.len]
                            /\ cur.over => page' = e /\ mem' = mem
                            /\ ~cur.over => mem' = Put(mem, cur.at, e) /\ page' = page
    BY <1>6, <1>type, <2>2, FillEvent, Zenon
  <2>4. PICK e \in Event : /\ e.id = Len(log) + 1
                           /\ cur' = [cur EXCEPT !.len = e.len]
                           /\ cur.over => page' = e /\ mem' = mem
                           /\ ~cur.over => mem' = Put(mem, cur.at, e) /\ page' = page
    BY <2>3
  <2>5. cur'.len = e.len /\ e.id > clean.done
    <3>1. cur'.len = e.len
      BY <1>type, <2>4 DEF TypeOK, CurType
    <3>2. clean.done <= Len(log)
      BY <1>nat DEF Fresh
    <3> QED
      BY <1>nat, <2>4, <3>1, <3>2
  <2>6. CASE cur.over
    BY <1>nat, <2>1, <2>2, <2>3, <2>4, <2>5, <2>6 DEF Fresh
  <2>7. CASE ~cur.over
    <3>1. /\ mem'[tail] = e
          /\ \A x \in DOMAIN mem' : ~(tail < x /\ x < tail + e.len)
          /\ \A x \in DOMAIN mem' : x < tail => x \in DOMAIN mem /\ mem'[x] = mem[x]
      <4>1. mem' = Put(mem, tail, e)
        BY <2>2, <2>4, <2>7
      <4> QED
        BY <1>mem, <1>nat, <2>4, <4>1, PutAt
    <3>2. \A x \in DOMAIN mem' : x < tail => mem'[x].id > clean.done
      BY <2>1, <3>1 DEF Fresh
    <3>3. DOMAIN mem' \subseteq Nat
      BY <1>type DEF TypeOK
    <3>4. \A x \in DOMAIN mem' : x < tail + e.len => mem'[x].id > clean.done
      BY <1>nat, <2>5, <3>1, <3>2, <3>3
    <3> QED
      BY <1>nat, <2>1, <2>2, <2>3, <2>5, <2>7, <3>2, <3>4 DEF Fresh
  <2> QED
    BY <2>6, <2>7
<1>7. CASE FillFull
  BY <1>1, <1>7 DEF FillFull, shared
<1>8. CASE FillFail \/ FillCorrupt
  BY <1>8 DEF FillFail, FillCorrupt, Orderly
<1>9. CASE Commit
  <2>1. filled => Fresh'
    BY <1>1, <1>9 DEF Commit, shared
  <2>2. ASSUME ~filled PROVE Fresh'
    <3>1. /\ pc = "commit" /\ pc' = "store" /\ cur' = [cur EXCEPT !.at = tail]
          /\ UNCHANGED <<tail, mem, filled, page, ctl, clean, log>>
      BY <1>9, <2>2 DEF Commit, shared
    <3>2. cur'.len = cur.len
      BY <1>type, <3>1 DEF TypeOK, CurType
    <3> QED
      BY <2>2, <3>1, <3>2 DEF Fresh
  <2> QED
    BY <2>1, <2>2 DEF Commit
<1>10. CASE StoreTail
  <2>1. /\ pc = "store" /\ pc' = "load" /\ ~filled /\ ctl = "idle"
        /\ cur.at = tail /\ cur.at + cur.len <= BufferSize /\ tail' = Add32(cur.at, cur.len)
        /\ UNCHANGED <<mem, filled, page, ctl, clean, log>>
    BY <1>10, <1>type DEF StoreTail, Placement
  <2>2. tail' = tail + cur.len
    BY <1>nat, <2>1, SizesAssumption DEF Add32
  <2> QED
    BY <2>1, <2>2 DEF Fresh
<1>11. CASE LoadMonitor \/ NoLoad \/ LoadFail \/ StartDrain \/ SkipDrain \/ Consume \/ Return \/ Kill
  BY <1>1, <1>11 DEF LoadMonitor, NoLoad, LoadFail, StartDrain, SkipDrain, Consume, Return,
                     Kill, Leave, Release, shared, InMonitor
<1>12. CASE EndDrain
  <2>1. /\ pc = "drain" /\ pc' = "return" /\ tail' = 0 /\ ctl = "idle"
        /\ UNCHANGED <<mem, filled, page, ctl, clean, log>>
    BY <1>12, <1>type DEF EndDrain, Placement
  <2> QED
    BY <1>nat, <1>mem, <2>1 DEF Fresh
<1>13. CASE ClearEvents
  <2>1. /\ pc = "user" /\ ctl' = "tail" /\ UNCHANGED <<tail, mem, filled, page, pc, log>>
        /\ clean'.begun = Len(log) /\ clean'.done = clean.done
    BY <1>13, <1>type DEF ClearEvents, Orderly, TypeOK
  <2> QED
    BY <1>nat, <2>1 DEF Fresh
<1>14. CASE ClearTail
  <2>1. /\ pc \in {"user", "exited"} /\ tail' = 0 /\ ctl = "tail" /\ ctl' = "filled"
        /\ UNCHANGED <<mem, filled, page, pc, clean, log>>
    BY <1>14, <1>type DEF ClearTail, Placement
  <2> QED
    BY <1>nat, <1>mem, <2>1 DEF Fresh
<1>15. CASE ClearFilled
  <2>1. /\ pc \in {"user", "exited"} /\ ctl = "filled" /\ ctl' = "idle" /\ ~filled'
        /\ UNCHANGED <<tail, mem, page, pc, log>>
        /\ clean'.begun = clean.begun /\ clean'.done = clean.begun
    BY <1>15, <1>type DEF ClearFilled, Placement, TypeOK
  <2> QED
    BY <1>nat, <1>mem, <2>1 DEF Fresh
<1> QED
  BY <1>0, <1>2, <1>3, <1>4, <1>5, <1>6, <1>7, <1>8, <1>9, <1>10, <1>11, <1>12, <1>13,
     <1>14, <1>15 DEF Next, Record, Monitor, Clear

(* ClearEmpties for every buffer, page and kinds of event whose restarted  *)
(* attempts fit a page: a CLEAR_BUFFER ioctl that does not race with the   *)
(* record path leaves nothing of what was recorded before it, though the   *)
(* monitor may fail to load or to run and the thread may be killed.        *)
THEOREM ResetsEmpty ==
  ASSUME Orderly
  PROVE  Spec => []ClearEmpties
<1>1. Init => Bounded /\ Fresh
  <2>1. Init => Fresh
    BY DEF Init, Fresh, Junk
  <2> QED
    BY <2>1, BoundedInit
<1>2. Bounded /\ Fresh /\ [Next]_vars => (Bounded /\ Fresh)'
  BY BoundedStep, FreshStep
<1>3. Bounded /\ Fresh => ClearEmpties
  BY DEF Fresh, ClearEmpties
<1> QED
  BY <1>1, <1>2, <1>3, PTL DEF Spec

------------------------------------------------------------------------------
(* No reset overlaps a system call or a run of the monitor, and what an    *)
(* attempt in the buffer pushed before it was abandoned fits the page.     *)
(* Fillers, loads and the monitor may fail, and the thread may be killed.  *)
Calm ==
  /\ Clearing # "racing"
  /\ \A k \in Kind : \A a \in Partial[k] : Fixed[k] + a <= PageSize

(* What holds of the record path whatever fails in it: the write position  *)
(* is tail when it is used and the offset fits where the event is going.   *)
Steady ==
  /\ ctl # "idle" => pc \in {"user", "exited"}
  /\ pc = "move" => filled /\ tail = page.len
  /\ pc = "space" => ~filled
  /\ pc \in {"place", "fill"} => /\ Fixed[cur.kind] <= cur.off /\ cur.off <= PageSize
                                 /\ ~cur.restart => cur.off = Fixed[cur.kind]
  /\ pc = "place" => (filled => cur.restart)
  /\ pc = "fill" => /\ ~cur.over => ~cur.restart /\ cur.off <= cur.free /\ cur.at = tail
                    /\ cur.over <=> filled
  /\ pc = "store" => ~filled /\ cur.at = tail

(* An event found behind a header, in the page or with the monitor is one  *)
(* of the log, unchanged, or no recorded event at all.                     *)
Authentic(e) == e.id # 0 => e.id <= Len(log) /\ e = log[e.id]
Genuine ==
  /\ Numbered
  /\ \A o \in DOMAIN mem : Authentic(mem[o])
  /\ Authentic(page)
  /\ \A j \in 1 .. Len(out) : Authentic(out[j])

(* The newest event is still on its way: being committed, or in the page.  *)
Held ==
  \/ pc \in {"commit", "store"}
  \/ filled /\ pc \notin {"place", "fill"} /\ page.id # 0

(* The number of the last event that may be behind tail or handed over.    *)
Bound == IF Held THEN Len(log) - 1 ELSE Len(log)

(* The event in the page and the one being committed are the newest ones.  *)
Newest ==
  /\ filled /\ pc \notin {"place", "fill"} /\ page.id # 0 => page.id = Len(log)
  /\ pc \in {"commit", "store"} => Len(log) > 0
  /\ pc \in {"commit", "store"} /\ ~filled =>
       /\ tail \in DOMAIN mem => mem[tail].id = Len(log)
       /\ \A x \in DOMAIN mem : ~(tail < x /\ x < tail + cur.len)

(* The events behind tail ascend, and those the monitor has not passed are *)
(* later than all it was handed.                                           *)
Ascending ==
  pc # "move" =>
    \A o \in DOMAIN mem : o < tail /\ mem[o].id # 0 =>
      /\ mem[o].id <= Bound
      /\ \A x \in DOMAIN mem : o < x /\ x < tail /\ mem[x].id # 0 => mem[o].id < mem[x].id
      /\ ptr <= o => \A j \in 1 .. Len(out) : out[j].id < mem[o].id

Scanning == (pc \notin {"drain", "exited"} => ptr = 0) /\ (pc = "drain" => end = tail)

Passed ==
  /\ \A j \in 1 .. Len(out) : out[j].id <= Bound
  /\ \A j \in 1 .. Len(out) : out[j].id # 0 => \A i \in 1 .. j - 1 : out[i].id < out[j].id

Sorted == Newest /\ Ascending /\ Scanning /\ Passed

(* Every step keeps the record path's position and offset usable.          *)
LEMMA SteadyStep == Calm /\ TypeOK /\ TypeOK' /\ Steady /\ [Next]_vars => Steady'
<1> SUFFICES ASSUME Calm, TypeOK, TypeOK', Steady, [Next]_vars PROVE Steady'
  OBVIOUS
<1>cur. /\ cur \in CurType /\ cur.kind \in Kind /\ cur.off \in Nat /\ cur.free \in Nat
        /\ tail \in Nat /\ cur.over \in BOOLEAN /\ cur.restart \in BOOLEAN
  <2>1. /\ cur \in CurType /\ cur.kind \in Kind /\ cur.off \in Word /\ cur.free \in Word
        /\ tail \in Word /\ cur.over \in BOOLEAN /\ cur.restart \in BOOLEAN
    BY DEF TypeOK, CurType
  <2> QED
    BY <2>1, SizeWords
<1>fix. Fixed[cur.kind] \in Nat /\ Fixed[cur.kind] <= PageSize /\ PageSize \in Nat
  BY <1>cur, KindsAssumption, SizesAssumption
<1>0. CASE UNCHANGED vars
  BY <1>0 DEF Steady, vars, shared
<1>1. CASE ctl' = ctl /\ ctl = "idle" /\ pc' \notin {"move", "space", "place", "fill", "store"}
  BY <1>1 DEF Steady
<1>idle. pc \notin {"user", "exited"} => ctl = "idle"
  BY DEF Steady, TypeOK
<1>2. ASSUME NEW k \in Kind, NEW c \in Call, SyscallProbe(k, c) PROVE Steady'
  BY <1>1, <1>2 DEF SyscallProbe, Calm
<1>3. CASE CheckOverflow
  BY <1>3, <1>idle DEF CheckOverflow, Steady
<1>4. CASE MoveOverflow
  BY <1>4, <1>idle DEF MoveOverflow, Steady
<1>5. CASE ComputeSpace
  <2>1. /\ pc = "space" /\ pc' = "place" /\ UNCHANGED <<tail, filled, page, ctl>>
        /\ cur'.off = Fixed[cur.kind] /\ cur'.kind = cur.kind
    BY <1>5, <1>cur DEF ComputeSpace, shared, CurType
  <2> QED
    BY <2>1, <1>idle, <1>fix DEF Steady
<1>6. CASE Place
  <2> DEFINE over == cur.free < Fixed[cur.kind] \/ cur.restart
  <2>1. /\ pc = "place" /\ pc' = "fill" /\ UNCHANGED <<tail, page, ctl>>
        /\ filled' = (filled \/ over) /\ cur'.over = over /\ cur'.at = tail
        /\ cur'.off = cur.off /\ cur'.kind = cur.kind /\ cur'.restart = cur.restart
        /\ cur'.free = cur.free
    BY <1>6, <1>cur DEF Place, CurType
  <2>2. (filled => cur.restart) /\ (~cur.restart => cur.off = Fixed[cur.kind])
    BY <2>1 DEF Steady
  <2>3. cur'.over <=> filled'
    BY <2>1, <2>2
  <2>4. ~cur'.over => ~cur.restart /\ cur.off <= cur.free
    <3>1. ~cur'.over => ~(cur.free < Fixed[cur.kind]) /\ ~cur.restart
      BY <2>1
    <3>2. ~(cur.free < Fixed[cur.kind]) /\ cur.off = Fixed[cur.kind] => cur.off <= cur.free
      BY <1>cur, <1>fix
    <3> QED
      BY <2>2, <3>1, <3>2
  <2> QED
    BY <2>1, <2>2, <2>3, <2>4, <1>idle DEF Steady
<1>7. CASE FillFull
  <2>1. PICK a \in Partial[cur.kind] : a <= Room /\ cur' = [cur EXCEPT !.restart = TRUE, !.off = Add32(@, a)]
    BY <1>7 DEF FillFull
  <2>2. /\ pc = "fill" /\ pc' = "place" /\ UNCHANGED <<tail, filled, page, ctl>>
        /\ cur'.restart = TRUE /\ cur'.off = Add32(cur.off, a) /\ cur'.kind = cur.kind
    BY <1>7, <2>1, <1>cur DEF FillFull, shared, CurType
  <2>3. a \in Nat /\ Fixed[cur.kind] + a <= PageSize
    BY <1>cur, KindsAssumption, SizeWords DEF Calm
  <2>4. cur.off + a <= PageSize
    <3>1. CASE cur.over
      <4>1. Room = PageSize - cur.off
        BY <2>2, <3>1, <1>cur, <1>fix DEF Room, Sub32, Steady
      <4> QED
        BY <2>1, <2>3, <4>1, <1>cur, <1>fix
    <3>2. CASE ~cur.over
      <4>1. cur.off = Fixed[cur.kind]
        BY <2>2, <3>2 DEF Steady
      <4> QED
        BY <2>3, <4>1
    <3> QED
      BY <3>1, <3>2
  <2>5. cur'.off = cur.off + a
    BY <2>2, <2>3, <2>4, <1>cur, SizesAssumption DEF Add32
  <2>6. Fixed[cur.kind] <= cur.off
    BY <2>2 DEF Steady
  <2> QED
    <3>1. Fixed[cur'.kind] <= cur'.off /\ cur'.off <= PageSize
      BY <2>2, <2>3, <2>4, <2>5, <2>6, <1>cur, <1>fix
    <3> QED
      BY <2>2, <3>1, <1>idle DEF Steady
<1>8. CASE Commit
  <2>1. filled => Steady'
    BY <1>8, <1>1, <1>idle DEF Commit
  <2>2. ~filled => cur'.at = tail /\ pc' = "store" /\ tail' = tail /\ ~filled' /\ ctl' = ctl /\ pc = "commit"
    BY <1>8, <1>cur DEF Commit, CurType, shared
  <2> QED
    BY <2>1, <2>2, <1>idle DEF Steady
<1>9. CASE FillOk \/ FillFail \/ FillCorrupt \/ StoreTail \/ LoadMonitor
  BY <1>9, <1>1, <1>idle DEF FillOk, FillFail, FillCorrupt, StoreTail, LoadMonitor
<1>10. CASE NoLoad \/ LoadFail \/ StartDrain \/ SkipDrain \/ EndDrain \/ Return
  BY <1>10, <1>1, <1>idle DEF NoLoad, LoadFail, StartDrain, SkipDrain, EndDrain, Return, Leave, Release
<1>11. CASE Consume
  BY <1>11, <1>1, <1>idle DEF Consume
<1>12. CASE Kill
  BY <1>12 DEF Kill, Release, Steady
<1>13. CASE Clear
  BY <1>13 DEF Clear, ClearEvents, ClearTail, ClearFilled, Steady, Calm
<1> QED
  BY <1>0, <1>2, <1>3, <1>4, <1>5, <1>6, <1>7, <1>8, <1>9, <1>10, <1>11, <1>12, <1>13
  DEF Next, Record, Monitor

(* Recording, moving, draining and resetting never alter a recorded event. *)
LEMMA GenuineStep ==
  TypeOK /\ TypeOK' /\ Steady /\ Genuine /\ [Next]_vars => Genuine'
<1> SUFFICES ASSUME TypeOK, TypeOK', Steady, Genuine, [Next]_vars PROVE Genuine'
  OBVIOUS
<1>type. /\ DOMAIN mem \subseteq Nat /\ mem \in [DOMAIN mem -> Event] /\ page \in Event
         /\ log \in Seq(Event) /\ out \in Seq(Event)
  BY DEF TypeOK
<1>len. Len(log) \in Nat /\ Len(out) \in Nat
  BY <1>type
<1>junk. \A n : Authentic(Junk(n)) /\ Authentic(Junk(n))'
  BY DEF Authentic, Junk
<1>1. CASE UNCHANGED <<mem, page, log, out>>
  BY <1>1 DEF Genuine, Numbered, Authentic
<1>2. CASE MoveOverflow
  <2>1. mem' = Put(mem, 0, page) \/ mem' = mem
    BY <1>2 DEF MoveOverflow
  <2>2. \A o \in DOMAIN mem' : mem'[o] = page \/ (o \in DOMAIN mem /\ mem'[o] = mem[o])
    BY <2>1 DEF Put
  <2>3. page' = page /\ log' = log /\ out' = out
    BY <1>2 DEF MoveOverflow
  <2> QED
    BY <2>2, <2>3 DEF Genuine, Numbered, Authentic
<1>3. CASE FillOk
  <2>1. /\ Fixed[cur.kind] <= cur.off
        /\ cur.over => cur.off <= PageSize
        /\ ~cur.over => cur.off <= cur.free
    BY <1>3 DEF FillOk, Steady
  <2>2. /\ Len(log') = Len(log) + 1
        /\ \A i \in 1 .. Len(log) : log'[i] = log[i]
    BY <1>3, <2>1, FillEvent
  <2>3. PICK e \in Event : /\ e.id = Len(log) + 1 /\ e.len > 0 /\ log'[Len(log) + 1] = e
                           /\ cur.over => page' = e /\ mem' = mem
                           /\ ~cur.over => mem' = Put(mem, cur.at, e) /\ page' = page
    BY <1>3, <2>1, FillEvent
  <2>4. ASSUME NEW x \in Event, Authentic(x) PROVE Authentic(x)'
    <3>1. x.id \in Nat
      BY DEF Event
    <3> QED
      BY <1>type, <1>len, <2>2, <2>4, <3>1 DEF Authentic
  <2>5. Authentic(e)'
    BY <1>type, <1>len, <2>2, <2>3 DEF Authentic
  <2>6. page' = page \/ page' = e
    BY <2>3
  <2>7. \A o \in DOMAIN mem' : mem'[o] = e \/ (o \in DOMAIN mem /\ mem'[o] = mem[o])
    BY <2>3 DEF Put
  <2>8. (\A o \in DOMAIN mem : Authentic(mem[o]))'
    <3>1. ASSUME NEW o \in DOMAIN mem', NEW x, x = mem'[o] PROVE Authentic(x)'
      <4>1. CASE x = e
        BY <2>5, <4>1
      <4>2. CASE o \in DOMAIN mem /\ x = mem[o]
        <5>1. x \in Event /\ Authentic(x)
          BY <1>type, <4>2 DEF Genuine
        <5> QED
          BY <2>4, <5>1
      <4> QED
        BY <2>7, <3>1, <4>1, <4>2
    <3> QED
      BY <3>1 DEF Authentic
  <2>9. Authentic(page)'
    BY <1>type, <1>len, <2>4, <2>5, <2>6 DEF Genuine
  <2>10. out' = out
    BY <1>3 DEF FillOk
  <2>11. (\A j \in 1 .. Len(out) : Authentic(out[j]))'
    <3>1. ASSUME NEW j \in 1 .. Len(out), NEW x, x = out[j] PROVE Authentic(x)'
      <4>1. x \in Event /\ Authentic(x)
        BY <1>type, <3>1 DEF Genuine
      <4> QED
        BY <2>4, <4>1
    <3> QED
      BY <2>10, <3>1 DEF Authentic
  <2>12. Numbered'
    BY <1>type, <1>len, <2>2, <2>3 DEF Genuine, Numbered
  <2> QED
    BY <2>8, <2>9, <2>11, <2>12 DEF Genuine
<1>4. CASE FillFail \/ FillCorrupt
  <2>1. /\ UNCHANGED <<mem, log, out>>
        /\ page' = page \/ page' = Junk(page.len)
    BY <1>4 DEF FillFail, FillCorrupt
  <2>2. Authentic(page)'
    BY <1>junk, <2>1 DEF Genuine, Authentic
  <2> QED
    BY <2>1, <2>2 DEF Genuine, Numbered, Authentic
<1>5. CASE Consume
  <2>1. PICK e : /\ e \in IF ptr \in DOMAIN mem THEN {mem[ptr]} ELSE {Junk(g) : g \in Garbage}
                 /\ out' = Append(out, e)
    BY <1>5 DEF Consume
  <2>2. UNCHANGED <<mem, page, log>>
    BY <1>5 DEF Consume, shared
  <2>3. Authentic(e)
    BY <1>junk, <2>1 DEF Genuine
  <2>4. Len(out') = Len(out) + 1 /\ \A j \in 1 .. Len(out') : out'[j] = e \/ (j \in 1 .. Len(out) /\ out'[j] = out[j])
    <3>1. e \in Event
      BY <1>type, <2>1, KindsAssumption, JunkType
    <3> QED
      BY <1>type, <1>len, <2>1, <3>1
  <2>5. \A j \in 1 .. Len(out') : Authentic(out'[j])
    BY <2>3, <2>4 DEF Genuine
  <2> QED
    BY <2>2, <2>5 DEF Genuine, Numbered, Authentic
<1> QED
  BY <1>1, <1>2, <1>3, <1>4, <1>5
  DEF Next, Record, Monitor, Clear, SyscallProbe, CheckOverflow, ComputeSpace, Place, FillFull,
      Commit, StoreTail, LoadMonitor, NoLoad, LoadFail, StartDrain, SkipDrain, EndDrain, Return,
      Kill, ClearEvents, ClearTail, ClearFilled, vars, shared

(* Every step keeps what is behind tail and what was handed over in order. *)
LEMMA SortedStep ==
  Calm /\ TypeOK /\ TypeOK' /\ Steady /\ Genuine /\ Sorted /\ [Next]_vars => Sorted'
<1> SUFFICES ASSUME Calm, TypeOK, TypeOK', Steady, Genuine, Sorted, [Next]_vars PROVE Sorted'
  OBVIOUS
<1>mem. DOMAIN mem \subseteq Nat /\ mem \in [DOMAIN mem -> Event] /\ page \in Event /\ DOMAIN mem' \subseteq Nat
  BY DEF TypeOK
<1>seq. log \in Seq(Event) /\ out \in Seq(Event)
  BY DEF TypeOK
<1>len. Len(log) \in Nat /\ Len(out) \in Nat
  BY <1>seq
<1>nat. tail \in Nat /\ page.len \in Nat /\ page.id \in Nat /\ cur.len \in Nat /\ ptr \in Nat
  <2>1. tail \in Word /\ page.len \in Word /\ page.id \in Nat /\ cur.len \in Word /\ ptr \in Nat
    BY DEF TypeOK, CurType, Event
  <2> QED
    BY <2>1, SizeWords
<1>ids. /\ \A o \in DOMAIN mem : mem[o].id \in Nat /\ mem[o].len \in Nat
        /\ \A j \in 1 .. Len(out) : out[j].id \in Nat
  <2>1. \A e \in Event : e.id \in Nat /\ e.len \in Nat
    BY SizeWords DEF Event
  <2> QED
    BY <1>mem, <1>seq, <2>1
<1>bnd. Bound \in Nat /\ Bound <= Len(log) /\ (Held => Bound = Len(log) - 1) /\ (~Held => Bound = Len(log))
  BY <1>len, <1>nat DEF Bound, Held, Sorted, Newest
<1>old. Newest /\ Ascending /\ Scanning /\ Passed
  BY DEF Sorted
<1>idle. pc \notin {"user", "exited"} => ctl = "idle"
  BY DEF Steady, TypeOK
<1>0. CASE UNCHANGED vars
  BY <1>0 DEF vars, shared, Sorted, Newest, Ascending, Scanning, Passed, Bound, Held
(* A step that writes no event, moves none and at most empties the buffer. *)
<1>1. ASSUME UNCHANGED <<mem, log, out>>, tail' = tail \/ tail' = 0,
             pc \notin {"move"}, pc' \notin {"move", "commit", "store"},
             filled' /\ pc' \notin {"place", "fill"} /\ page'.id # 0 =>
               filled /\ pc \notin {"place", "fill"} /\ page' = page,
             ptr' = ptr \/ tail' = 0, Scanning'
      PROVE  Sorted'
  <2>1. Held' => Held
    BY <1>1 DEF Held
  <2>2. Bound' \in Nat /\ Bound <= Bound'
    BY <1>1, <1>bnd, <1>len, <2>1 DEF Bound
  <2>3. Newest'
    BY <1>1, <1>old DEF Newest
  <2>4. Passed'
    BY <1>1, <1>old, <1>bnd, <1>ids, <2>2 DEF Passed
  <2>5. CASE tail' = 0
    BY <1>1, <1>mem, <2>3, <2>4, <2>5 DEF Sorted, Ascending
  <2>6. CASE tail' = tail /\ ptr' = ptr
    <3>1. Ascending'
      BY <1>1, <1>old, <1>bnd, <1>ids, <2>2, <2>6 DEF Ascending
    <3> QED
      BY <1>1, <2>3, <2>4, <3>1 DEF Sorted
  <2> QED
    BY <1>1, <2>5, <2>6
<1>2. ASSUME NEW k \in Kind, NEW c \in Call, SyscallProbe(k, c) PROVE Sorted'
  BY <1>1, <1>2, <1>old DEF SyscallProbe, shared, Scanning
<1>3. CASE CheckOverflow
  <2>1. ~filled => Sorted'
    BY <1>1, <1>3, <1>old DEF CheckOverflow, Scanning
  <2>2. ASSUME filled PROVE Sorted'
    <3>1. /\ pc = "check" /\ pc' = "move" /\ filled /\ filled'
          /\ UNCHANGED <<mem, page, ptr, log, out>>
      BY <1>3, <2>2 DEF CheckOverflow
    <3>2. Bound' = Bound
      BY <3>1 DEF Bound, Held
    <3> QED
      BY <1>old, <3>1, <3>2 DEF Sorted, Newest, Ascending, Scanning, Passed
  <2> QED
    BY <2>1, <2>2
<1>4. CASE MoveOverflow
  <2>1. /\ pc = "move" /\ pc' = "space" /\ filled /\ ~filled' /\ tail = page.len
        /\ UNCHANGED <<tail, page, ptr, log, out>> /\ ptr = 0
        /\ mem' = IF tail > 0 THEN Put(mem, 0, page) ELSE mem
    BY <1>4, <1>old DEF MoveOverflow, Steady, Scanning
  <2>2. Bound' = Len(log)
    BY <2>1 DEF Bound, Held
  <2>3. page.id # 0 => page.id = Len(log) /\ Bound = Len(log) - 1
    BY <1>bnd, <1>old, <2>1 DEF Newest, Held
  <2>4. ASSUME NEW o \in DOMAIN mem', o < tail PROVE o = 0 /\ mem'[o] = page
    <3>1. tail > 0 /\ mem' = Put(mem, 0, page) /\ o \in Nat
      BY <1>mem, <1>nat, <2>1, <2>4
    <3>2. /\ Put(mem, 0, page)[0] = page
          /\ \A x \in DOMAIN Put(mem, 0, page) : ~(0 < x /\ x < 0 + page.len)
      BY <1>mem, PutAt
    <3> QED
      BY <1>nat, <2>1, <2>4, <3>1, <3>2
  <2>5. Passed'
    BY <1>old, <1>bnd, <1>len, <1>ids, <2>1, <2>2 DEF Passed
  <2>6. Ascending'
    <3>1. page.id # 0 => \A j \in 1 .. Len(out) : out[j].id < page.id
      BY <1>old, <1>len, <1>ids, <2>3 DEF Passed
    <3> QED
      BY <1>mem, <1>len, <1>nat, <2>1, <2>2, <2>3, <2>4, <3>1 DEF Ascending
  <2>7. Newest' /\ Scanning'
    BY <2>1 DEF Newest, Scanning
  <2> QED
    BY <2>5, <2>6, <2>7 DEF Sorted
<1>5. CASE ComputeSpace
  BY <1>1, <1>5, <1>old DEF ComputeSpace, shared, Scanning, Steady
<1>6. CASE Place \/ FillFull
  BY <1>1, <1>6, <1>old DEF Place, FillFull, shared, Scanning
<1>7. CASE FillOk
  <2>1. /\ pc = "fill" /\ pc' = "commit" /\ UNCHANGED <<tail, filled, ptr, end, out>>
    BY <1>7 DEF FillOk
  <2>2. /\ Fixed[cur.kind] <= cur.off
        /\ cur.over => cur.off <= PageSize
        /\ ~cur.over => cur.off <= cur.free /\ cur.at = tail
        /\ cur.over <=> filled
    BY <2>1 DEF Steady
  <2>3. Len(log') = Len(log) + 1
    BY <1>7, <2>2, FillEvent
  <2>4. PICK e \in Event : /\ e.id = Len(log) + 1
                           /\ cur' = [cur EXCEPT !.len = e.len]
                           /\ cur.over => page' = e /\ mem' = mem
                           /\ ~cur.over => mem' = Put(mem, cur.at, e) /\ page' = page
    BY <1>7, <2>2, FillEvent
  <2>5. Bound = Len(log) /\ Bound' = Len(log)
    BY <1>len, <2>1, <2>3 DEF Bound, Held
  <2>6. Passed' /\ Scanning'
    BY <1>old, <2>1, <2>5 DEF Passed, Scanning
  <2>7. CASE cur.over
    <3>1. Newest'
      BY <1>len, <2>1, <2>2, <2>3, <2>4, <2>7 DEF Newest
    <3>2. Ascending'
      BY <1>old, <2>1, <2>4, <2>5, <2>7 DEF Ascending
    <3> QED
      BY <2>6, <3>1, <3>2 DEF Sorted
  <2>8. CASE ~cur.over
    <3>1. mem' = Put(mem, tail, e) /\ cur'.len = e.len
      BY <2>2, <2>4, <2>8 DEF TypeOK, CurType
    <3>2. /\ mem'[tail] = e
          /\ \A x \in DOMAIN mem' : ~(tail < x /\ x < tail + e.len)
          /\ \A x \in DOMAIN mem' : x < tail => x \in DOMAIN mem /\ mem'[x] = mem[x]
      BY <1>mem, <1>nat, <2>4, <3>1, PutAt
    <3>3. Newest'
      BY <1>len, <2>1, <2>2, <2>3, <2>4, <2>8, <3>1, <3>2 DEF Newest
    <3>4. Ascending'
      BY <1>old, <2>1, <2>5, <3>2 DEF Ascending
    <3> QED
      BY <2>6, <3>3, <3>4 DEF Sorted
  <2> QED
    BY <2>7, <2>8
<1>8. CASE FillFail \/ FillCorrupt
  <2>1. /\ pc = "fill" /\ pc' = "load" /\ UNCHANGED <<tail, mem, filled, ptr, end, log, out>>
        /\ page' = IF cur.over THEN Junk(page.len) ELSE page
    BY <1>8 DEF FillFail, FillCorrupt
  <2>2. ~(filled' /\ page'.id # 0)
    BY <2>1 DEF Steady, Junk
  <2> QED
    BY <1>1, <1>old, <2>1, <2>2 DEF Scanning
<1>9. CASE Commit
  <2>1. filled => Sorted'
    BY <1>1, <1>9, <1>old DEF Commit, shared, Scanning
  <2>2. ASSUME ~filled PROVE Sorted'
    <3>1. /\ pc = "commit" /\ pc' = "store" /\ cur'.len = cur.len
          /\ UNCHANGED <<tail, mem, filled, page, ptr, end, log, out>>
      BY <1>9, <2>2 DEF Commit, shared, TypeOK, CurType
    <3>2. Bound' = Bound
      BY <3>1 DEF Bound, Held
    <3> QED
      BY <1>old, <3>1, <3>2 DEF Sorted, Newest, Ascending, Scanning, Passed
  <2> QED
    BY <2>1, <2>2
<1>10. CASE StoreTail
  <2>1. /\ pc = "store" /\ pc' = "load" /\ ~filled /\ tail' = Add32(tail, cur.len) /\ ptr = 0
        /\ UNCHANGED <<mem, filled, page, ptr, end, log, out>>
    BY <1>10, <1>old DEF StoreTail, Steady, Scanning
  <2>2. tail' \in Nat /\ (tail' = tail + cur.len \/ tail' < tail)
    <3>1. tail < U32 /\ cur.len < U32 /\ U32 \in Nat
      <4>1. tail \in Word /\ cur.len \in Word
        BY DEF TypeOK, CurType
      <4> QED
        BY <4>1, SizesAssumption DEF Word
    <3> QED
      BY <1>nat, <2>1, <3>1 DEF Add32
  <2>3. Bound = Len(log) - 1 /\ Bound' = Len(log)
    BY <1>bnd, <2>1 DEF Bound, Held
  <2>4. ASSUME NEW o \in DOMAIN mem, o < tail'
        PROVE  o < tail \/ (o = tail /\ mem[o].id = Len(log))
    BY <1>mem, <1>nat, <1>old, <2>1, <2>2, <2>4 DEF Newest
  <2>5. Passed'
    BY <1>old, <1>len, <1>ids, <2>1, <2>3 DEF Passed
  <2>6. Ascending'
    <3> SUFFICES ASSUME NEW o \in DOMAIN mem, o < tail', mem[o].id # 0
                 PROVE  /\ mem[o].id <= Len(log)
                        /\ \A x \in DOMAIN mem : o < x /\ x < tail' /\ mem[x].id # 0 => mem[o].id < mem[x].id
                        /\ \A j \in 1 .. Len(out) : out[j].id < mem[o].id
      BY <2>1, <2>3 DEF Ascending
    <3>1. CASE o < tail
      <4>1. /\ mem[o].id <= Len(log) - 1
            /\ \A x \in DOMAIN mem : o < x /\ x < tail /\ mem[x].id # 0 => mem[o].id < mem[x].id
            /\ \A j \in 1 .. Len(out) : out[j].id < mem[o].id
        BY <1>mem, <1>old, <2>1, <2>3, <3>1 DEF Ascending
      <4>2. ASSUME NEW x \in DOMAIN mem, o < x, x < tail', mem[x].id # 0 PROVE mem[o].id < mem[x].id
        <5>1. CASE x < tail
          BY <4>1, <4>2, <5>1
        <5>2. CASE mem[x].id = Len(log)
          <6>1. mem[o].id \in Nat /\ mem[o].id <= Len(log) - 1
            BY <1>ids, <4>1
          <6> QED
            BY <1>len, <5>2, <6>1
        <5> QED
          BY <2>4, <4>2, <5>1, <5>2
      <4>3. mem[o].id <= Len(log)
        <5>1. mem[o].id \in Nat /\ mem[o].id <= Len(log) - 1
          BY <1>ids, <4>1
        <5> QED
          BY <1>len, <5>1
      <4> QED
        BY <4>1, <4>2, <4>3
    <3>2. CASE o = tail /\ mem[o].id = Len(log)
      <4>1. \A x \in DOMAIN mem : ~(o < x /\ x < tail')
        BY <1>mem, <1>nat, <2>4, <3>2
      <4>2. \A j \in 1 .. Len(out) : out[j].id < Len(log)
        BY <1>old, <1>len, <1>ids, <2>3 DEF Passed
      <4> QED
        BY <1>len, <3>2, <4>1, <4>2
    <3> QED
      BY <2>4, <3>1, <3>2
  <2>7. Newest' /\ Scanning'
    BY <2>1 DEF Newest, Scanning
  <2> QED
    BY <2>5, <2>6, <2>7 DEF Sorted
<1>11. CASE LoadMonitor \/ NoLoad \/ LoadFail \/ StartDrain \/ SkipDrain \/ EndDrain \/ Return
  BY <1>1, <1>11, <1>old
  DEF LoadMonitor, NoLoad, LoadFail, StartDrain, SkipDrain, EndDrain, Return, Leave, Release,
      shared, Scanning
<1>12. CASE Kill
  BY <1>1, <1>12, <1>old DEF Kill, Release, shared, Scanning, InMonitor
<1>13. CASE Consume
  <2>1. PICK e : /\ e \in IF ptr \in DOMAIN mem THEN {mem[ptr]} ELSE {Junk(g) : g \in Garbage}
                 /\ out' = Append(out, e) /\ ptr' = ptr + e.len
    BY <1>13 DEF Consume
  <2>2. /\ pc = "drain" /\ ptr < tail
        /\ UNCHANGED <<tail, mem, filled, page, pc, cur, end, log>>
    BY <1>13, <1>old DEF Consume, shared, Scanning
  <2>3. e \in Event /\ e.id \in Nat /\ e.len \in Nat /\ (e.id # 0 => ptr \in DOMAIN mem /\ e = mem[ptr])
    <3>1. e \in Event
      BY <1>mem, <2>1, KindsAssumption, JunkType
    <3>2. e.id # 0 => ptr \in DOMAIN mem /\ e = mem[ptr]
      <4>1. \A g : Junk(g).id = 0
        BY DEF Junk
      <4>2. ptr \notin DOMAIN mem => \E g \in Garbage : e = Junk(g)
        BY <2>1
      <4>3. ptr \in DOMAIN mem => e = mem[ptr]
        BY <2>1
      <4> QED
        BY <4>1, <4>2, <4>3
    <3> QED
      BY <3>1, <3>2, SizeWords DEF Event
  <2>4. /\ Len(out') = Len(out) + 1 /\ out'[Len(out) + 1] = e
        /\ \A j \in 1 .. Len(out) : out'[j] = out[j]
    BY <1>seq, <1>len, <2>1, <2>3
  <2>5. e.id # 0 => e.id <= Bound /\ \A j \in 1 .. Len(out) : out[j].id < e.id
    <3> SUFFICES ASSUME e.id # 0 PROVE e.id <= Bound /\ \A j \in 1 .. Len(out) : out[j].id < e.id
      OBVIOUS
    <3>1. ptr \in DOMAIN mem /\ e = mem[ptr] /\ ptr <= ptr
      BY <1>nat, <2>3
    <3>2. mem[ptr].id <= Bound /\ \A j \in 1 .. Len(out) : out[j].id < mem[ptr].id
      BY <1>old, <2>2, <3>1 DEF Ascending
    <3> QED
      BY <3>1, <3>2
  <2>6. Bound' = Bound
    BY <2>2 DEF Bound, Held
  <2>7. Passed'
    <3>1. e.id <= Bound
      BY <1>bnd, <2>3, <2>5
    <3>2. \A j \in 1 .. Len(out') : j \in 1 .. Len(out) \/ j = Len(out) + 1
      BY <1>len, <2>4
    <3>3. \A j \in 1 .. Len(out') : out'[j].id <= Bound
      BY <1>old, <2>4, <3>1, <3>2 DEF Passed
    <3>4. ASSUME NEW j \in 1 .. Len(out'), out'[j].id # 0, NEW i \in 1 .. j - 1
          PROVE  out'[i].id < out'[j].id
      <4>1. i \in 1 .. Len(out) /\ out'[i] = out[i]
        BY <1>len, <2>4
      <4>2. CASE j \in 1 .. Len(out)
        BY <1>old, <2>4, <3>4, <4>1, <4>2 DEF Passed
      <4>3. CASE j = Len(out) + 1
        BY <2>4, <2>5, <3>4, <4>1, <4>3
      <4> QED
        BY <3>2, <4>2, <4>3
    <3> QED
      BY <2>6, <3>3, <3>4 DEF Passed
  <2>8. Ascending'
    <3> SUFFICES ASSUME NEW o \in DOMAIN mem, o < tail, mem[o].id # 0, ptr' <= o,
                        NEW j \in 1 .. Len(out')
                 PROVE  out'[j].id < mem[o].id
      BY <1>old, <2>2, <2>6 DEF Ascending
    <3>1. ptr <= o
      BY <1>mem, <1>nat, <2>1, <2>3
    <3>2. CASE j \in 1 .. Len(out)
      BY <1>old, <2>2, <2>4, <3>1, <3>2 DEF Ascending
    <3>3. CASE j = Len(out) + 1
      <4>1. CASE e.id = 0
        <5>1. mem[o].id \in Nat /\ mem[o].id # 0
          BY <1>ids
        <5> QED
          <6>1. out'[j] = e
            BY <2>4, <3>3
          <6> QED
            BY <4>1, <5>1, <6>1
      <4>2. CASE e.id # 0
        <5>1. e.len > 0
          <6>1. e.id <= Len(log) /\ e = log[e.id]
            BY <2>3, <4>2 DEF Genuine, Authentic
          <6> QED
            BY <1>len, <2>3, <4>2, <6>1 DEF Genuine, Numbered
        <5>2. ptr < o
          BY <1>mem, <1>nat, <2>1, <2>3, <5>1
        <5>3. mem[ptr].id < mem[o].id
          BY <1>old, <2>2, <2>3, <4>2, <5>2 DEF Ascending
        <5> QED
          BY <2>3, <2>4, <3>3, <4>2, <5>3
      <4> QED
        BY <4>1, <4>2
    <3> QED
      BY <1>len, <2>4, <3>2, <3>3
  <2>9. Newest' /\ Scanning'
    BY <1>old, <2>2 DEF Newest, Scanning
  <2> QED
    BY <2>7, <2>8, <2>9 DEF Sorted
<1>14. CASE ClearEvents
  BY <1>1, <1>14, <1>old DEF ClearEvents, Scanning, Calm
<1>15. CASE ClearTail \/ ClearFilled
  BY <1>1, <1>15, <1>old DEF ClearTail, ClearFilled, Scanning, Steady
<1> QED
  BY <1>0, <1>2, <1>3, <1>4, <1>5, <1>6, <1>7, <1>8, <1>9, <1>10, <1>11, <1>12, <1>13,
     <1>14, <1>15 DEF Next, Record, Monitor, Clear

(* DeliveredInOrder for every buffer, page and kinds of event, though      *)
(* fillers, loads and the monitor may fail and the thread may be killed:   *)
(* the monitor's scan is handed the recorded events unchanged, each at     *)
(* most once and in order.                                                 *)
THEOREM InOrder ==
  ASSUME Calm
  PROVE  Spec => []DeliveredInOrder
<1> DEFINE IInv == TypeOK /\ Steady /\ Genuine /\ Sorted
<1>1. Init => IInv
  <2>0. Init => /\ pc = "user" /\ ~filled /\ page.id = 0 /\ ptr = 0
                /\ DOMAIN mem = {} /\ Len(log) = 0 /\ Len(out) = 0
    <3> SUFFICES ASSUME Init
                 PROVE  /\ pc = "user" /\ ~filled /\ page.id = 0 /\ ptr = 0
                        /\ DOMAIN mem = {} /\ Len(log) = 0 /\ Len(out) = 0
      OBVIOUS
    <3>1. \A g : Junk(g).id = 0
      BY DEF Junk
    <3>2. pc = "user" /\ ~filled /\ ptr = 0 /\ log = << >> /\ out = << >>
      BY DEF Init
    <3>3. DOMAIN mem = {} /\ \E g \in Garbage : page = Junk(g)
      BY DEF Init
    <3> QED
      BY <3>1, <3>2, <3>3
  <2>1. Init => Steady
    BY DEF Init, Steady
  <2>2. Init => Genuine
    <3> SUFFICES ASSUME Init PROVE Genuine
      OBVIOUS
    <3>1. 1 .. Len(log) = {} /\ 1 .. Len(out) = {} /\ DOMAIN mem = {} /\ page.id = 0
      BY <2>0
    <3> QED
      BY <3>1 DEF Genuine, Numbered, Authentic
  <2>3. Init => Sorted
    BY <2>0 DEF Sorted, Newest, Ascending, Scanning, Passed
  <2> QED
    BY <2>1, <2>2, <2>3, InitType
<1>2. IInv /\ [Next]_vars => IInv'
  BY TypeStep, SteadyStep, GenuineStep, SortedStep
<1>3. IInv => DeliveredInOrder
  BY DEF Genuine, Authentic, Sorted, Passed, DeliveredInOrder
<1> QED
  BY <1>1, <1>2, <1>3, PTL DEF Spec
==============================================================================
