------------------------ MODULE EventBufferRefinement ------------------------
(***************************************************************************)
(* The event buffer implements the first-in first-out log of EventLog, for *)
(* every size of the buffer and every set of event kinds.                  *)
(***************************************************************************)
EXTENDS EventBufferProofs

(* The regime of the refinement: also the monitor can always be loaded and *)
(* can always map the buffer.                                              *)
Reliable == Orderly /\ ~LoadFaults /\ ~MonitorFaults

(* An event on its way: recorded, but not yet behind tail.                 *)
OnItsWay == (filled /\ pc \notin {"place", "fill"}) \/ pc \in {"commit", "store"}

(* The number of the last event behind tail.                               *)
LastIn == IF OnItsWay THEN Len(log) - 1 ELSE Len(log)

(* The headers behind tail form a chain of consecutive recorded events,    *)
(* from offset 0 to tail: each one ends where the next one starts.         *)
Linked ==
  pc # "move" =>
    /\ tail > 0 => 0 \in DOMAIN mem
    /\ \A o \in DOMAIN mem : o < tail =>
         /\ mem[o].id \in 1 .. LastIn /\ mem[o] = log[mem[o].id]
         /\ o + mem[o].len <= tail
         /\ o + mem[o].len = tail => mem[o].id = LastIn
         /\ o + mem[o].len < tail => /\ o + mem[o].len \in DOMAIN mem
                                     /\ mem[o + mem[o].len].id = mem[o].id + 1

(* The event on its way is the last one recorded.  One in the overflow     *)
(* page has the monitor drain the buffer before it is moved there; one     *)
(* being committed stands at tail, alone in its bytes.                     *)
Waiting ==
  /\ filled /\ pc \notin {"place", "fill"} => Len(log) > 0 /\ page = log[Len(log)]
  /\ filled /\ pc \in {"fill", "commit", "load"} => cur.force
  /\ filled /\ pc \in {"user", "check", "return"} => tail = 0
  /\ pc = "move" => tail = page.len
  /\ ctl = "filled" => tail = 0
  /\ pc \in {"commit", "store"} /\ ~filled =>
       /\ Len(log) > 0 /\ cur.len = log[Len(log)].len
       /\ tail \in DOMAIN mem /\ mem[tail] = log[Len(log)]
       /\ \A x \in DOMAIN mem : ~(tail < x /\ x < tail + cur.len)

(* The monitor's scan stands at a header, or at the end.                   *)
Scan ==
  /\ pc \notin {"drain", "exited"} => ptr = 0
  /\ pc = "drain" => end = tail /\ ptr <= tail
  /\ pc = "return" => tail = 0
  /\ ptr < tail /\ pc # "move" => ptr \in DOMAIN mem

Chained == Bounded /\ Numbered /\ Linked /\ Waiting /\ Scan

(* Every step keeps the buffer a chain of consecutive recorded events.     *)
LEMMA ChainedStep == Reliable /\ Chained /\ [Next]_vars => Chained'
<1> SUFFICES ASSUME Reliable, Chained, [Next]_vars PROVE Chained'
  OBVIOUS
<1>bnd. Bounded /\ Bounded'
  BY BoundedStep DEF Chained, Reliable
<1> SUFFICES Numbered' /\ Linked' /\ Waiting' /\ Scan'
  BY <1>bnd DEF Chained
<1>inv. Numbered /\ Linked /\ Waiting /\ Scan
  BY DEF Chained
<1>place. Placement /\ WritesInBounds
  BY <1>bnd DEF Bounded
<1>type. TypeOK
  BY <1>bnd DEF Bounded
<1>nat. tail \in Nat /\ ptr \in Nat /\ end \in Nat /\ page \in Event /\ page.len \in Nat
  BY <1>type, SizeWords DEF TypeOK, Event
<1>bool. filled \in BOOLEAN
  BY <1>type DEF TypeOK
<1>mem. DOMAIN mem \subseteq Nat /\ mem \in [DOMAIN mem -> Event]
  BY <1>type DEF TypeOK
<1>evlen. \A o \in DOMAIN mem : mem[o].len \in Nat /\ mem[o].id \in Nat
  BY <1>mem, SizeWords DEF Event
<1>log. log \in Seq(Event)
  BY <1>type DEF TypeOK
<1>len. Len(log) \in Nat
  BY <1>log
<1>cur. cur \in CurType
  BY <1>type DEF TypeOK
<1>num. cur.at \in Nat /\ cur.off \in Nat /\ cur.len \in Nat /\ cur.over \in BOOLEAN
  BY <1>cur, SizeWords DEF CurType
<1>1. ASSUME NEW k \in Kind, NEW c \in Call, SyscallProbe(k, c)
      PROVE  Numbered' /\ Linked' /\ Waiting' /\ Scan'
  BY <1>1, <1>inv DEF SyscallProbe, shared, Numbered, Linked, LastIn, OnItsWay, Waiting, Scan
<1>2. CASE CheckOverflow
  BY <1>2, <1>inv, <1>nat, <1>bool, <1>place DEF CheckOverflow, shared, Numbered, Linked, LastIn, OnItsWay, Waiting, Scan, Placement
<1>3. CASE MoveOverflow
  <2>1. filled /\ ctl = "idle" /\ Len(log) > 0 /\ page = log[Len(log)] /\ tail = page.len
    BY <1>3, <1>inv, <1>place DEF MoveOverflow, Waiting, Placement
  <2>2. page.id = Len(log) /\ tail > 0
    BY <2>1, <1>inv, <1>len DEF Numbered
  <2>3. mem' = Put(mem, 0, page) /\ UNCHANGED <<tail, page, cur, ptr, end, ctl, log>>
        /\ ~filled' /\ pc = "move" /\ pc' = "space"
    BY <1>3, <2>2 DEF MoveOverflow
  <2>4. /\ 0 \in DOMAIN mem' /\ mem'[0] = page
        /\ \A o \in DOMAIN mem' : o < tail => o = 0
    <3>1. DOMAIN Put(mem, 0, page) \subseteq Nat
      BY <1>mem, <1>nat, PutType
    <3>2. /\ 0 \in DOMAIN Put(mem, 0, page) /\ Put(mem, 0, page)[0] = page
      BY DEF Put
    <3>3. DOMAIN Put(mem, 0, page) \subseteq {0} \cup (DOMAIN mem \ (0 .. (page.len - 1)))
      BY <1>mem, <1>nat DEF Put
    <3> QED
      BY <3>1, <3>2, <3>3, <2>1, <2>3, <1>nat
  <2>5. LastIn' = Len(log)
    BY <2>3 DEF LastIn, OnItsWay
  <2>6. Linked'
    BY <2>1, <2>2, <2>3, <2>4, <2>5, <1>len, <1>nat DEF Linked
  <2>7. Waiting'
    BY <2>1, <2>3 DEF Waiting
  <2>8. Numbered' /\ Scan'
    BY <2>3, <2>4, <1>inv DEF Numbered, Scan
  <2> QED
    BY <2>6, <2>7, <2>8
<1>4. CASE ComputeSpace
  BY <1>4, <1>inv, <1>nat, <1>bool, <1>place DEF ComputeSpace, shared, Numbered, Linked, LastIn, OnItsWay, Waiting, Scan, Placement
<1>5. CASE Place
  BY <1>5, <1>inv, <1>nat, <1>bool, <1>place DEF Place, shared, Numbered, Linked, LastIn, OnItsWay, Waiting, Scan, Placement
<1>6. CASE FillOk
  <2>1. PICK d \in Pushed(cur.kind, Room) :
          LET e == [id |-> Len(log) + 1, len |-> Add32(cur.off, d),
                    gap |-> Sub32(cur.off, Fixed[cur.kind]),
                    cut |-> d < FullData[cur.kind]]
          IN  /\ cur' = [cur EXCEPT !.len = e.len]
              /\ log' = Append(log, e)
              /\ IF cur.over THEN page' = e /\ UNCHANGED mem
                             ELSE mem' = Put(mem, cur.at, e) /\ UNCHANGED page
    BY <1>6 DEF FillOk
  <2> DEFINE e == [id |-> Len(log) + 1, len |-> Add32(cur.off, d),
                   gap |-> Sub32(cur.off, Fixed[cur.kind]),
                   cut |-> d < FullData[cur.kind]]
  <2>2. UNCHANGED <<tail, filled, ctl, ptr, end>> /\ pc = "fill" /\ pc' = "commit" /\ ptr = 0
    BY <1>6, <1>inv DEF FillOk, Scan
  <2>3. e \in Event /\ e.id = Len(log) + 1 /\ e.len > 0 /\ e.len = cur'.len
    <3>1. log'[Len(log) + 1] = e /\ log' \in Seq(Event) /\ Len(log') = Len(log) + 1
      <4>1. TypeOK'
        BY <1>bnd DEF Bounded
      <4>2. log' = Append(log, e)
        BY <2>1
      <4> HIDE DEF e
      <4> QED
        BY <4>1, <4>2, <1>log, <1>len DEF TypeOK
    <3>2. e \in Event
      BY <3>1, <1>len
    <3>3. cur'.len = e.len
      BY <2>1, <1>cur DEF CurType
    <3>4. e.len > 0
      <4>1. d \in Nat /\ cur.off \in Nat /\ cur.off > 0 /\ Add32(cur.off, d) = cur.off + d
        BY <1>6, <2>2, <1>type, <1>place, FillLen DEF FillOk, Placement
      <4> QED
        BY <4>1
    <3> QED
      BY <3>2, <3>3, <3>4
  <2>4. log' = Append(log, e)
    BY <2>1
  <2>5. cur' = [cur EXCEPT !.len = e.len]
    BY <2>1
  <2>6. cur.over => page' = e /\ mem' = mem
    BY <2>1
  <2>7. ~cur.over => mem' = Put(mem, cur.at, e) /\ page' = page
    BY <2>1
  <2> HIDE DEF e
  <2>8. /\ Len(log') = Len(log) + 1 /\ log'[Len(log) + 1] = e
        /\ \A i \in 1 .. Len(log) : log'[i] = log[i]
    BY <2>3, <2>4, <1>log
  <2>9. Numbered'
    BY <2>3, <2>8, <1>inv, <1>len DEF Numbered
  <2>10. LastIn = Len(log) /\ LastIn' = Len(log)
    BY <2>2, <2>8, <1>len DEF LastIn, OnItsWay
  <2>11. cur'.force = cur.force
    BY <2>5, <1>cur DEF CurType
  <2>12. CASE cur.over
    <3>1. filled /\ page' = e /\ mem' = mem
      BY <2>2, <2>6, <2>12, <1>place, <1>bool DEF Placement
    <3>2. Linked'
      BY <3>1, <2>2, <2>8, <2>10, <1>inv DEF Linked
    <3>3. Waiting'
      BY <3>1, <2>2, <2>8, <2>11, <1>inv, <1>len DEF Waiting
    <3>4. Scan'
      BY <3>1, <2>2, <1>inv DEF Scan
    <3> QED
      BY <2>9, <3>2, <3>3, <3>4
  <2>13. CASE ~cur.over
    <3>1. ~filled /\ mem' = Put(mem, tail, e)
      BY <2>2, <2>7, <2>13, <1>place, <1>bool DEF Placement
    <3>2. /\ tail \in DOMAIN mem' /\ mem'[tail] = e
          /\ \A x \in DOMAIN mem' : ~(tail < x /\ x < tail + e.len)
      BY <3>1, <2>3, <1>mem, <1>nat, PutAt
    <3>3. /\ \A o \in DOMAIN mem : o < tail => o \in DOMAIN mem'
          /\ \A o \in DOMAIN mem' : o < tail => o \in DOMAIN mem /\ mem'[o] = mem[o]
      BY <3>1, <2>3, <1>mem, <1>nat, PutAt
    <3>4. Linked'
      BY <3>3, <2>2, <2>8, <2>10, <1>inv, <1>nat, <1>mem, <1>evlen DEF Linked
    <3>5. Waiting'
      BY <3>1, <3>2, <2>2, <2>3, <2>8, <1>inv, <1>len DEF Waiting
    <3>6. Scan'
      BY <3>3, <2>2, <1>inv DEF Scan
    <3> QED
      BY <2>9, <3>4, <3>5, <3>6
  <2> QED
    BY <2>12, <2>13
<1>7. CASE FillFull
  BY <1>7, <1>inv, <1>nat, <1>bool, <1>place DEF FillFull, shared, Numbered, Linked, LastIn, OnItsWay, Waiting, Scan, Placement
<1>8. CASE FillFail
  BY <1>8, <1>inv, <1>nat, <1>bool, <1>place DEF FillFail, shared, Reliable, Orderly, Numbered, Linked, LastIn, OnItsWay, Waiting, Scan, Placement
<1>9. CASE FillCorrupt
  BY <1>9, <1>inv, <1>nat, <1>bool, <1>place DEF FillCorrupt, shared, Reliable, Orderly, Numbered, Linked, LastIn, OnItsWay, Waiting, Scan, Placement
<1>10. CASE Commit
  <2>1. UNCHANGED <<tail, mem, page, filled, ctl, ptr, end, log>> /\ pc = "commit"
        /\ pc' = (IF filled THEN "load" ELSE "store")
    BY <1>10, <1>bool DEF Commit, shared
  <2>2. cur'.len = cur.len /\ cur'.force = cur.force
    BY <1>10, <1>cur DEF Commit, CurType
  <2>3. LastIn' = LastIn
    BY <2>1 DEF LastIn, OnItsWay
  <2>4. Linked'
    BY <2>1, <2>3, <1>inv DEF Linked
  <2> QED
    BY <2>1, <2>2, <2>4, <1>inv DEF Numbered, Waiting, Scan
<1>11. CASE StoreTail
  <2>1. /\ ~filled /\ Len(log) > 0 /\ cur.len = log[Len(log)].len
        /\ tail \in DOMAIN mem /\ mem[tail] = log[Len(log)]
        /\ \A x \in DOMAIN mem : ~(tail < x /\ x < tail + cur.len)
        /\ cur.at = tail /\ ptr = 0 /\ ctl = "idle"
    BY <1>11, <1>inv, <1>place DEF StoreTail, Waiting, Placement, Scan
  <2>2. tail' = tail + cur.len
    BY <1>11, <2>1, <1>place, <1>num, SizesAssumption DEF StoreTail, Add32, Placement
  <2>3. UNCHANGED <<mem, page, filled, ctl, cur, ptr, end, log>> /\ pc = "store" /\ pc' = "load"
    BY <1>11 DEF StoreTail
  <2>4. mem[tail].id = Len(log) /\ cur.len > 0
    BY <2>1, <1>inv, <1>len DEF Numbered
  <2>5. LastIn = Len(log) - 1 /\ LastIn' = Len(log)
    BY <2>1, <2>3 DEF LastIn, OnItsWay
  <2>6. \A o \in DOMAIN mem : o < tail' => o < tail \/ o = tail
    BY <2>1, <2>2, <1>mem, <1>nat, <1>num
  <2>7. 0 \in DOMAIN mem
    BY <2>1, <2>3, <1>inv, <1>nat DEF Linked
  <2>8. Linked'
    <3> SUFFICES ASSUME NEW o \in DOMAIN mem, o < tail'
                 PROVE  /\ mem[o].id \in 1 .. Len(log) /\ mem[o] = log[mem[o].id]
                        /\ o + mem[o].len <= tail'
                        /\ o + mem[o].len = tail' => mem[o].id = Len(log)
                        /\ o + mem[o].len < tail' => /\ o + mem[o].len \in DOMAIN mem
                                                     /\ mem[o + mem[o].len].id = mem[o].id + 1
      BY <2>3, <2>5, <2>7 DEF Linked
    <3>1. CASE o = tail
      BY <3>1, <2>1, <2>2, <2>4, <1>len, <1>nat, <1>num
    <3>2. CASE o < tail
      <4>1. /\ mem[o].id \in 1 .. (Len(log) - 1) /\ mem[o] = log[mem[o].id]
            /\ o + mem[o].len <= tail
            /\ o + mem[o].len = tail => mem[o].id = Len(log) - 1
            /\ o + mem[o].len < tail => /\ o + mem[o].len \in DOMAIN mem
                                        /\ mem[o + mem[o].len].id = mem[o].id + 1
        BY <3>2, <2>3, <2>5, <1>inv DEF Linked
      <4>2. o \in Nat /\ mem[o].len \in Nat
        BY <1>mem, <1>evlen
      <4>3. tail < tail'
        BY <2>2, <2>4, <1>nat, <1>num
      <4>4. CASE o + mem[o].len = tail
        <5>1. o + mem[o].len \in DOMAIN mem /\ mem[o + mem[o].len].id = Len(log)
          BY <4>4, <2>1, <2>4
        <5>2. mem[o].id = Len(log) - 1 /\ mem[o].id \in 1 .. Len(log)
          BY <4>1, <4>4, <1>len
        <5>3. o + mem[o].len < tail' /\ tail' \in Nat
          BY <4>3, <4>4, <2>2, <1>nat, <1>num
        <5>4. o + mem[o].len <= tail' /\ ~(o + mem[o].len = tail')
          BY <5>3, <4>2
        <5>5. mem[o + mem[o].len].id = mem[o].id + 1
          BY <5>1, <5>2, <1>len
        <5> QED
          BY <4>1, <5>1, <5>2, <5>4, <5>5
      <4>5. CASE o + mem[o].len < tail
        <5>1. o + mem[o].len < tail' /\ tail' \in Nat
          BY <4>2, <4>3, <4>5, <2>2, <1>nat, <1>num
        <5>2. o + mem[o].len <= tail' /\ ~(o + mem[o].len = tail')
          BY <5>1, <4>2
        <5>3. mem[o].id \in 1 .. Len(log)
          BY <4>1, <1>len
        <5> QED
          BY <4>1, <4>5, <5>2, <5>3
      <4> QED
        BY <4>1, <4>2, <4>4, <4>5, <1>nat
    <3> QED
      BY <2>6, <3>1, <3>2
  <2>9. Numbered' /\ Waiting' /\ Scan'
    BY <2>1, <2>3, <2>7, <1>inv DEF Numbered, Waiting, Scan
  <2> QED
    BY <2>8, <2>9
<1>12. CASE LoadMonitor
  BY <1>12, <1>inv, <1>nat, <1>bool, <1>place DEF LoadMonitor, shared, shared, Numbered, Linked, LastIn, OnItsWay, Waiting, Scan, Placement
<1>13. CASE NoLoad
  BY <1>13, <1>inv, <1>nat, <1>bool, <1>place DEF NoLoad, shared, Leave, Release, shared, Numbered, Linked, LastIn, OnItsWay, Waiting, Scan, Placement
<1>14. CASE LoadFail
  BY <1>14, <1>inv, <1>nat, <1>bool, <1>place DEF LoadFail, shared, Reliable, Numbered, Linked, LastIn, OnItsWay, Waiting, Scan, Placement
<1>15. CASE StartDrain
  BY <1>15, <1>inv, <1>nat, <1>bool, <1>place DEF StartDrain, shared, shared, Numbered, Linked, LastIn, OnItsWay, Waiting, Scan, Placement
<1>16. CASE SkipDrain
  BY <1>16, <1>inv, <1>nat, <1>bool, <1>place DEF SkipDrain, shared, Reliable, Numbered, Linked, LastIn, OnItsWay, Waiting, Scan, Placement
<1>17. CASE Consume
  BY <1>17, <1>inv, <1>nat, <1>bool, <1>place DEF Consume, shared, Numbered, Linked, LastIn, OnItsWay, Waiting, Scan, Placement
<1>18. CASE EndDrain
  <2>1. UNCHANGED <<mem, page, filled, cur, ctl, log>> /\ tail' = 0 /\ ptr' = 0
        /\ pc = "drain" /\ pc' = "return"
    BY <1>18 DEF EndDrain
  <2>2. Linked'
    BY <2>1, <1>mem DEF Linked
  <2> QED
    BY <2>1, <2>2, <1>inv DEF Numbered, Waiting, Scan
<1>19. CASE Return
  BY <1>19, <1>inv, <1>nat, <1>bool, <1>place DEF Return, shared, Leave, Release, shared, Numbered, Linked, LastIn, OnItsWay, Waiting, Scan, Placement
<1>20. CASE Kill
  BY <1>20, <1>inv, <1>nat, <1>bool, <1>place DEF Kill, shared, Release, InMonitor, shared, Numbered, Linked, LastIn, OnItsWay, Waiting, Scan, Placement
<1>21. CASE ClearEvents
  BY <1>21, <1>inv, <1>nat, <1>bool, <1>place DEF ClearEvents, shared, Numbered, Linked, LastIn, OnItsWay, Waiting, Scan, Placement
<1>22. CASE ClearTail
  <2>1. UNCHANGED <<mem, page, filled, cur, ptr, end, log, pc>> /\ tail' = 0 /\ ctl' = "filled"
        /\ pc \in {"user", "exited"}
    BY <1>22, <1>place DEF ClearTail, Placement
  <2>2. Linked'
    BY <2>1, <1>mem DEF Linked
  <2> QED
    BY <2>1, <2>2, <1>inv, <1>nat DEF Numbered, Waiting, Scan
<1>23. CASE ClearFilled
  <2>1. UNCHANGED <<mem, page, tail, cur, ptr, end, log, pc>> /\ tail = 0 /\ ctl' = "idle" /\ ~filled'
        /\ pc \in {"user", "exited"}
    BY <1>23, <1>place, <1>inv DEF ClearFilled, Placement, Waiting
  <2>2. Linked'
    BY <2>1, <1>mem DEF Linked
  <2> QED
    BY <2>1, <2>2, <1>inv DEF Numbered, Waiting, Scan
<1>24. CASE UNCHANGED vars
  BY <1>24, <1>inv DEF vars, shared, Numbered, Linked, LastIn, OnItsWay, Waiting, Scan
<1> QED
  BY <1>1, <1>2, <1>3, <1>4, <1>5, <1>6, <1>7, <1>8, <1>9, <1>10, <1>11, <1>12, <1>13, <1>14, <1>15, <1>16, <1>17, <1>18, <1>19, <1>20, <1>21, <1>22, <1>23, <1>24 DEF Next, Record, Monitor, Clear

LEMMA ChainedInit == Init => Chained
<1> SUFFICES ASSUME Init PROVE Numbered /\ Linked /\ Waiting /\ Scan
  BY BoundedInit DEF Chained
<1>1. tail = 0 /\ ptr = 0 /\ ~filled /\ pc = "user" /\ ctl = "idle" /\ log = << >>
      /\ DOMAIN mem = {}
  BY DEF Init
<1> QED
  BY <1>1 DEF Numbered, Linked, Waiting, Scan

(* The next event to hand over is the one under the monitor's scan, else   *)
(* the one after the last event behind tail; it was recorded if it is in   *)
(* the buffer.                                                             *)
LEMMA NextOutIs ==
  ASSUME Chained
  PROVE  /\ Len(log) \in Nat /\ LastIn \in Nat /\ LastIn <= Len(log)
         /\ pc # "move" /\ ptr < tail =>
              /\ ptr \in DOMAIN mem /\ mem[ptr] = log[NextOut]
              /\ NextOut = mem[ptr].id /\ NextOut \in 1 .. LastIn
         /\ ~(pc # "move" /\ ptr < tail) => NextOut = LastIn + 1
<1>1. log \in Seq(Event)
  BY DEF Chained, Bounded, TypeOK
<1>2. Len(log) \in Nat
  BY <1>1
<1>3. OnItsWay => Len(log) > 0
  BY DEF Chained, Waiting, OnItsWay
<1>4. LastIn \in Nat /\ LastIn <= Len(log)
  BY <1>2, <1>3 DEF LastIn
<1>5. ASSUME pc # "move", ptr < tail
      PROVE  /\ ptr \in DOMAIN mem /\ mem[ptr] = log[NextOut]
             /\ NextOut = mem[ptr].id /\ NextOut \in 1 .. LastIn
  <2>1. ptr \in DOMAIN mem
    BY <1>5 DEF Chained, Scan
  <2>2. mem[ptr].id \in 1 .. LastIn /\ mem[ptr] = log[mem[ptr].id]
    BY <1>5, <2>1 DEF Chained, Linked
  <2>3. NextOut = mem[ptr].id
    BY <1>5 DEF NextOut
  <2> QED
    BY <2>1, <2>2, <2>3
<1>6. ~(pc # "move" /\ ptr < tail) => NextOut = LastIn + 1
  BY <1>2 DEF NextOut, LastIn, OnItsWay
<1> QED
  BY <1>2, <1>4, <1>5, <1>6

(* What a step does to the next event to hand over: the monitor's loop     *)
(* goes on to the one after it, a reset may skip some, and any other step  *)
(* leaves it, however the event moves.                                     *)
LEMMA NextOutStep ==
  ASSUME Reliable, Chained, Chained', [Next]_vars
  PROVE  /\ Consume => /\ NextOut \in 1 .. Len(log) /\ NextOut' = NextOut + 1
                       /\ out' = Append(out, log[NextOut])
         /\ ClearTail \/ ClearFilled => NextOut' \in NextOut .. (Len(log) + 1)
         /\ ~(Consume \/ ClearTail \/ ClearFilled) => NextOut' = NextOut
<1>chn. Chained'
  OBVIOUS
<1>inv. Numbered /\ Linked /\ Waiting /\ Scan
  BY DEF Chained
<1>type. TypeOK /\ Placement
  BY DEF Chained, Bounded
<1>nat. tail \in Nat /\ ptr \in Nat /\ end \in Nat
  BY <1>type, SizeWords DEF TypeOK
<1>bool. filled \in BOOLEAN
  BY <1>type DEF TypeOK
<1>mem. DOMAIN mem \subseteq Nat /\ \A o \in DOMAIN mem : mem[o].len \in Nat /\ mem[o].id \in Nat
  BY <1>type, SizeWords DEF TypeOK, Event
<1>log. log \in Seq(Event) /\ Len(log) \in Nat
  BY <1>type DEF TypeOK
<1>next. /\ LastIn \in Nat /\ LastIn <= Len(log)
         /\ pc # "move" /\ ptr < tail =>
              /\ ptr \in DOMAIN mem /\ mem[ptr] = log[NextOut]
              /\ NextOut = mem[ptr].id /\ NextOut \in 1 .. LastIn
         /\ ~(pc # "move" /\ ptr < tail) => NextOut = LastIn + 1
  BY NextOutIs
<1>1. ASSUME NEW k \in Kind, NEW c \in Call, SyscallProbe(k, c)
      PROVE  NextOut' = NextOut
  BY <1>1 DEF SyscallProbe, shared, NextOut
<1>2. ASSUME CheckOverflow PROVE NextOut' = NextOut
  BY <1>2, <1>inv, <1>nat, <1>bool, <1>type DEF CheckOverflow, NextOut, Waiting, Scan, Placement
<1>4. ASSUME ComputeSpace PROVE NextOut' = NextOut
  BY <1>4, <1>inv, <1>nat, <1>bool, <1>type DEF ComputeSpace, shared, NextOut, Waiting, Scan, Placement
<1>5. ASSUME Place PROVE NextOut' = NextOut
  BY <1>5, <1>inv, <1>nat, <1>bool, <1>type DEF Place, NextOut, Waiting, Scan, Placement
<1>7. ASSUME FillFull PROVE NextOut' = NextOut
  BY <1>7, <1>inv, <1>nat, <1>bool, <1>type DEF FillFull, shared, NextOut, Waiting, Scan, Placement
<1>10. ASSUME Commit PROVE NextOut' = NextOut
  BY <1>10, <1>inv, <1>nat, <1>bool, <1>type DEF Commit, shared, NextOut, Waiting, Scan, Placement
<1>12. ASSUME LoadMonitor PROVE NextOut' = NextOut
  BY <1>12, <1>inv, <1>nat, <1>bool, <1>type DEF LoadMonitor, shared, NextOut, Waiting, Scan, Placement
<1>13. ASSUME NoLoad PROVE NextOut' = NextOut
  BY <1>13, <1>inv, <1>nat, <1>bool, <1>type DEF NoLoad, shared, Leave, Release, NextOut, Waiting, Scan, Placement
<1>15. ASSUME StartDrain PROVE NextOut' = NextOut
  BY <1>15, <1>inv, <1>nat, <1>bool, <1>type DEF StartDrain, shared, NextOut, Waiting, Scan, Placement
<1>18. ASSUME EndDrain PROVE NextOut' = NextOut
  BY <1>18, <1>inv, <1>nat, <1>bool, <1>type DEF EndDrain, NextOut, Waiting, Scan, Placement
<1>19. ASSUME Return PROVE NextOut' = NextOut
  BY <1>19, <1>inv, <1>nat, <1>bool, <1>type DEF Return, shared, Leave, Release, NextOut, Waiting, Scan, Placement
<1>20. ASSUME Kill PROVE NextOut' = NextOut
  BY <1>20, <1>inv, <1>nat, <1>bool, <1>type DEF Kill, shared, Release, InMonitor, NextOut, Waiting, Scan, Placement
<1>3. ASSUME MoveOverflow PROVE NextOut' = NextOut
  <2>1. filled /\ tail = page.len /\ page = log[Len(log)] /\ Len(log) > 0 /\ ptr = 0
    BY <1>3, <1>inv, <1>type DEF MoveOverflow, Waiting, Placement, Scan
  <2>2. page.id = Len(log) /\ tail > 0
    BY <2>1, <1>inv, <1>log DEF Numbered
  <2>3. mem' = Put(mem, 0, page) /\ UNCHANGED <<tail, ptr, log, out, ctl>> /\ pc = "move" /\ pc' = "space"
    BY <1>3, <2>2 DEF MoveOverflow
  <2>4. mem'[0] = page
    BY <2>3 DEF Put
  <2>5. NextOut = Len(log) /\ NextOut' = Len(log)
    BY <2>1, <2>2, <2>3, <2>4 DEF NextOut
  <2> QED
    BY <2>3, <2>5
<1>6. ASSUME FillOk PROVE NextOut' = NextOut
  <2>1. /\ UNCHANGED <<tail, ptr, ctl, out>> /\ pc = "fill" /\ pc' = "commit" /\ ptr = 0
        /\ \E e : log' = Append(log, e) /\ (mem' = mem \/ mem' = Put(mem, cur.at, e))
    BY <1>6, <1>inv DEF FillOk, Scan
  <2>2. log' \in Seq(Event)
    BY <1>chn DEF Chained, Bounded, TypeOK
  <2>3. Len(log') = Len(log) + 1 /\ \A i \in 1 .. Len(log) : log'[i] = log[i]
    BY <2>1, <1>log
  <2>4. CASE ptr < tail
    <3>1. ptr \in DOMAIN mem /\ NextOut = mem[ptr].id
      BY <2>4, <2>1, <1>next
    <3>2. cur.over \/ cur.at = tail
      BY <2>1, <1>type DEF Placement
    <3>3. PICK e : log' = Append(log, e) /\ (mem' = mem \/ mem' = Put(mem, cur.at, e))
      BY <2>1
    <3>4. CASE mem' = mem
      BY <3>1, <3>4, <2>4, <2>1 DEF NextOut
    <3>5. CASE mem' = Put(mem, tail, e)
      <4>1. e.len \in Nat
        <5>1. e = log'[Len(log) + 1]
          BY <3>3, <1>log
        <5>2. e \in Event
          BY <5>1, <2>2, <2>3, <1>log
        <5> QED
          BY <5>2, SizeWords DEF Event
      <4>2. mem'[ptr] = mem[ptr]
        BY <3>1, <3>5, <4>1, <2>4, <1>nat DEF Put
      <4> QED
        BY <3>1, <4>2, <2>4, <2>1 DEF NextOut
    <3>6. cur.over => mem' = mem
      BY <1>6 DEF FillOk
    <3> QED
      BY <3>2, <3>3, <3>4, <3>5, <3>6
  <2>5. CASE ~(ptr < tail)
    BY <2>5, <2>1, <2>3, <1>log DEF NextOut
  <2> QED
    BY <2>4, <2>5
<1>8. ASSUME FillFail \/ FillCorrupt PROVE NextOut' = NextOut
  BY <1>8 DEF FillFail, FillCorrupt, Reliable, Orderly
<1>11. ASSUME StoreTail PROVE NextOut' = NextOut
  <2>1. /\ ~filled /\ Len(log) > 0 /\ cur.len = log[Len(log)].len
        /\ mem[tail] = log[Len(log)] /\ cur.at = tail /\ ptr = 0
        /\ cur.at + cur.len <= BufferSize
    BY <1>11, <1>inv, <1>type DEF StoreTail, Waiting, Placement, Scan
  <2>2. mem[tail].id = Len(log) /\ cur.len > 0
    BY <2>1, <1>inv, <1>log DEF Numbered
  <2>3. UNCHANGED <<mem, filled, ptr, log, out, ctl>> /\ pc = "store" /\ pc' = "load"
    BY <1>11 DEF StoreTail
  <2>4. cur.len \in Nat
    BY <1>type, SizeWords DEF TypeOK, CurType
  <2>5. tail' = tail + cur.len
    BY <1>11, <2>1, <2>4, <1>nat, SizesAssumption DEF StoreTail, Add32
  <2>6. ptr < tail'
    BY <2>1, <2>2, <2>4, <2>5, <1>nat
  <2>7. NextOut' = mem[0].id
    BY <2>1, <2>3, <2>6 DEF NextOut
  <2>8. NextOut = mem[0].id
    <3>1. CASE tail = 0
      BY <3>1, <2>1, <2>2, <2>3 DEF NextOut
    <3>2. CASE tail > 0
      BY <3>2, <2>1, <2>3 DEF NextOut
    <3> QED
      BY <3>1, <3>2, <1>nat
  <2> QED
    BY <2>3, <2>7, <2>8
<1>14. ASSUME LoadFail \/ SkipDrain PROVE NextOut' = NextOut
  BY <1>14 DEF LoadFail, SkipDrain, Reliable
<1>17. ASSUME Consume
       PROVE  /\ NextOut \in 1 .. Len(log) /\ NextOut' = NextOut + 1
              /\ out' = Append(out, log[NextOut])
  <2>1. pc = "drain" /\ end = tail /\ ptr < tail
    BY <1>17, <1>inv DEF Consume, Scan
  <2>2. /\ ptr \in DOMAIN mem /\ mem[ptr] = log[NextOut]
        /\ NextOut = mem[ptr].id /\ NextOut \in 1 .. LastIn
    BY <2>1, <1>next
  <2>3. /\ out' = Append(out, mem[ptr]) /\ ptr' = ptr + mem[ptr].len
        /\ UNCHANGED <<tail, mem, filled, pc, ctl, log>>
    BY <2>2, <1>17 DEF Consume, shared
  <2>4. /\ ptr + mem[ptr].len <= tail
        /\ ptr + mem[ptr].len = tail => mem[ptr].id = LastIn
        /\ ptr + mem[ptr].len < tail => mem[ptr + mem[ptr].len].id = mem[ptr].id + 1
    BY <2>1, <2>2, <1>inv DEF Linked
  <2>5. NextOut' = NextOut + 1
    <3>1. CASE ptr + mem[ptr].len < tail
      BY <3>1, <2>1, <2>2, <2>3, <2>4 DEF NextOut
    <3>2. CASE ptr + mem[ptr].len = tail
      <4>1. NextOut' = LastIn' + 1
        BY <3>2, <2>1, <2>3, <1>nat, <1>log DEF NextOut, LastIn, OnItsWay
      <4>2. LastIn' = LastIn
        BY <2>3 DEF LastIn, OnItsWay
      <4> QED
        BY <4>1, <4>2, <3>2, <2>2, <2>4
    <3>3. ptr + mem[ptr].len \in Nat /\ tail \in Nat
      BY <2>2, <1>nat, <1>mem
    <3> QED
      BY <3>1, <3>2, <3>3, <2>4
  <2>6. NextOut \in 1 .. Len(log)
    BY <2>2, <1>next, <1>log
  <2>7. out' = Append(out, log[NextOut])
    BY <2>2, <2>3
  <2> QED
    BY <2>5, <2>6, <2>7
<1>21. ASSUME ClearEvents PROVE NextOut' = NextOut
  BY <1>21 DEF ClearEvents, NextOut
<1>22. ASSUME ClearTail \/ ClearFilled PROVE NextOut' \in NextOut .. (Len(log) + 1)
  <2>1. /\ UNCHANGED <<mem, pc, ptr, log, out>> /\ tail' = 0 /\ ctl # "idle"
        /\ pc \in {"user", "exited"} /\ (filled' => filled)
    BY <1>22, <1>inv, <1>type DEF ClearTail, ClearFilled, Waiting, Placement
  <2>2. NextOut' = IF filled' THEN Len(log) ELSE Len(log) + 1
    BY <2>1, <1>nat, <1>log DEF NextOut
  <2>3. LastIn + 1 = IF filled THEN Len(log) ELSE Len(log) + 1
    BY <2>1, <1>log DEF LastIn, OnItsWay
  <2>4. NextOut \in Nat /\ NextOut <= LastIn + 1
    BY <1>next
  <2> QED
    BY <2>1, <2>2, <2>3, <2>4, <1>log
<1>24. ASSUME UNCHANGED vars PROVE NextOut' = NextOut
  BY <1>24 DEF vars, shared, NextOut
<1> QED
  BY <1>1, <1>2, <1>3, <1>4, <1>5, <1>6, <1>7, <1>8, <1>10, <1>11, <1>12, <1>13, <1>14, <1>15, <1>17,
     <1>18, <1>19, <1>20, <1>21, <1>22, <1>24 DEF Next, Record, Monitor, Clear

(* Every step of the buffer is a step of the log, or leaves it alone.      *)
LEMMA LogStep ==
  ASSUME Reliable, Chained, Chained', [Next]_vars
  PROVE  [Log!Next]_(Log!vars)
<1>1. /\ Consume => /\ NextOut \in 1 .. Len(log) /\ NextOut' = NextOut + 1
                    /\ out' = Append(out, log[NextOut])
      /\ ClearTail \/ ClearFilled => NextOut' \in NextOut .. (Len(log) + 1)
      /\ ~(Consume \/ ClearTail \/ ClearFilled) => NextOut' = NextOut
  BY NextOutStep
<1>2. log \in Seq(Event) /\ Len(log) \in Nat
  BY DEF Chained, Bounded, TypeOK
<1>3. CASE FillOk
  <2>1. UNCHANGED <<ctl, out>> /\ \E e : log' = Append(log, e)
    BY <1>3 DEF FillOk
  <2>2. Len(log') = Len(log) + 1 /\ \A i \in 1 .. Len(log) : log'[i] = log[i]
    BY <2>1, <1>2
  <2>3. log'[Len(log')].id = Len(log')
    BY <2>2, <1>2 DEF Chained, Numbered
  <2>4. NextOut' = NextOut
    BY <1>1, <1>3 DEF FillOk, Consume, ClearTail, ClearFilled
  <2>5. Log!Record
    BY <2>1, <2>2, <2>3, <2>4 DEF Log!Record
  <2> QED
    BY <2>5 DEF Log!Next
<1>4. CASE Consume
  <2>1. Log!Deliver
    BY <1>1, <1>2, <1>4 DEF Consume, Log!Deliver
  <2> QED
    BY <2>1 DEF Log!Next
<1>5. CASE ClearEvents
  <2>1. NextOut' = NextOut
    BY <1>1, <1>5 DEF ClearEvents, Consume, ClearTail, ClearFilled
  <2>2. Log!Reset
    BY <2>1, <1>5 DEF ClearEvents, Log!Reset
  <2> QED
    BY <2>2 DEF Log!Next
<1>6. CASE ClearTail \/ ClearFilled
  <2>1. Log!Discard
    BY <1>1, <1>6 DEF ClearTail, ClearFilled, Log!Discard
  <2> QED
    BY <2>1 DEF Log!Next
<1>7. CASE ~(FillOk \/ Consume \/ Clear)
  <2>1. NextOut' = NextOut
    BY <1>1, <1>7 DEF Clear
  <2>2. UNCHANGED <<log, out, ctl>>
    BY <1>7 DEF Next, Record, Monitor, SyscallProbe, CheckOverflow, MoveOverflow, ComputeSpace,
       Place, FillFull, FillFail, FillCorrupt, Commit, StoreTail, LoadMonitor, NoLoad, LoadFail,
       StartDrain, SkipDrain, EndDrain, Return, Kill, vars
  <2> QED
    BY <2>1, <2>2 DEF Log!vars
<1> QED
  BY <1>3, <1>4, <1>5, <1>6, <1>7 DEF Clear

(* The record path of do_record_one_event, the overflow page and the loop  *)
(* of nod_monitor_main implement the first-in first-out log of EventLog:   *)
(* whatever the sizes and the mix of events, no event is lost, repeated,   *)
(* reordered or altered on its way to the monitor but by CLEAR_BUFFER,     *)
(* provided nothing fails.                                                 *)
THEOREM Implements ==
  ASSUME Reliable
  PROVE  Spec => IsEventLog
<1>1. Init => Chained /\ Log!Init
  <2>1. Init => Log!Init
    BY DEF Init, Log!Init, NextOut
  <2> QED
    BY <2>1, ChainedInit
<1>2. Chained /\ [Next]_vars => Chained' /\ [Log!Next]_(Log!vars)
  BY ChainedStep, LogStep, Reliable
<1> QED
  BY <1>1, <1>2, PTL DEF Spec, IsEventLog, Log!Spec

------------------------------------------------------------------------------
(* The events behind tail that the monitor has not been handed yet.        *)
Unread == LastIn + 1 - NextOut

(* The strengthening that makes Ledger inductive: nevents counts the       *)
(* unread events, but while a reset or the move out of the overflow page   *)
(* is half done, and while the monitor reads, which stores nevents only at *)
(* the end.                                                                *)
Counted ==
  /\ Ledger
  /\ ctl = "tail" => nevents = 0
  /\ pc = "move" => nevents = 1
  /\ pc \notin {"move", "drain", "exited"} /\ ctl # "tail" => nevents = Unread
  /\ pc = "drain" => stat.n_evts = Len(out) + clean.wiped + Unread /\ Unread <= nevents

LEMMA CountedStep ==
  ASSUME Reliable, Chained, Chained', Counted, [Next]_vars
  PROVE  Counted'
<1>inv. Linked /\ Waiting /\ Scan /\ Placement
  BY DEF Chained, Bounded
<1>type. TypeOK
  BY DEF Chained, Bounded
<1>nat. /\ tail \in Nat /\ ptr \in Nat /\ nevents \in Nat
        /\ Len(log) \in Nat /\ Len(out) \in Nat /\ filled \in BOOLEAN
  BY <1>type, SizeWords DEF TypeOK
<1>stat. /\ stat \in [n_evts : Nat, n_drop : Nat, n_unsolved : Nat]
         /\ clean \in [begun : Nat, done : Nat, wiped : Nat]
  BY <1>type DEF TypeOK
<1>num. stat.n_evts \in Nat /\ stat.n_unsolved \in Nat /\ clean.wiped \in Nat
  BY <1>stat
<1>next. /\ LastIn \in Nat /\ NextOut \in Nat /\ Unread \in Nat
         /\ ~(pc # "move" /\ ptr < tail) => Unread = 0
  BY NextOutIs DEF Unread
<1>moves. /\ Consume => NextOut' = NextOut + 1 /\ \E e : out' = Append(out, e)
          /\ ~(Consume \/ ClearTail \/ ClearFilled) => NextOut' = NextOut
  BY NextOutStep
<1> USE DEF Counted, Ledger
<1>1. ASSUME \/ \E k \in Kind, c \in Call : SyscallProbe(k, c)
             \/ ComputeSpace \/ Place \/ FillFull \/ Commit \/ LoadMonitor \/ UNCHANGED vars
      PROVE  Counted'
  <2>1. UNCHANGED <<nevents, stat, out, clean, ctl, log>>
    BY <1>1 DEF SyscallProbe, ComputeSpace, Place, FillFull, Commit, LoadMonitor, vars, shared
  <2>2. LastIn' = LastIn /\ NextOut' = NextOut
    <3>1. LastIn' = LastIn
      <4>1. CASE \E k \in Kind, c \in Call : SyscallProbe(k, c)
        BY <4>1 DEF SyscallProbe, shared, LastIn, OnItsWay
      <4>3. CASE Commit
        <5>1. OnItsWay /\ OnItsWay' /\ log' = log
          BY <4>3 DEF Commit, shared, OnItsWay
        <5> QED
          BY <5>1 DEF LastIn
      <4>4. CASE LoadMonitor \/ UNCHANGED vars
        BY <4>4 DEF LoadMonitor, vars, shared, LastIn, OnItsWay
      <4>2. CASE ComputeSpace \/ Place \/ FillFull
        BY <4>2, <1>inv, <1>nat DEF ComputeSpace, Place, FillFull, shared, LastIn, OnItsWay, Placement
      <4> QED
        BY <1>1, <4>1, <4>2, <4>3, <4>4
    <3>2. ~(Consume \/ ClearTail \/ ClearFilled) \/ UNCHANGED vars
      BY <1>1, <1>inv DEF SyscallProbe, ComputeSpace, Place, FillFull, Commit, LoadMonitor, Consume,
         ClearTail, ClearFilled, Placement
    <3> QED
      <4>1. CASE ~(Consume \/ ClearTail \/ ClearFilled)
        BY <3>1, <4>1, <1>moves
      <4>2. CASE UNCHANGED vars
        <5>1. NextOut' = NextOut
          BY <4>2 DEF vars, shared, NextOut
        <5> QED
          BY <3>1, <5>1
      <4> QED
        BY <3>2, <4>1, <4>2
  <2>3. \/ pc \notin {"drain", "exited", "move"} /\ pc' \notin {"drain", "exited", "move"}
        \/ pc' = pc
    BY <1>1 DEF SyscallProbe, ComputeSpace, Place, FillFull, Commit, LoadMonitor, vars
  <2> QED
    BY <2>1, <2>2, <2>3 DEF Unread
<1>2. CASE CheckOverflow
  <2>1. NextOut' = NextOut /\ ctl = "idle"
    BY <1>2, <1>moves, <1>inv DEF CheckOverflow, Consume, ClearTail, ClearFilled, Placement
  <2>2. CASE filled
    <3>1. Unread = 0 /\ nevents = 0
      BY <1>2, <2>1, <2>2, <1>next, <1>nat, <1>inv DEF CheckOverflow, Waiting
    <3>2. nevents' = 1 /\ stat'.n_evts = stat.n_evts + 1
      BY <1>2, <2>2, <3>1, <1>stat DEF CheckOverflow
    <3> QED
      BY <1>2, <2>1, <2>2, <3>1, <3>2, <1>num, <1>nat DEF CheckOverflow
  <2>3. CASE ~filled
    <3>1. LastIn' = LastIn
      BY <1>2, <2>3 DEF CheckOverflow, LastIn, OnItsWay
    <3> QED
      BY <1>2, <2>1, <2>3, <3>1 DEF CheckOverflow, Unread
  <2> QED
    BY <2>2, <2>3
<1>3. CASE MoveOverflow
  <2>1. NextOut' = NextOut /\ ctl = "idle" /\ filled
    BY <1>3, <1>moves, <1>inv DEF MoveOverflow, Consume, ClearTail, ClearFilled, Placement
  <2>2. LastIn' = LastIn + 1
    BY <1>3, <2>1, <1>nat DEF MoveOverflow, LastIn, OnItsWay
  <2>3. Unread' = 1
    BY <1>3, <2>1, <2>2, <1>next DEF MoveOverflow, Unread
  <2> QED
    BY <1>3, <2>1, <2>3 DEF MoveOverflow
<1>4. CASE FillOk
  <2>1. /\ UNCHANGED <<nevents, stat, out, clean, ctl, filled>> /\ pc = "fill" /\ pc' = "commit"
        /\ \E e : log' = Append(log, e)
    BY <1>4 DEF FillOk
  <2>2. NextOut' = NextOut /\ ctl = "idle"
    BY <2>1, <1>moves, <1>inv DEF Consume, ClearTail, ClearFilled, Placement
  <2>3. Len(log') = Len(log) + 1
    BY <2>1, <1>type DEF TypeOK
  <2>4. LastIn' = LastIn
    BY <2>1, <2>3, <1>nat DEF LastIn, OnItsWay
  <2> QED
    BY <2>1, <2>2, <2>4 DEF Unread
<1>5. CASE StoreTail
  <2>1. NextOut' = NextOut /\ ctl = "idle" /\ ~filled
    BY <1>5, <1>moves, <1>inv DEF StoreTail, Consume, ClearTail, ClearFilled, Placement
  <2>2. LastIn' = LastIn + 1
    BY <1>5, <2>1, <1>nat DEF StoreTail, LastIn, OnItsWay
  <2>3. nevents' = nevents + 1 /\ stat'.n_evts = stat.n_evts + 1
    BY <1>5, <1>stat DEF StoreTail
  <2>4. Unread' = Unread + 1
    BY <2>1, <2>2, <1>next DEF Unread
  <2>5. UNCHANGED <<out, clean, ctl>> /\ pc = "store" /\ pc' = "load"
    BY <1>5 DEF StoreTail
  <2>6. nevents = Unread /\ stat.n_evts = Len(out) + clean.wiped + nevents
    BY <2>1, <2>5
  <2>7. nevents' = Unread' /\ stat'.n_evts = Len(out) + clean.wiped + nevents'
    <3> DEFINE w == clean.wiped
    <3>1. w \in Nat /\ stat.n_evts = Len(out) + w + nevents
      BY <2>6, <1>num
    <3> HIDE DEF w, Counted, Ledger
    <3>2. stat.n_evts + 1 = Len(out) + w + (nevents + 1)
      BY <3>1, <1>nat
    <3> QED
      BY <2>3, <2>4, <2>6, <3>2, Zenon DEF w
  <2> QED
    BY <2>1, <2>5, <2>7
<1>6. CASE NoLoad \/ Return
  <2>1. NextOut' = NextOut /\ ctl = "idle"
    BY <1>6, <1>moves, <1>inv DEF NoLoad, Return, Consume, ClearTail, ClearFilled, Placement
  <2>2. UNCHANGED <<nevents, out, clean, ctl, filled, log>> /\ pc \in {"load", "return"}
    BY <1>6 DEF NoLoad, Return, shared
  <2>3. CASE pc' = "user" /\ UNCHANGED stat
    <3>1. LastIn' = LastIn
      BY <2>2, <2>3 DEF LastIn, OnItsWay
    <3> QED
      BY <2>1, <2>2, <2>3, <3>1 DEF Unread
  <2>4. CASE Release
    <3>1. stat'.n_evts = stat.n_evts /\ stat'.n_unsolved = stat.n_unsolved + nevents /\ pc' = "exited"
      BY <2>4, <1>stat DEF Release
    <3> QED
      BY <2>1, <2>2, <3>1, <1>num, <1>nat
  <2> QED
    BY <1>6, <2>3, <2>4 DEF NoLoad, Return, Leave
<1>7. CASE StartDrain
  <2>1. NextOut' = NextOut /\ ctl = "idle"
    BY <1>7, <1>moves, <1>inv DEF StartDrain, Consume, ClearTail, ClearFilled, Placement
  <2>2. LastIn' = LastIn
    BY <1>7 DEF StartDrain, shared, LastIn, OnItsWay
  <2> QED
    BY <1>7, <2>1, <2>2, <1>next, <1>num, <1>nat DEF StartDrain, shared, Unread
<1>8. CASE Consume
  <2>1. NextOut' = NextOut + 1 /\ Len(out') = Len(out) + 1
    BY <1>8, <1>moves, <1>type DEF TypeOK
  <2>2. LastIn' = LastIn
    BY <1>8 DEF Consume, shared, LastIn, OnItsWay
  <2>3. Unread' = Unread - 1
    BY <2>1, <2>2, <1>next DEF Unread
  <2>4. UNCHANGED <<nevents, stat, clean, ctl, pc>> /\ pc = "drain"
    BY <1>8 DEF Consume, shared
  <2>5. ctl = "idle"
    BY <2>4, <1>inv DEF Placement
  <2>6. stat.n_evts = Len(out) + clean.wiped + Unread /\ Unread <= nevents
    BY <2>4
  <2>7. Len(out') = Len(out) + 1
    BY <2>1
  <2>8. stat.n_evts = Len(out') + clean.wiped + Unread'
    <3> DEFINE w == clean.wiped
    <3>1. w \in Nat /\ Unread \in Nat
      BY <1>num, <1>next
    <3> HIDE DEF w, Counted, Ledger
    <3>2. (Len(out) + 1) + w + (Unread - 1) = Len(out) + w + Unread
      BY <3>1, <1>nat
    <3> QED
      BY <2>3, <2>6, <2>7, <3>2, Zenon DEF w
  <2>9. Unread' <= nevents
    BY <2>3, <2>6, <1>next, <1>nat
  <2>10. stat.n_evts <= Len(out') + clean.wiped + nevents
    BY <2>6, <2>7, <1>next, <1>num, <1>nat
  <2> QED
    BY <2>4, <2>5, <2>8, <2>9, <2>10
<1>9. CASE EndDrain
  <2>1. NextOut' = NextOut /\ ctl = "idle" /\ ~(ptr < tail)
    BY <1>9, <1>moves, <1>inv, <1>nat DEF EndDrain, Consume, ClearTail, ClearFilled, Placement, Scan
  <2>2. LastIn' = LastIn
    BY <1>9 DEF EndDrain, LastIn, OnItsWay
  <2>3. Unread = 0 /\ Unread' = 0
    BY <2>1, <2>2, <1>next DEF Unread
  <2> QED
    BY <1>9, <2>1, <2>3, <1>num, <1>nat DEF EndDrain
<1>10. CASE Kill
  <2>1. /\ stat'.n_evts = stat.n_evts /\ stat'.n_unsolved = stat.n_unsolved + nevents
        /\ pc' = "exited" /\ UNCHANGED <<nevents, out, clean, ctl>>
    BY <1>10, <1>stat DEF Kill, Release, shared
  <2>2. pc \in {"user", "monitor", "drain", "return"}
    BY <1>10 DEF Kill, InMonitor
  <2>3. stat.n_evts <= Len(out) + clean.wiped + nevents
    <3>1. CASE pc = "drain"
      BY <3>1
    <3>2. CASE pc # "drain"
      <4>1. stat.n_evts = Len(out) + clean.wiped + nevents
        BY <2>2, <3>2
      <4> QED
        BY <4>1, <1>num
    <3> QED
      BY <3>1, <3>2
  <2>4. \A e, a, b, n, u \in Nat : e <= a + b + n => e <= a + b + (u + n)
    OBVIOUS
  <2>5. stat.n_evts <= Len(out) + clean.wiped + (stat.n_unsolved + nevents)
    BY <2>3, <2>4, <1>num, <1>nat, Zenon
  <2>6. ctl # "tail" \/ nevents' = 0
    BY <2>1
  <2> QED
    BY <2>1, <2>5, <2>6
<1>11. CASE ClearEvents
  <2>1. UNCHANGED <<stat, out, pc>> /\ pc = "user" /\ nevents' = 0 /\ ctl' = "tail"
    BY <1>11 DEF ClearEvents, Reliable, Orderly
  <2>2. clean'.wiped = clean.wiped + nevents
    BY <1>11, <1>stat DEF ClearEvents
  <2> QED
    BY <2>1, <2>2, <1>num, <1>nat
<1>12. CASE ClearTail \/ ClearFilled
  <2>1. /\ UNCHANGED <<stat, out, pc, nevents, log, ptr>> /\ pc \in {"user", "exited"}
        /\ tail' = 0 /\ ctl' # "tail"
    BY <1>12, <1>inv DEF ClearTail, ClearFilled, Placement, Waiting
  <2>2. clean'.wiped = clean.wiped
    BY <1>12, <1>stat DEF ClearTail, ClearFilled
  <2>3. Unread' = 0
    <3>1. ~(ptr' < tail') /\ pc' \notin {"commit", "store"} /\ Len(log') \in Nat
      BY <2>1, <1>nat
    <3>2. NextOut' = (IF OnItsWay' THEN Len(log') ELSE Len(log') + 1)
      BY <3>1 DEF NextOut, OnItsWay
    <3>3. LastIn' = (IF OnItsWay' THEN Len(log') - 1 ELSE Len(log'))
      BY DEF LastIn
    <3> QED
      BY <3>1, <3>2, <3>3 DEF Unread
  <2>4. pc = "user" => nevents = 0
    <3>1. CASE ClearTail
      BY <3>1 DEF ClearTail
    <3>2. CASE ClearFilled
      BY <3>2, <1>next, <1>nat, <1>inv DEF ClearFilled, Waiting
    <3> QED
      BY <1>12, <3>1, <3>2
  <2> QED
    BY <2>1, <2>2, <2>3, <2>4
<1> QED
  BY <1>1, <1>2, <1>3, <1>4, <1>5, <1>6, <1>7, <1>8, <1>9, <1>10, <1>11, <1>12
     DEF Next, Record, Monitor, Clear, FillFail, FillCorrupt, LoadFail, SkipDrain, Reliable, Orderly

(* The counters agree at every moment: an event counted in n_evts has been *)
(* handed over, is counted in nevents or was wiped out by CLEAR_BUFFER,    *)
(* and none is lost from the books when the thread ends, though it be      *)
(* killed while the monitor reads (do_record_one_event, nod_monitor_main,  *)
(* reset_buffer, nod_proc_release).                                        *)
THEOREM CountersAgree ==
  ASSUME Reliable
  PROVE  Spec => []Ledger
<1>1. Init => Chained /\ Counted
  <2>1. Init => Counted
    <3> SUFFICES ASSUME Init PROVE Counted
      OBVIOUS
    <3>1. /\ pc = "user" /\ ctl = "idle" /\ nevents = 0 /\ stat.n_evts = 0 /\ clean.wiped = 0
          /\ ~filled /\ ptr = 0 /\ tail = 0 /\ log = << >> /\ out = << >>
      BY DEF Init
    <3>2. Len(log) = 0 /\ Len(out) = 0
      BY <3>1
    <3>3. LastIn = 0 /\ NextOut = 1
      BY <3>1, <3>2 DEF LastIn, NextOut, OnItsWay
    <3>4. Unread = 0
      BY <3>3 DEF Unread
    <3> QED
      BY <3>1, <3>2, <3>4 DEF Counted, Ledger
  <2> QED
    BY <2>1, ChainedInit
<1>2. Chained /\ Counted /\ [Next]_vars => Chained' /\ Counted'
  BY ChainedStep, CountedStep, Reliable
<1>3. Counted => Ledger
  BY DEF Counted
<1> QED
  BY <1>1, <1>2, <1>3, PTL DEF Spec

------------------------------------------------------------------------------
(* The strengthening for ExitDrains: what was recorded since the last      *)
(* reset and is no longer in the buffer has been handed over; an exit is   *)
(* recorded with force set, so that it goes through the monitor; and no    *)
(* reset is in progress in a thread that is going through its exit.        *)
Handed ==
  /\ clean.done <= Len(log)
  /\ ctl # "idle" => clean.begun = Len(log) /\ cur.call # "exit"
  /\ ctl # "filled" => \A i \in clean.done + 1 .. NextOut - 1 : \E j \in 1 .. Len(out) : out[j].id = i
  /\ pc = "user" => cur.call # "exit"
  /\ pc \in {"place", "fill", "commit", "store", "load"} /\ cur.call = "exit" => cur.force
  /\ pc = "exited" /\ cur.call = "exit" => tail = 0

LEMMA HandedStep ==
  ASSUME Reliable, Chained, Chained', Handed, [Next]_vars
  PROVE  Handed'
<1>inv. Waiting /\ Scan /\ Placement /\ Numbered
  BY DEF Chained, Bounded
<1>type. TypeOK
  BY DEF Chained, Bounded
<1>log. log \in Seq(Event) /\ out \in Seq(Event) /\ Len(log) \in Nat /\ Len(out) \in Nat
  BY <1>type DEF TypeOK
<1>clean. /\ clean \in [begun : Nat, done : Nat, wiped : Nat]
          /\ clean.begun \in Nat /\ clean.done \in Nat
  BY <1>type DEF TypeOK
<1>cur. cur \in CurType
  BY <1>type DEF TypeOK
<1>moves. /\ Consume => /\ NextOut \in 1 .. Len(log) /\ NextOut' = NextOut + 1
                        /\ out' = Append(out, log[NextOut])
          /\ ClearTail \/ ClearFilled => NextOut' \in NextOut .. (Len(log) + 1)
          /\ ~(Consume \/ ClearTail \/ ClearFilled) => NextOut' = NextOut
  BY NextOutStep
<1>next. NextOut \in Nat /\ NextOut <= Len(log) + 1
  <2>1. /\ Len(log) \in Nat /\ LastIn \in Nat /\ LastIn <= Len(log)
        /\ NextOut \in 1 .. LastIn \/ NextOut = LastIn + 1
    BY NextOutIs
  <2> QED
    BY <2>1
<1>plain. NoCall.call # "exit"
  BY DEF NoCall
(* Most steps hand over, reset and record nothing.                         *)
<1>rest. ASSUME UNCHANGED <<log, out, clean, ctl>>, NextOut' = NextOut,
                ctl # "idle" => cur'.call # "exit",
                pc' = "user" => cur'.call # "exit",
                pc' \in {"place", "fill", "commit", "store", "load"} /\ cur'.call = "exit" => cur'.force,
                pc' = "exited" /\ cur'.call = "exit" => tail' = 0
         PROVE  Handed'
  BY <1>rest DEF Handed
<1>1. ASSUME NEW k \in Kind, NEW c \in Call, SyscallProbe(k, c) PROVE Handed'
  <2>1. NextOut' = NextOut /\ ctl = "idle"
    BY <1>1, <1>moves DEF SyscallProbe, Consume, ClearTail, ClearFilled, Reliable, Orderly
  <2> QED
    BY <1>1, <2>1, <1>rest DEF SyscallProbe
<1>2. CASE CheckOverflow \/ MoveOverflow \/ StartDrain \/ EndDrain \/ LoadMonitor
  <2>1. NextOut' = NextOut /\ ctl = "idle"
    BY <1>2, <1>moves, <1>inv DEF CheckOverflow, MoveOverflow, StartDrain, EndDrain, LoadMonitor,
       Consume, ClearTail, ClearFilled, Placement
  <2>2. UNCHANGED <<log, out, clean, ctl, cur>>
        /\ pc' \notin {"user", "place", "fill", "commit", "store", "load", "exited"}
    BY <1>2 DEF CheckOverflow, MoveOverflow, StartDrain, EndDrain, LoadMonitor
  <2> QED
    BY <2>1, <2>2, <1>rest
<1>3. CASE ComputeSpace
  <2>1. NextOut' = NextOut /\ ctl = "idle"
    BY <1>3, <1>moves, <1>inv DEF ComputeSpace, Consume, ClearTail, ClearFilled, Placement
  <2>2. cur'.call = cur.call /\ cur'.force = ((cur.call = "exit") \/ ~entry)
    BY <1>3, <1>cur DEF ComputeSpace, CurType
  <2>3. UNCHANGED <<log, out, clean, ctl>> /\ pc' = "place"
    BY <1>3 DEF ComputeSpace
  <2> QED
    BY <2>1, <2>2, <2>3, <1>rest
<1>4. CASE Place \/ FillFull \/ Commit \/ StoreTail
  <2>1. NextOut' = NextOut /\ ctl = "idle"
    BY <1>4, <1>moves, <1>inv DEF Place, FillFull, Commit, StoreTail, Consume, ClearTail, ClearFilled, Placement
  <2>2. UNCHANGED <<log, out, clean, ctl>> /\ pc \in {"place", "fill", "commit", "store"}
        /\ pc' \in {"place", "fill", "store", "load"}
    BY <1>4 DEF Place, FillFull, Commit, StoreTail
  <2>3. cur'.call = cur.call /\ (cur.force => cur'.force)
    BY <1>4, <1>cur DEF Place, FillFull, Commit, StoreTail, CurType
  <2> QED
    BY <2>1, <2>2, <2>3, <1>rest DEF Handed
<1>5. CASE FillOk
  <2>1. NextOut' = NextOut /\ ctl = "idle"
    BY <1>5, <1>moves, <1>inv DEF FillOk, Consume, ClearTail, ClearFilled, Placement
  <2>2. UNCHANGED <<out, clean, ctl>> /\ pc = "fill" /\ pc' = "commit" /\ \E e : log' = Append(log, e)
    BY <1>5 DEF FillOk
  <2>3. Len(log') = Len(log) + 1
    BY <2>2, <1>log
  <2>4. cur'.call = cur.call /\ cur'.force = cur.force
    BY <1>5, <1>cur DEF FillOk, CurType
  <2> QED
    <3>1. clean'.done <= Len(log')
      BY <2>2, <2>3, <1>log, <1>clean DEF Handed
    <3>2. \A i \in clean'.done + 1 .. NextOut' - 1 : \E j \in 1 .. Len(out') : out'[j].id = i
      BY <2>1, <2>2 DEF Handed
    <3>3. cur.call = "exit" => cur.force
      BY <2>2 DEF Handed
    <3> QED
      BY <2>1, <2>2, <2>4, <3>1, <3>2, <3>3 DEF Handed
<1>6. CASE NoLoad \/ Return
  <2>1. NextOut' = NextOut /\ ctl = "idle"
    BY <1>6, <1>moves, <1>inv DEF NoLoad, Return, Consume, ClearTail, ClearFilled, Placement
  <2>2. UNCHANGED <<log, out, clean, ctl, tail>> /\ Leave
    BY <1>6 DEF NoLoad, Return, shared
  <2>3. cur.call = "exit" => tail = 0
    BY <1>6, <1>inv DEF NoLoad, Return, Handed, Scan
  <2> QED
    BY <2>1, <2>2, <2>3, <1>rest, <1>plain DEF Leave, Release
<1>7. CASE Kill
  <2>1. NextOut' = NextOut
    BY <1>7, <1>moves, <1>inv DEF Kill, InMonitor, Consume, ClearTail, ClearFilled, Release, Placement
  <2> QED
    BY <1>7, <2>1, <1>rest, <1>plain DEF Kill, Release
<1>8. CASE Consume
  <2>1. /\ UNCHANGED <<log, clean, ctl, cur, tail, pc>> /\ pc = "drain"
        /\ ctl = "idle"
    BY <1>8, <1>inv DEF Consume, shared, Placement
  <2>2. log[NextOut] \in Event /\ log[NextOut].id = NextOut
    BY <1>8, <1>moves, <1>log, <1>inv DEF Numbered
  <2>3. /\ Len(out') = Len(out) + 1 /\ out'[Len(out) + 1].id = NextOut
        /\ \A j \in 1 .. Len(out) : out'[j] = out[j]
    <3>1. PICK e \in Event : e.id = NextOut /\ out' = Append(out, e)
      BY <1>8, <2>2, <1>moves
    <3>2. /\ Len(out') = Len(out) + 1 /\ out'[Len(out) + 1] = e
          /\ \A j \in 1 .. Len(out) : out'[j] = out[j]
      BY <3>1, <1>log
    <3> QED
      BY <3>1, <3>2
  <2>4. ASSUME NEW i \in clean.done + 1 .. NextOut PROVE \E j \in 1 .. Len(out') : out'[j].id = i
    <3>1. CASE i = NextOut
      BY <3>1, <2>3, <1>log
    <3>2. CASE i # NextOut
      <4>1. i \in clean.done + 1 .. NextOut - 1
        BY <3>2, <1>next, <1>clean
      <4>2. PICK j \in 1 .. Len(out) : out[j].id = i
        BY <4>1, <2>1 DEF Handed
      <4> QED
        BY <4>2, <2>3, <1>log
    <3> QED
      BY <3>1, <3>2
  <2>5. NextOut' - 1 = NextOut
    BY <1>8, <1>moves, <1>next
  <2> QED
    BY <2>1, <2>4, <2>5 DEF Handed
<1>9. CASE ClearEvents
  <2>1. NextOut' = NextOut
    BY <1>9, <1>moves DEF ClearEvents, Consume, ClearTail, ClearFilled, Reliable, Orderly
  <2>2. UNCHANGED <<log, out, cur, pc>> /\ pc = "user" /\ ctl = "idle" /\ ctl' = "tail"
    BY <1>9 DEF ClearEvents, Reliable, Orderly
  <2>3. clean'.done = clean.done /\ clean'.begun = Len(log)
    BY <1>9, <1>clean DEF ClearEvents
  <2> QED
    BY <2>1, <2>2, <2>3 DEF Handed
<1>10. CASE ClearTail
  BY <1>10, <1>inv DEF ClearTail, Handed, Placement
<1>11. CASE ClearFilled
  <2>1. UNCHANGED <<log, out, cur, pc, tail>> /\ ctl = "filled" /\ ctl' = "idle"
    BY <1>11 DEF ClearFilled
  <2>2. clean'.done = Len(log)
    BY <1>11, <2>1, <1>clean DEF ClearFilled, Handed
  <2>3. NextOut' \in Nat /\ NextOut' <= Len(log) + 1
    BY <1>11, <1>moves, <1>next, <1>log
  <2>4. clean'.done + 1 .. NextOut' - 1 = {}
    BY <2>2, <2>3, <1>log
  <2> QED
    <3>1. clean'.done <= Len(log')
      BY <2>1, <2>2, <1>log
    <3>2. \A i \in clean'.done + 1 .. NextOut' - 1 : \E j \in 1 .. Len(out') : out'[j].id = i
      BY <2>4
    <3>3. /\ pc' = "user" => cur'.call # "exit"
          /\ pc' \in {"place", "fill", "commit", "store", "load"} /\ cur'.call = "exit" => cur'.force
          /\ pc' = "exited" /\ cur'.call = "exit" => tail' = 0
      BY <2>1 DEF Handed
    <3> QED
      BY <2>1, <3>1, <3>2, <3>3 DEF Handed
<1>12. CASE UNCHANGED vars
  BY <1>12 DEF vars, shared, Handed, NextOut
<1> QED
  BY <1>1, <1>2, <1>3, <1>4, <1>5, <1>6, <1>7, <1>8, <1>9, <1>10, <1>11, <1>12
     DEF Next, Record, Monitor, Clear, FillFail, FillCorrupt, LoadFail, SkipDrain, Reliable, Orderly

(* An exit system call drains: when the thread has gone through it, every  *)
(* event recorded since the last CLEAR_BUFFER has been handed to the       *)
(* monitor, but for one that only the overflow page holds                  *)
(* (do_record_one_event with force, nod_monitor_main).                     *)
THEOREM ExitHandsOver ==
  ASSUME Reliable
  PROVE  Spec => []ExitDrains
<1>1. Init => Chained /\ Handed
  <2>1. Init => Handed
    <3> SUFFICES ASSUME Init PROVE Handed
      OBVIOUS
    <3>1. /\ pc = "user" /\ ctl = "idle" /\ clean.done = 0 /\ ~filled /\ ptr = 0 /\ tail = 0
          /\ log = << >> /\ cur = NoCall
      BY DEF Init
    <3>2. Len(log) = 0 /\ cur.call = "plain"
      BY <3>1 DEF NoCall
    <3>3. NextOut = 1
      BY <3>1, <3>2 DEF NextOut
    <3>4. clean.done + 1 .. NextOut - 1 = {}
      BY <3>1, <3>3
    <3> QED
      BY <3>1, <3>2, <3>4 DEF Handed
  <2> QED
    BY <2>1, ChainedInit
<1>2. Chained /\ Handed /\ [Next]_vars => Chained' /\ Handed'
  BY ChainedStep, HandedStep, Reliable
<1>3. Chained /\ Handed => ExitDrains
  <2> SUFFICES ASSUME Chained, Handed, pc = "exited", cur.call = "exit",
                      NEW i \in clean.done + 1 .. Len(log)
               PROVE  (\E j \in 1 .. Len(out) : out[j].id = i) \/ (filled /\ page.id = i)
    BY DEF ExitDrains
  <2>1. tail = 0 /\ ctl = "idle" /\ ptr \in Nat
    BY DEF Handed, Chained, Bounded, TypeOK
  <2>2. NextOut = LastIn + 1 /\ LastIn \in Nat /\ Len(log) \in Nat
    BY <2>1, NextOutIs
  <2>3. clean.done \in Nat
    BY DEF Chained, Bounded, TypeOK
  <2>4. CASE i <= LastIn
    <3>1. i \in clean.done + 1 .. NextOut - 1
      BY <2>2, <2>3, <2>4
    <3>2. \A k \in clean.done + 1 .. NextOut - 1 : \E j \in 1 .. Len(out) : out[j].id = k
      BY <2>1 DEF Handed
    <3> QED
      BY <3>1, <3>2
  <2>5. CASE ~(i <= LastIn)
    <3>1. LastIn # Len(log) /\ Len(log) \in Nat
      BY <2>2, <2>5
    <3>2. filled /\ LastIn = Len(log) - 1
      BY <3>1 DEF LastIn, OnItsWay
    <3>3. page = log[Len(log)] /\ Len(log) > 0
      BY <3>2 DEF Chained, Waiting
    <3>4. page.id = Len(log)
      BY <3>1, <3>3 DEF Chained, Numbered
    <3>5. i = Len(log)
      BY <2>3, <2>5, <3>1, <3>2
    <3> QED
      BY <3>2, <3>4, <3>5
  <2> QED
    BY <2>4, <2>5
<1> QED
  BY <1>1, <1>2, <1>3, PTL DEF Spec
==============================================================================
