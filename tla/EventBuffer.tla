----------------------------- MODULE EventBuffer -----------------------------
(***************************************************************************)
(* The event buffer of one traced thread: how do_record_one_event          *)
(* (kmodule/events.c) writes an event into the per-thread buffer or into   *)
(* the one-page overflow area, how the injected monitor (monitor/src/      *)
(* main.c) drains the buffer, and how the CLEAR_BUFFER ioctl of another    *)
(* process (kmodule/proc.c) resets it without a lock.                      *)
(*                                                                         *)
(* Lengths are counted in abstract units.  An event occupies its header    *)
(* and argument-length array (Fixed), plus argument data: at least MinData *)
(* (the integers and other values that must fit) and FullData when nothing *)
(* is cut (strings are cut to the room that is left).  The content of the  *)
(* buffer is kept as the map `mem' from the offsets at which an event      *)
(* header was last written to that event; bytes that hold no header are    *)
(* not represented.                                                        *)
(***************************************************************************)
EXTENDS Integers, Sequences

CONSTANTS
  BufferSize,    \* info->buffer_size
  PageSize,      \* PAGE_SIZE, the size of the overflow page
  U32,           \* 2^32: tail and freespace are uint32_t
  Kind,          \* the kinds of event the fillers can produce
  Fixed,         \* Fixed[k]: header + nparams * sizeof(uint16_t)
  MinData,       \* MinData[k]: data that cannot be cut
  FullData,      \* FullData[k]: data when there is room for all of it
  Partial,       \* Partial[k]: data a filler may have pushed before it meets
                 \*   an argument that does not fit
  Refused,       \* kinds whose filler reports BUFFER_FULL whatever the room
  Garbage,       \* values the len field of an unwritten header may hold
  FillerFaults,  \* may a filler return an error or push too few arguments?
  LoadFaults,    \* may nod_load_monitor fail?
  MonitorFaults, \* may the monitor fail to open or map the buffer?
  Kills,         \* may the thread be killed?
  Clearing,      \* CLEAR_BUFFER: "never", "quiet" (only between two system
                 \*   calls of the thread) or "racing" (at any time)
  MaxLog,        \* bound on the number of events recorded or dropped
  MaxOut         \* bound on the number of events handed to the monitor

VARIABLES
  tail, nevents, \* struct nod_buffer_info, shared with the monitor
  mem,           \* headers in buffer->buffer, by offset
  filled, page,  \* struct nod_overflow_page: flag and the header in the page
  entry,         \* p->entry_addr # 0: the monitor is mapped in this thread
  stat,          \* g_stat: n_evts, n_drop_evts, n_drop_evts_unsolved
  pc, cur,       \* where the thread is, and the record call in progress
  ptr, end,      \* the monitor's scan
  ctl,           \* the next store of a reset_buffer in progress
  clean,         \* history: how many events were recorded when the reset
                 \*   begun last and the one done last started, and how many
                 \*   counted events resets have wiped out
  log,           \* history: the events recorded, in order
  out            \* history: the events the monitor was handed, in order

shared == <<tail, nevents, mem, filled, page>>
vars == <<shared, entry, stat, pc, cur, ptr, end, ctl, clean, log, out>>

(* A system call is a plain one, an execve (which drops the loaded monitor) *)
(* or an exit, which is recorded on entry and forces the monitor to run.    *)
Call == {"plain", "exec", "exit"}

InKernel == {"check", "move", "space", "place", "fill", "commit", "store", "load"}
InMonitor == {"monitor", "drain", "return"}
Phase == InKernel \cup InMonitor \cup {"user", "exited"}

(* The values of a uint32_t.                                               *)
Word == 0 .. (U32 - 1)

(* An event as found behind a header: its number in the log (0 for bytes   *)
(* that are no recorded event), its length, the unused gap between the     *)
(* argument-length array and the data, and whether its data was cut.       *)
Event == [id : Nat, len : Word, gap : Word, cut : BOOLEAN]
Junk(n) == [id |-> 0, len |-> n, gap |-> 0, cut |-> FALSE]

(* uint32_t arithmetic.                                                    *)
Sub32(a, b) == IF a >= b THEN a - b ELSE a + U32 - b
Add32(a, b) == IF a + b < U32 THEN a + b ELSE a + b - U32

(* Writing event e at offset o destroys the headers in the bytes it covers. *)
Put(m, o, e) ==
  [x \in (DOMAIN m \ (o .. (o + e.len - 1))) \cup {o} |->
     IF x = o THEN e ELSE m[x]]

NoCall == [kind |-> CHOOSE k \in Kind : TRUE, call |-> "plain", force |-> FALSE,
           restart |-> FALSE, over |-> FALSE, at |-> 0, free |-> 0,
           off |-> 0, len |-> 0]

(* arg_data_size as the fillers see it.                                    *)
Room == Sub32(IF cur.over THEN PageSize ELSE cur.free, cur.off)

------------------------------------------------------------------------------
(* Faulty variants of the operations below, each with a plausible slip;    *)
(* they are no part of the specification.                                  *)
CheckOverflowUncounted ==
  /\ pc = "check"
  /\ pc' = IF filled THEN "move" ELSE "space"
  /\ tail' = IF filled THEN page.len ELSE tail
  /\ stat' = IF filled THEN [stat EXCEPT !.n_evts = @ + 1] ELSE stat
  /\ UNCHANGED <<nevents, mem, filled, page, entry, cur, ptr, end, ctl, clean, log, out>>

MoveOverflowStaysFilled ==
  /\ pc = "move"
  /\ mem' = Put(mem, 0, page)
  /\ pc' = "space"
  /\ UNCHANGED <<tail, nevents, filled, page, entry, stat, cur, ptr, end, ctl, clean, log, out>>

ComputeSpaceUnforced ==
  /\ pc = "space"
  /\ cur' = [cur EXCEPT !.free = Sub32(BufferSize, tail),
                        !.off = Fixed[cur.kind], !.force = ~entry]
  /\ pc' = "place"
  /\ UNCHANGED <<shared, entry, stat, ptr, end, ctl, clean, log, out>>

PlaceUnchecked ==
  /\ pc = "place"
  /\ cur' = [cur EXCEPT !.over = cur.restart, !.at = tail, !.force = @ \/ cur.restart]
  /\ filled' = (filled \/ cur.restart)
  /\ pc' = "fill"
  /\ UNCHANGED <<tail, nevents, mem, page, entry, stat, ptr, end, ctl, clean, log, out>>

FillFullNoRestart ==
  /\ pc = "fill"
  /\ FullData[cur.kind] >= Room
  /\ pc' = "place"
  /\ UNCHANGED <<shared, cur, entry, stat, ptr, end, ctl, clean, log, out>>

FillFailKeepsHeader ==
  /\ FillerFaults /\ pc = "fill"
  /\ stat' = [stat EXCEPT !.n_drop = @ + 1]
  /\ pc' = "load"
  /\ UNCHANGED <<shared, entry, cur, ptr, end, ctl, clean, log, out>>

ClearFilledKept ==
  /\ ctl = "filled"
  /\ ctl' = "idle"
  /\ clean' = [clean EXCEPT !.done = clean.begun]
  /\ UNCHANGED <<shared, entry, stat, pc, cur, ptr, end, log, out>>

------------------------------------------------------------------------------
(* init_buffer, nod_alloc_procinfo: buffer and info are zeroed pages, the  *)
(* overflow page is not.                                                   *)
Init ==
  /\ tail = 0 /\ nevents = 0
  /\ mem = [x \in {} |-> Junk(0)]
  /\ filled = FALSE /\ page \in {Junk(g) : g \in Garbage}
  /\ entry = FALSE
  /\ stat = [n_evts |-> 0, n_drop |-> 0, n_unsolved |-> 0]
  /\ pc = "user" /\ cur = NoCall
  /\ ptr = 0 /\ end = 0
  /\ ctl = "idle" /\ clean = [begun |-> 0, done |-> 0, wiped |-> 0]
  /\ log = << >> /\ out = << >>

(* The sys_exit probe or the exit filter enters do_record_one_event.       *)
(* execve first runs nod_init_procinfo, which forgets the loaded monitor.  *)
SyscallProbe(k, c) ==
  /\ pc = "user"
  /\ Len(log) + stat.n_drop < MaxLog /\ stat.n_evts < MaxLog
  /\ Clearing = "racing" \/ ctl = "idle"
  /\ pc' = "check"
  /\ cur' = [NoCall EXCEPT !.kind = k, !.call = c]
  /\ entry' = (entry /\ c # "exec")
  /\ UNCHANGED <<shared, stat, ptr, end, ctl, clean, log, out>>

(* An event left in the overflow page becomes the first one of the buffer. *)
(* First the counters ...                                                  *)
CheckOverflow ==
  /\ pc = "check"
  /\ \/ /\ filled
        /\ tail' = page.len
        /\ nevents' = nevents + 1
        /\ stat' = [stat EXCEPT !.n_evts = @ + 1]
        /\ pc' = "move"
     \/ /\ ~filled
        /\ pc' = "space"
        /\ UNCHANGED <<tail, nevents, stat>>
  /\ UNCHANGED <<mem, filled, page, entry, cur, ptr, end, ctl, clean, log, out>>

(* ... then memmove of info->tail bytes, read again, and filled = 0.       *)
MoveOverflow ==
  /\ pc = "move"
  /\ mem' = IF tail > 0 THEN Put(mem, 0, page) ELSE mem
  /\ filled' = FALSE
  /\ pc' = "space"
  /\ UNCHANGED <<tail, nevents, page, entry, stat, cur, ptr, end, ctl, clean, log, out>>

ComputeSpace ==
  /\ pc = "space"
  /\ cur' = [cur EXCEPT !.free = Sub32(BufferSize, tail),
                        !.off = Fixed[cur.kind],
                        !.force = (cur.call = "exit") \/ ~entry]
  /\ pc' = "place"
  /\ UNCHANGED <<shared, entry, stat, ptr, end, ctl, clean, log, out>>

(* The label `restart': choose the overflow page or the buffer.            *)
Place ==
  /\ pc = "place"
  /\ LET over == cur.free < Fixed[cur.kind] \/ cur.restart
     IN  /\ cur' = [cur EXCEPT !.over = over, !.at = tail, !.force = @ \/ over]
         /\ filled' = (filled \/ over)
  /\ pc' = "fill"
  /\ UNCHANGED <<tail, nevents, mem, page, entry, stat, ptr, end, ctl, clean, log, out>>

(* The data a filler that succeeds pushes into room r.                     *)
Pushed(k, r) == IF FullData[k] <= r THEN {FullData[k]} ELSE MinData[k] .. r

FillOk ==
  /\ pc = "fill"
  /\ cur.kind \notin Refused
  /\ MinData[cur.kind] <= Room
  /\ \E d \in Pushed(cur.kind, Room) :
       LET e == [id |-> Len(log) + 1, len |-> Add32(cur.off, d),
                 gap |-> Sub32(cur.off, Fixed[cur.kind]),
                 cut |-> d < FullData[cur.kind]]
       IN  /\ cur' = [cur EXCEPT !.len = e.len]
           /\ log' = Append(log, e)
           /\ IF cur.over THEN page' = e /\ UNCHANGED mem
                          ELSE mem' = Put(mem, cur.at, e) /\ UNCHANGED page
  /\ pc' = "commit"
  /\ UNCHANGED <<tail, nevents, filled, entry, stat, ptr, end, ctl, clean, out>>

(* NOD_FAILURE_BUFFER_FULL: restart in the overflow page.  curarg is reset *)
(* to 0, arg_data_offset is not.  Strings are cut greedily, so an argument *)
(* behind a string may find no room although the least data would fit.     *)
FillFull ==
  /\ pc = "fill"
  /\ FullData[cur.kind] >= Room \/ cur.kind \in Refused
  /\ \E a \in Partial[cur.kind] :
       /\ a <= Room
       /\ cur' = [cur EXCEPT !.restart = TRUE, !.off = Add32(@, a)]
  /\ pc' = "place"
  /\ UNCHANGED <<shared, entry, stat, ptr, end, ctl, clean, log, out>>

(* Any other failure: the event is counted as dropped.  In the overflow    *)
(* page its half-written header stays behind, len being the old one.       *)
FillFail ==
  /\ FillerFaults
  /\ pc = "fill"
  /\ stat' = [stat EXCEPT !.n_drop = @ + 1]
  /\ page' = IF cur.over THEN Junk(page.len) ELSE page
  /\ pc' = "load"
  /\ UNCHANGED <<tail, nevents, mem, filled, entry, cur, ptr, end, ctl, clean, log, out>>

(* NOD_SUCCESS with the wrong number of arguments: `corrupted filler'.     *)
FillCorrupt ==
  /\ FillerFaults
  /\ pc = "fill"
  /\ page' = IF cur.over THEN Junk(page.len) ELSE page
  /\ cur' = [cur EXCEPT !.force = FALSE]
  /\ pc' = "load"
  /\ UNCHANGED <<tail, nevents, mem, filled, entry, stat, ptr, end, ctl, clean, log, out>>

(* hdr->len is set; unless the overflow page is in use, tail += event_size *)
(* reads tail here ...                                                     *)
Commit ==
  /\ pc = "commit"
  /\ \/ filled /\ pc' = "load" /\ UNCHANGED cur
     \/ ~filled /\ pc' = "store" /\ cur' = [cur EXCEPT !.at = tail]
  /\ UNCHANGED <<shared, entry, stat, ptr, end, ctl, clean, log, out>>

(* ... and stores it here.                                                 *)
StoreTail ==
  /\ pc = "store"
  /\ tail' = Add32(cur.at, cur.len)
  /\ nevents' = nevents + 1
  /\ stat' = [stat EXCEPT !.n_evts = @ + 1]
  /\ pc' = "load"
  /\ UNCHANGED <<mem, filled, page, entry, cur, ptr, end, ctl, clean, log, out>>

(* nod_proc_release on the way out of the kernel: what is still in the     *)
(* buffer is added to n_drop_evts_unsolved.  The buffer is freed only when *)
(* a reset_buffer in progress has ended (synchronize_rcu).                 *)
Release ==
  /\ stat' = [stat EXCEPT !.n_unsolved = @ + nevents]
  /\ pc' = "exited"

(* The system call returns to the application, or an exit goes through.    *)
Leave ==
  \/ cur.call = "exit" /\ Release /\ UNCHANGED cur
  \/ cur.call # "exit" /\ pc' = "user" /\ cur' = NoCall /\ UNCHANGED stat

(* if (force) nod_load_monitor(p).                                         *)
LoadMonitor ==
  /\ pc = "load" /\ cur.force
  /\ entry' = TRUE
  /\ pc' = "monitor"
  /\ UNCHANGED <<shared, stat, cur, ptr, end, ctl, clean, log, out>>

NoLoad ==
  /\ pc = "load" /\ ~cur.force
  /\ Leave
  /\ UNCHANGED <<shared, entry, ptr, end, ctl, clean, log, out>>

(* Mapping the ELF images fails, or writing the stack information after it. *)
LoadFail ==
  /\ LoadFaults
  /\ pc = "load" /\ cur.force
  /\ entry' \in {entry, TRUE}
  /\ Leave
  /\ UNCHANGED <<shared, ptr, end, ctl, clean, log, out>>

------------------------------------------------------------------------------
(* The monitor.  nod_start_main opens the device and maps the buffer ...   *)
StartDrain ==
  /\ pc = "monitor"
  /\ ptr' = 0 /\ end' = tail
  /\ pc' = "drain"
  /\ UNCHANGED <<shared, entry, stat, cur, ctl, clean, log, out>>

(* ... or gives up and goes straight to the label `out'.                   *)
SkipDrain ==
  /\ MonitorFaults
  /\ pc = "monitor"
  /\ pc' = "return"
  /\ UNCHANGED <<shared, entry, stat, cur, ptr, end, ctl, clean, log, out>>

(* One iteration of the loop of nod_monitor_main.                          *)
Consume ==
  /\ pc = "drain" /\ ptr < end
  /\ Len(out) < MaxOut
  /\ \E e \in IF ptr \in DOMAIN mem THEN {mem[ptr]} ELSE {Junk(g) : g \in Garbage} :
       /\ out' = Append(out, e)
       /\ ptr' = ptr + e.len
  /\ UNCHANGED <<shared, entry, stat, pc, cur, end, ctl, clean, log>>

EndDrain ==
  /\ pc = "drain" /\ ptr >= end
  /\ tail' = 0 /\ nevents' = 0
  /\ pc' = "return"
  /\ ptr' = 0 /\ end' = 0
  /\ UNCHANGED <<mem, filled, page, entry, stat, cur, ctl, clean, log, out>>

(* nod_restore_context of the monitor: the RESTORE_CONTEXT ioctl resumes   *)
(* the application; for an exit the monitor issues the exit itself.        *)
Return ==
  /\ pc = "return"
  /\ Leave
  /\ UNCHANGED <<shared, entry, ptr, end, ctl, clean, log, out>>

(* SIGKILL, an exit_group of another thread, or a monitor that gives the   *)
(* thread up (ASSERT_EXIT) when it cannot return to the application.       *)
Kill ==
  /\ Kills
  /\ pc \in InMonitor \cup {"user"}
  /\ Release
  /\ cur' = NoCall
  /\ UNCHANGED <<shared, entry, ptr, end, ctl, clean, log, out>>

------------------------------------------------------------------------------
(* reset_buffer from the CLEAR_BUFFER ioctl of another process: three      *)
(* stores, under rcu_read_lock only.                                       *)
ClearEvents ==
  /\ ctl = "idle"
  /\ pc # "exited"
  /\ Clearing # "never"
  /\ Clearing = "racing" \/ pc = "user"
  /\ nevents' = 0
  /\ ctl' = "tail"
  /\ clean' = [clean EXCEPT !.begun = Len(log), !.wiped = @ + nevents]
  /\ UNCHANGED <<tail, mem, filled, page, entry, stat, pc, cur, ptr, end, log, out>>

ClearTail ==
  /\ ctl = "tail"
  /\ tail' = 0
  /\ ctl' = "filled"
  /\ UNCHANGED <<nevents, mem, filled, page, entry, stat, pc, cur, ptr, end, clean, log, out>>

ClearFilled ==
  /\ ctl = "filled"
  /\ filled' = FALSE
  /\ ctl' = "idle"
  /\ clean' = [clean EXCEPT !.done = clean.begun]
  /\ UNCHANGED <<tail, nevents, mem, page, entry, stat, pc, cur, ptr, end, log, out>>

------------------------------------------------------------------------------
Record ==
  \/ CheckOverflow \/ MoveOverflow \/ ComputeSpace \/ Place
  \/ FillOk \/ FillFull \/ FillFail \/ FillCorrupt
  \/ Commit \/ StoreTail \/ LoadMonitor \/ NoLoad \/ LoadFail

Monitor == StartDrain \/ SkipDrain \/ Consume \/ EndDrain \/ Return

Clear == ClearEvents \/ ClearTail \/ ClearFilled

Next ==
  \/ \E k \in Kind, c \in Call : SyscallProbe(k, c)
  \/ Record
  \/ Monitor
  \/ Kill
  \/ Clear

Spec == Init /\ [][Next]_vars

(* The kernel code is not preempted for ever, the monitor is scheduled like *)
(* any other code of the thread, and the ioctl runs to its end.             *)
FairSpec == Spec /\ WF_vars(Record) /\ WF_vars(Monitor) /\ WF_vars(ClearTail \/ ClearFilled)

------------------------------------------------------------------------------
(* Named assumptions on the constants.                                     *)
ASSUME SizesAssumption ==
  /\ PageSize \in Nat \ {0} /\ BufferSize \in Nat /\ U32 \in Nat
  /\ PageSize <= BufferSize /\ BufferSize < U32

ASSUME KindsAssumption ==
  /\ Kind # {} /\ Refused \subseteq Kind /\ Garbage \subseteq Word
  /\ Fixed \in [Kind -> Nat \ {0}]
  /\ MinData \in [Kind -> Word] /\ FullData \in [Kind -> Word]
  /\ Partial \in [Kind -> SUBSET Word]
  /\ \A k \in Kind : 
       /\ Fixed[k] <= PageSize /\ MinData[k] <= FullData[k]
       /\ 0 \in Partial[k]

ASSUME ModesAssumption ==
  /\ FillerFaults \in BOOLEAN /\ LoadFaults \in BOOLEAN
  /\ MonitorFaults \in BOOLEAN /\ Kills \in BOOLEAN
  /\ Clearing \in {"never", "quiet", "racing"}
  /\ MaxLog \in Nat /\ MaxOut \in Nat

CurType ==
  [kind : Kind, call : Call, force : BOOLEAN, restart : BOOLEAN,
   over : BOOLEAN, at : Word, free : Word, off : Word, len : Word]

(* The state of the buffer, of the record call and of the monitor's scan   *)
(* is well formed: every header lies at an offset and the stages of the    *)
(* three actors are known ones.                                            *)
TypeOK ==
  /\ tail \in Word /\ nevents \in Nat
  /\ DOMAIN mem \subseteq Nat /\ mem \in [DOMAIN mem -> Event]
  /\ filled \in BOOLEAN /\ page \in Event
  /\ entry \in BOOLEAN
  /\ stat \in [n_evts : Nat, n_drop : Nat, n_unsolved : Nat]
  /\ pc \in Phase /\ cur \in CurType
  /\ ptr \in Nat /\ end \in Nat
  /\ ctl \in {"idle", "tail", "filled"}
  /\ clean \in [begun : Nat, done : Nat, wiped : Nat]
  /\ log \in Seq(Event) /\ out \in Seq(Event)

(* do_record_one_event never lets tail pass buffer_size, never writes an   *)
(* event beyond the end of the buffer or of the overflow page, and so      *)
(* buffer_size - tail never wraps around.                                  *)
WritesInBounds ==
  /\ tail <= BufferSize
  /\ \A o \in DOMAIN mem : o + mem[o].len <= BufferSize
  /\ page.id # 0 => page.len <= PageSize

(* The recorded events that reach the monitor reach it unchanged, each at  *)
(* most once and in the order they were recorded, whatever fails between   *)
(* recording an event and draining the buffer.                             *)
DeliveredInOrder ==
  \A j \in 1 .. Len(out) : out[j].id # 0 =>
    /\ out[j].id <= Len(log) /\ out[j] = log[out[j].id]
    /\ \A i \in 1 .. j - 1 : out[i].id < out[j].id

(* The counters agree: every event counted in n_evts has been solved by    *)
(* the monitor, waits in the buffer (nevents) or was wiped out by a reset; *)
(* at the end of the thread the ones left are in n_drop_evts_unsolved.  A  *)
(* thread killed while the monitor runs may count events twice, never lose *)
(* one.                                                                    *)
Ledger ==
  LET known == Len(out) + clean.wiped
  IN  /\ pc \notin {"drain", "exited"} => stat.n_evts = known + nevents
      /\ pc = "drain" => stat.n_evts <= known + nevents
      /\ pc = "exited" => stat.n_evts <= known + stat.n_unsolved

(* An exit system call has the monitor drain the buffer before the thread  *)
(* ends: every event recorded and not wiped out has been handed over, but  *)
(* for one that only the overflow page holds.                              *)
ExitDrains ==
  pc = "exited" /\ cur.call = "exit" =>
    \A i \in clean.done + 1 .. Len(log) :
      \/ \E j \in 1 .. Len(out) : out[j].id = i
      \/ filled /\ page.id = i

(* CLEAR_BUFFER: once a reset is done, no event recorded before it began   *)
(* is left in the buffer or in the overflow page of a thread that runs.    *)
ClearEmpties ==
  pc = "user" =>
    /\ \A o \in DOMAIN mem : o < tail => mem[o].id > clean.done
    /\ filled => page.id > clean.done

(* The number of the next event to hand over, read off the buffer: the     *)
(* first one behind the monitor's scan, else the one on its way (being     *)
(* committed, waiting in the overflow page or being moved from it).        *)
NextOut ==
  IF pc # "move" /\ ptr < tail THEN mem[ptr].id
  ELSE IF (filled /\ pc \notin {"place", "fill"}) \/ pc \in {"commit", "store"}
       THEN Len(log)
       ELSE Len(log) + 1

Log == INSTANCE EventLog WITH next <- NextOut, clearing <- (ctl # "idle")

(* The buffer, the overflow page, the record path and the monitor together *)
(* implement the first-in first-out log: no event is lost, repeated or     *)
(* reordered but by a reset.                                               *)
IsEventLog == Log!Spec

(* A filler's BUFFER_FULL makes do_record_one_event start again only when  *)
(* the event did not fit the room it was given: the comment on `restart'.  *)
RestartMeansFull ==
  pc = "place" /\ cur.restart => cur.free <= Fixed[cur.kind] + FullData[cur.kind]

(* The comment on the overflow page: its content will be written to the    *)
(* buffer in the next system call; nothing stays in it when the thread has *)
(* gone through its exit.                                                  *)
OverflowReachesBuffer ==
  pc = "exited" => ~filled

(* An event that record_one_event reports as dropped is not handed to the  *)
(* monitor.                                                                *)
DroppedNotDelivered ==
  \A i \in 1 .. Len(out) : out[i].id # 0

(* Every call of do_record_one_event ends, and so does every visit of the  *)
(* monitor: the thread gets back to its application or exits.              *)
CallReturns ==
  pc \in InKernel \cup InMonitor ~> pc \in {"user", "exited"}
=============================================================================
