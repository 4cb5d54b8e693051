------------------------------- MODULE Control -------------------------------
(***************************************************************************)
(* The control device /proc/nodrop as nodrop-ctl uses it: the buffers'     *)
(* counts, their contents, the statistics, the buffer size, and the        *)
(* mapping of a buffer by its own thread (kmodule/proc.c, nodrop-ctl.c).   *)
(*                                                                         *)
(* nod_proc_traverse takes no lock that a recording thread takes: threads  *)
(* go on while the tool walks over their buffers, so every access that     *)
(* reads a buffer again is a step of its own.  An event is one unit long   *)
(* and is known by its number; how it gets into a buffer is EventBuffer's. *)
(***************************************************************************)
EXTENDS Integers, Sequences, FiniteSets, SequencesExt, FiniteSetsExt

CONSTANTS Threads,   \* the threads with an entry, in the order of the hash table
          Cpu,       \* the possible CPUs, 1 .. the number of them
          Sizes,     \* buffer sizes asked for
          CONFIG_BUFFER_SIZE,
          PageSize,
          FetchSize, \* sizeof(struct fetch_buffer_struct)
          MaxEvent,  \* bound: events recorded
          MaxTool    \* bound: invocations of the tool

Thread == Range(Threads)
Junk == 0            \* what malloc left in a place that FETCH does not write
Trailer == -1        \* part of the structure that FETCH writes behind the data
None == [at |-> 0, op |-> "idle"]

VARIABLES
  buf,       \* per thread, the events between the start of its buffer and tail
  size,      \* per thread, info->buffer_size; 0: no entry
  bufsize,   \* nod_buffer_size
  stat,      \* g_stat: per CPU, n_evts and n_drop_evts_unsolved
  pending,   \* per CPU, the thread at an increment, the counter and its new value, or <<>>
  tool,      \* the tool's command: the traversal and what it has gathered
  gone,      \* history: events handed over, wiped, or cleared as unsolved,
             \* less those whose count was cleared
  odd,       \* history: what came between two accesses of the tool
  nevents, ntool

vars == <<buf, size, bufsize, stat, pending, tool, gone, odd, nevents, ntool>>

Field == {"n_evts", "n_drop_evts_unsolved"}
Sum(f(_), S) == FoldSet(LAMBDA x, acc : f(x) + acc, 0, S)

Init ==
  /\ buf = [t \in Thread |-> <<>>] /\ size = [t \in Thread |-> 0]
  /\ bufsize = CONFIG_BUFFER_SIZE
  /\ stat = [c \in Cpu |-> [f \in Field |-> 0]] /\ pending = [c \in Cpu |-> <<>>]
  /\ tool = None /\ gone = 0
  /\ odd = {} /\ nevents = 0 /\ ntool = 0

------------------------------------------------------------------------------
(* The recording threads.                                                  *)

(* A buffer changes while the tool is between COUNT and the end of FETCH.  *)
(* "changed" since the tool began to count; "torn" between the test of     *)
(* this very buffer and the last use of its tail.                          *)
Disturbs(t) ==
  odd' = odd \cup (IF tool.op \in {"count", "alloc", "test", "copy", "advance", "write"} THEN {"changed"} ELSE {})
             \cup (IF tool.op \in {"copy", "advance"} /\ Threads[tool.at] = t THEN {"torn"} ELSE {})

(* A thread goes on when its increment is done.                            *)
Free(t) == \A c \in Cpu : pending[c] # <<>> => pending[c][1] # t

(* nod_proc_acquire gives a thread a buffer of the size set at that time.  *)
Acquire(t) ==
  /\ size[t] = 0 /\ Free(t)
  /\ size' = [size EXCEPT ![t] = bufsize] /\ buf' = [buf EXCEPT ![t] = <<>>]
  /\ UNCHANGED <<bufsize, stat, pending, tool, gone, odd, nevents, ntool>>

(* An increment loads a counter of the CPU it runs on ... *)
Load(t, c, f, by) ==
  /\ pending[c] = <<>>
  /\ pending' = [pending EXCEPT ![c] = <<t, f, stat[c][f] + by>>]

(* ... and stores it.                                                      *)
Store(c) ==
  /\ pending[c] # <<>>
  /\ stat' = [stat EXCEPT ![c][pending[c][2]] = pending[c][3]]
  /\ pending' = [pending EXCEPT ![c] = <<>>]
  /\ UNCHANGED <<buf, size, bufsize, tool, gone, odd, nevents, ntool>>

(* The commit of an event: tail and nevents, then n_evts.                  *)
Record(t, c) ==
  /\ size[t] > 0 /\ Free(t) /\ nevents < MaxEvent
  /\ nevents' = nevents + 1
  /\ buf' = [buf EXCEPT ![t] = Append(@, nevents')]
  /\ Load(t, c, "n_evts", 1) /\ Disturbs(t)
  /\ UNCHANGED <<size, bufsize, stat, tool, gone, ntool>>

(* The monitor has handed the events over and resets the buffer.           *)
Drain(t) ==
  /\ buf[t] # <<>> /\ Free(t)
  /\ gone' = gone + Len(buf[t])
  /\ buf' = [buf EXCEPT ![t] = <<>>]
  /\ Disturbs(t)
  /\ UNCHANGED <<size, bufsize, stat, pending, tool, nevents, ntool>>

(* Faulty: a release that does not count what is left.                     *)
ReleasedUncounted(t, c) == Load(t, c, "n_drop_evts_unsolved", 0)

(* nod_proc_release: what is left in the buffer counts as unsolved.        *)
(* synchronize_rcu keeps the entry until a traversal has passed it.        *)
Released(t, c) == Load(t, c, "n_drop_evts_unsolved", Len(buf[t]))

Exit(t, c) ==
  /\ size[t] > 0 /\ Free(t) /\ ~(tool.op \in {"copy", "advance"} /\ Threads[tool.at] = t)
  /\ Released(t, c)
  /\ size' = [size EXCEPT ![t] = 0] /\ buf' = [buf EXCEPT ![t] = <<>>]
  /\ Disturbs(t)
  /\ UNCHANGED <<bufsize, stat, tool, gone, nevents, ntool>>

------------------------------------------------------------------------------
(* The tool.  A traversal stops at each entry in turn.                     *)
Idle == tool.op = "idle" /\ ntool < MaxTool /\ ntool' = ntool + 1

(* The entry after position i, or one more than there are.                 *)
Following(i) == Min({j \in i + 1 .. Len(Threads) : size[Threads[j]] > 0} \cup {Len(Threads) + 1})

(* nodrop-ctl fetch: first the count ...                                   *)
Count ==
  /\ Idle
  /\ tool' = [op |-> "count", at |-> Following(0), len |-> 0]
  /\ UNCHANGED <<buf, size, bufsize, stat, pending, gone, odd, nevents>>

(* __proc_bufcount_read                                                    *)
CountOne ==
  /\ tool.op = "count"
  /\ tool' = IF tool.at > Len(Threads) THEN [tool EXCEPT !.op = "alloc"]
             ELSE [tool EXCEPT !.len = @ + Len(buf[Threads[tool.at]]), !.at = Following(@)]
  /\ UNCHANGED <<buf, size, bufsize, stat, pending, gone, odd, nevents, ntool>>

(* ... then room for that much, and FETCH into it.                         *)
Fetch ==
  /\ tool.op = "alloc"
  /\ tool' = [op |-> "test", at |-> Following(0), len |-> tool.len, out |-> <<>>, ptr |-> 0]
  /\ UNCHANGED <<buf, size, bufsize, stat, pending, gone, odd, nevents, ntool>>

(* Faulty: a test that forgets what has been copied already.               *)
FitsAlone(tail, w) == tail <= w.len

(* __proc_buf_copy, the test: does this buffer fit behind what is there?   *)
Fits(tail, w) == w.ptr + tail <= w.len

(* FETCH puts its structure, with the length in it, behind the data; the   *)
(* tool's own copy of the structure does not change, and it writes to the  *)
(* file the length it asked for, however much it was given.                *)
Written(w) ==
  [i \in 1 .. w.len |-> IF i \in w.ptr + 1 .. w.ptr + FetchSize THEN Trailer
                        ELSE IF i <= Len(w.out) THEN w.out[i] ELSE Junk]

CopyTest ==
  /\ tool.op = "test"
  /\ IF tool.at <= Len(Threads) /\ Fits(Len(buf[Threads[tool.at]]), tool)
     THEN tool' = [tool EXCEPT !.op = "copy"]
     ELSE tool' = [op |-> "write", at |-> 0, data |-> Written(tool)]
  /\ UNCHANGED <<buf, size, bufsize, stat, pending, gone, odd, nevents, ntool>>

(* The copy, of the tail as it is now, to ptr.                             *)
CopyOut ==
  /\ tool.op = "copy"
  /\ LET b == buf[Threads[tool.at]]
         n == Max({Len(tool.out), tool.ptr + Len(b)})
     IN tool' = [tool EXCEPT !.op = "advance",
                   !.out = [i \in 1 .. n |-> IF i \in tool.ptr + 1 .. tool.ptr + Len(b) THEN b[i - tool.ptr]
                                             ELSE IF i <= Len(tool.out) THEN tool.out[i] ELSE Junk]]
  /\ UNCHANGED <<buf, size, bufsize, stat, pending, gone, odd, nevents, ntool>>

(* Faulty: each buffer is copied over the one before.                      *)
AdvanceInPlace ==
  /\ tool.op = "advance"
  /\ tool' = [tool EXCEPT !.op = "test", !.at = Following(@)]
  /\ UNCHANGED <<buf, size, bufsize, stat, pending, gone, odd, nevents, ntool>>

(* ptr and count advance by the tail as it is by then.                     *)
Advance ==
  /\ tool.op = "advance"
  /\ tool' = [tool EXCEPT !.op = "test", !.ptr = @ + Len(buf[Threads[tool.at]]), !.at = Following(@)]
  /\ UNCHANGED <<buf, size, bufsize, stat, pending, gone, odd, nevents, ntool>>

(* fwrite                                                                  *)
Write ==
  /\ tool.op = "write"
  /\ tool' = None /\ odd' = odd \ {"changed", "torn"}
  /\ UNCHANGED <<buf, size, bufsize, stat, pending, gone, nevents, ntool>>

(* NOD_IOCTL_CLEAR_BUFFER, entry by entry.                                 *)
ClearBuffer ==
  /\ Idle
  /\ tool' = [op |-> "clear", at |-> Following(0)]
  /\ UNCHANGED <<buf, size, bufsize, stat, pending, gone, odd, nevents>>

ClearOne ==
  /\ tool.op = "clear"
  /\ IF tool.at > Len(Threads) THEN tool' = None /\ UNCHANGED <<buf, gone>>
     ELSE LET t == Threads[tool.at] IN
          /\ tool' = [tool EXCEPT !.at = Following(@)]
          /\ gone' = gone + Len(buf[t])
          /\ buf' = [buf EXCEPT ![t] = <<>>]
  /\ UNCHANGED <<size, bufsize, stat, pending, odd, nevents, ntool>>

(* NOD_IOCTL_CLEAR_STATISTICS, CPU by CPU.  "raced": an increment on that  *)
(* CPU has loaded a counter and will store it over the zero.               *)
ClearStatistics ==
  /\ Idle
  /\ tool' = [op |-> "clear_stat", at |-> 1]
  /\ UNCHANGED <<buf, size, bufsize, stat, pending, gone, odd, nevents>>

ClearCpu ==
  /\ tool.op = "clear_stat"
  /\ LET c == tool.at IN
     IF c \notin Cpu THEN tool' = None /\ UNCHANGED <<stat, gone, odd>>
     ELSE /\ tool' = [tool EXCEPT !.at = @ + 1]
          /\ gone' = gone + stat[c]["n_drop_evts_unsolved"] - stat[c]["n_evts"]
          /\ stat' = [stat EXCEPT ![c] = [f \in Field |-> 0]]
          /\ odd' = IF pending[c] = <<>> THEN odd ELSE odd \cup {"raced"}
  /\ UNCHANGED <<buf, size, bufsize, pending, nevents, ntool>>

(* NOD_IOCTL_SET_BUFFER_SIZE: for the buffers allocated from now on.       *)
SetBufferSize(n) ==
  /\ Idle
  /\ bufsize' = IF n < PageSize \/ n % PageSize # 0 THEN bufsize ELSE n
  /\ UNCHANGED <<buf, size, stat, pending, tool, gone, odd, nevents>>

(* Faulty: the length is compared with the size set last.                  *)
MmapGlobal(t, length) ==
  IF length <= PageSize THEN "info" ELSE IF length = bufsize THEN "buffer" ELSE "EIO"

(* What nod_dev_mmap maps for a length that is a whole number of pages.    *)
Mmap(t, length) ==
  IF length <= PageSize THEN "info" ELSE IF length = size[t] THEN "buffer" ELSE "EIO"

ToolStep == CountOne \/ Fetch \/ CopyTest \/ CopyOut \/ Advance \/ Write \/ ClearOne \/ ClearCpu

Next ==
  \/ \E t \in Thread : Acquire(t) \/ Drain(t) \/ \E c \in Cpu : Record(t, c) \/ Exit(t, c)
  \/ \E c \in Cpu : Store(c)
  \/ Count \/ ClearBuffer \/ ClearStatistics \/ \E n \in Sizes : SetBufferSize(n)
  \/ ToolStep

Spec == Init /\ [][Next]_vars

ASSUME ControlAssumption ==
  /\ PageSize \in Nat \ {0} /\ CONFIG_BUFFER_SIZE >= PageSize /\ CONFIG_BUFFER_SIZE % PageSize = 0
  /\ Cpu = 1 .. Cardinality(Cpu) /\ IsInjective(Threads)

------------------------------------------------------------------------------
(* FETCH never copies events past the length the tool allocated, however   *)
(* much was recorded after COUNT, as long as the buffer at hand does not   *)
(* change between the test of __proc_buf_copy and the copy (tail is read   *)
(* again for each).                                                        *)
FetchWithin == tool.op = "advance" /\ "torn" \notin odd => Len(tool.out) <= tool.len

(* If no buffer changed from the first count to the end of the fetch, the  *)
(* file holds the events of all buffers, each once and in recording order, *)
(* and nothing else.                                                       *)
FileIsSnapshot ==
  tool.op = "write" /\ "changed" \notin odd =>
    tool.data = FlattenSeq([i \in DOMAIN Threads |-> buf[Threads[i]]])

(* The counters of all CPUs add up: what was counted as recorded has been  *)
(* handed over, wiped by CLEAR_BUFFER, counted as unsolved when its thread *)
(* exited, or is in a buffer, whichever CPU each step ran on and whatever  *)
(* CLEAR_STATISTICS took away between increments.                          *)
StatsAddUp ==
  (\A c \in Cpu : pending[c] = <<>>) /\ "raced" \notin odd =>
    LET counted(f) == Sum(LAMBDA c : stat[c][f], Cpu)
    IN counted("n_evts") = counted("n_drop_evts_unsolved") + gone + Sum(LAMBDA t : Len(buf[t]), Thread)

(* The monitor of a thread can map the buffer by the size its info page    *)
(* shows, whatever SET_BUFFER_SIZE has set since, if that is more than a   *)
(* page: a buffer of one page is taken for the info page.                  *)
MapsItsBuffer == \A t \in Thread : size[t] > PageSize => Mmap(t, size[t]) = "buffer"

(* nodrop-ctl's "Write %lu bytes to file": the bytes are those of events.  *)
FileIsEvents == tool.op = "write" => \A i \in DOMAIN tool.data : tool.data[i] > 0
==============================================================================
