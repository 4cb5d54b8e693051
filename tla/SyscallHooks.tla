----------------------------- MODULE SyscallHooks -----------------------------
(***************************************************************************)
(* Starting and stopping the tracing (kmodule/trace.c): the START and STOP *)
(* ioctls register the two tracepoint probes and patch the system-call     *)
(* table, store by store and without a lock, while threads go through the  *)
(* table and through hook_general.                                         *)
(*                                                                         *)
(* What a filter looks at is left out: it lets the call go on or answers   *)
(* it itself.  Calling a null pointer ends the thread in "oops", a failed  *)
(* ASSERT (BUG_ON) in "bug".                                               *)
(***************************************************************************)
EXTENDS Naturals, Sequences, Functions

CONSTANTS
  Ctl,             \* control processes, each with the device open
  Thread,          \* traced threads
  HookOrder,       \* the system calls hooked, in the order they are hooked
  RegisterFaults,  \* may the registration of a probe fail?
  Serial,          \* does a control process wait for the others to be done?
  MaxIoctl,        \* bound on the number of START and STOP ioctls
  MaxCall          \* bound on the number of system calls

VARIABLES
  registered,      \* tracepoint_registered
  probes,          \* the probes the kernel will call
  table,           \* syscall_table[id]: "orig", "hook" or "null"
  filters,         \* syscall_filters[id]: hooked, filter, oldsyscall
  ctl,             \* where each ioctl is: step, and index into HookOrder
  call,            \* where each system call is
  ioctls, calls    \* how many of each so far

vars == <<registered, probes, table, filters, ctl, call, ioctls, calls>>

Id == Range(HookOrder)
LastHook == Len(HookOrder)
Probe == {"sys_exit", "sched_process_exit"}
Pointer == {"orig", "hook", "null"}

StartStep == {"reg_exit", "reg_sched", "hook_test", "hook_mark", "hook_save",
              "hook_patch", "hook_filter", "start_done"}
StopStep == {"unhook_test", "unhook_patch", "unhook_mark", "unhook_forget",
             "unreg_exit", "unreg_sched", "stop_done"}
CallStep == {"user", "hooked", "filter", "old", "native", "bug", "oops"}

Idle == [step |-> "idle", i |-> 1]
NoCall == [step |-> "user", id |-> HookOrder[1], through |-> FALSE,
           on |-> FALSE, alone |-> TRUE]

(* No START or STOP is in progress.                                        *)
Quiet == \A c \in Ctl : ctl[c] = Idle

Unhooked == [hooked |-> FALSE, filter |-> FALSE, old |-> "null"]

(* A call in progress is now overlapped by an ioctl.                       *)
Overlapped(k) == IF k = NoCall THEN k ELSE [k EXCEPT !.alone = FALSE]

At(c, step) == ctl[c].step = step
Go(c, step) == ctl' = [ctl EXCEPT ![c].step = step]
This(c) == HookOrder[ctl[c].i]
Set(c, field, v) == filters' = [filters EXCEPT ![This(c)][field] = v]

Init ==
  /\ registered = FALSE /\ probes = {}
  /\ table = [id \in Id |-> "orig"]
  /\ filters = [id \in Id |-> Unhooked]
  /\ ctl = [c \in Ctl |-> Idle]
  /\ call = [t \in Thread |-> NoCall]
  /\ ioctls = 0 /\ calls = 0

------------------------------------------------------------------------------
(* Faulty variants of some operations below, each with a plausible slip;   *)
(* they are no part of the specification.                                  *)
RegSchedKeepsProbe(c) ==
  /\ At(c, "reg_sched")
  /\ \/ probes' = probes \cup {"sched_process_exit"} /\ Go(c, "hook_test")
     \/ RegisterFaults /\ ctl' = [ctl EXCEPT ![c] = Idle] /\ UNCHANGED probes
  /\ UNCHANGED <<registered, table, filters, call, ioctls, calls>>

NextUnhookSkipsLast(c) ==
  ctl' = [ctl EXCEPT ![c] = IF ctl[c].i + 1 >= LastHook THEN [step |-> "unreg_exit", i |-> 1]
                            ELSE [step |-> "unhook_test", i |-> ctl[c].i + 1]]

------------------------------------------------------------------------------
(* trace_syscall.  Every step of it is one access to shared state.         *)
Start(c) ==
  /\ ctl[c] = Idle /\ (Serial => Quiet)
  /\ ioctls < MaxIoctl /\ ioctls' = ioctls + 1
  /\ \/ registered /\ UNCHANGED <<ctl, call>>
     \/ /\ ~registered /\ Go(c, "reg_exit")
        /\ call' = [t \in Thread |-> Overlapped(call[t])]
  /\ UNCHANGED <<registered, probes, table, filters, calls>>

(* The kernel refuses to register a probe twice.                           *)
RegExit(c) ==
  /\ At(c, "reg_exit")
  /\ \/ /\ "sys_exit" \notin probes
        /\ probes' = probes \cup {"sys_exit"} /\ Go(c, "reg_sched")
     \/ /\ "sys_exit" \in probes \/ RegisterFaults
        /\ ctl' = [ctl EXCEPT ![c] = Idle] /\ UNCHANGED probes
  /\ UNCHANGED <<registered, table, filters, call, ioctls, calls>>

(* On failure the first probe is taken back.                               *)
RegSched(c) ==
  /\ At(c, "reg_sched")
  /\ \/ /\ "sched_process_exit" \notin probes
        /\ probes' = probes \cup {"sched_process_exit"} /\ Go(c, "hook_test")
     \/ /\ "sched_process_exit" \in probes \/ RegisterFaults
        /\ probes' = probes \ {"sys_exit"}
        /\ ctl' = [ctl EXCEPT ![c] = Idle]
  /\ UNCHANGED <<registered, table, filters, call, ioctls, calls>>

(* hook_syscall, for each id in turn.                                      *)
HookTest(c) ==
  /\ At(c, "hook_test")
  /\ Go(c, IF filters[This(c)].hooked THEN "hook_filter" ELSE "hook_mark")
  /\ UNCHANGED <<registered, probes, table, filters, call, ioctls, calls>>

HookMark(c) ==
  /\ At(c, "hook_mark")
  /\ Set(c, "hooked", TRUE) /\ Go(c, "hook_save")
  /\ UNCHANGED <<registered, probes, table, call, ioctls, calls>>

HookSave(c) ==
  /\ At(c, "hook_save")
  /\ Set(c, "old", table[This(c)]) /\ Go(c, "hook_patch")
  /\ UNCHANGED <<registered, probes, table, call, ioctls, calls>>

HookPatch(c) ==
  /\ At(c, "hook_patch")
  /\ table' = [table EXCEPT ![This(c)] = "hook"] /\ Go(c, "hook_filter")
  /\ UNCHANGED <<registered, probes, filters, call, ioctls, calls>>

HookFilter(c) ==
  /\ At(c, "hook_filter")
  /\ Set(c, "filter", TRUE)
  /\ ctl' = [ctl EXCEPT ![c] = IF ctl[c].i = LastHook THEN [step |-> "start_done", i |-> 1]
                               ELSE [step |-> "hook_test", i |-> ctl[c].i + 1]]
  /\ UNCHANGED <<registered, probes, table, call, ioctls, calls>>

StartDone(c) ==
  /\ At(c, "start_done")
  /\ registered' = TRUE
  /\ ctl' = [ctl EXCEPT ![c] = Idle]
  /\ UNCHANGED <<probes, table, filters, call, ioctls, calls>>

------------------------------------------------------------------------------
(* untrace_syscall.                                                        *)
Stop(c) ==
  /\ ctl[c] = Idle /\ (Serial => Quiet)
  /\ ioctls < MaxIoctl /\ ioctls' = ioctls + 1
  /\ \/ ~registered /\ UNCHANGED <<ctl, call>>
     \/ /\ registered /\ Go(c, "unhook_test")
        /\ call' = [t \in Thread |-> Overlapped(call[t])]
  /\ UNCHANGED <<registered, probes, table, filters, calls>>

(* After the last id come the probes.                                      *)
NextUnhook(c) ==
  ctl' = [ctl EXCEPT ![c] = IF ctl[c].i = LastHook THEN [step |-> "unreg_exit", i |-> 1]
                            ELSE [step |-> "unhook_test", i |-> ctl[c].i + 1]]

(* unhook_syscall, for each id in turn.                                    *)
UnhookTest(c) ==
  /\ At(c, "unhook_test")
  /\ IF filters[This(c)].hooked THEN Go(c, "unhook_patch") ELSE NextUnhook(c)
  /\ UNCHANGED <<registered, probes, table, filters, call, ioctls, calls>>

UnhookPatch(c) ==
  /\ At(c, "unhook_patch")
  /\ table' = [table EXCEPT ![This(c)] = filters[This(c)].old]
  /\ Go(c, "unhook_mark")
  /\ UNCHANGED <<registered, probes, filters, call, ioctls, calls>>

UnhookMark(c) ==
  /\ At(c, "unhook_mark")
  /\ Set(c, "hooked", FALSE) /\ Go(c, "unhook_forget")
  /\ UNCHANGED <<registered, probes, table, call, ioctls, calls>>

UnhookForget(c) ==
  /\ At(c, "unhook_forget")
  /\ Set(c, "old", "null") /\ NextUnhook(c)
  /\ UNCHANGED <<registered, probes, table, call, ioctls, calls>>

(* Unregistering a probe that is not registered changes nothing.           *)
UnregExit(c) ==
  /\ At(c, "unreg_exit")
  /\ probes' = probes \ {"sys_exit"} /\ Go(c, "unreg_sched")
  /\ UNCHANGED <<registered, table, filters, call, ioctls, calls>>

UnregSched(c) ==
  /\ At(c, "unreg_sched")
  /\ probes' = probes \ {"sched_process_exit"} /\ Go(c, "stop_done")
  /\ UNCHANGED <<registered, table, filters, call, ioctls, calls>>

StopDone(c) ==
  /\ At(c, "stop_done")
  /\ registered' = FALSE
  /\ ctl' = [ctl EXCEPT ![c] = Idle]
  /\ UNCHANGED <<probes, table, filters, call, ioctls, calls>>

------------------------------------------------------------------------------
(* A system call: the entry code jumps to where the table points.          *)
Enter(t, id) ==
  /\ call[t].step = "user" /\ calls < MaxCall /\ calls' = calls + 1
  /\ call' = [call EXCEPT ![t] =
                [step |-> CASE table[id] = "orig" -> "native"
                            [] table[id] = "hook" -> "hooked"
                            [] table[id] = "null" -> "oops",
                 id |-> id, through |-> FALSE, on |-> registered, alone |-> Quiet]]
  /\ UNCHANGED <<registered, probes, table, filters, ctl, ioctls>>

To(t, step) == call' = [call EXCEPT ![t].step = step]

(* hook_general: ASSERT(1 == hooked), a BUG_ON.                            *)
AssertHooked(t) ==
  /\ call[t].step = "hooked"
  /\ To(t, IF filters[call[t].id].hooked THEN "filter" ELSE "bug")
  /\ UNCHANGED <<registered, probes, table, filters, ctl, ioctls, calls>>

(* A kernel thread, or a user who is not traced, skips the filter.         *)
SkipFilter(t) ==
  /\ call[t].step = "hooked"
  /\ call' = [call EXCEPT ![t].step = "old", ![t].through = TRUE]
  /\ UNCHANGED <<registered, probes, table, filters, ctl, ioctls, calls>>

(* The filter answers the call, or lets it go on.                          *)
Filter(t) ==
  /\ call[t].step = "filter"
  /\ IF filters[call[t].id].filter
     THEN \/ call' = [call EXCEPT ![t] = NoCall]
          \/ call' = [call EXCEPT ![t].step = "old", ![t].through = TRUE]
     ELSE To(t, "oops")
  /\ UNCHANGED <<registered, probes, table, filters, ctl, ioctls, calls>>

(* The original handler, found through oldsyscall: hook_general calls      *)
(* itself if that is the hook again.                                       *)
CallOld(t) ==
  /\ call[t].step = "old"
  /\ To(t, CASE filters[call[t].id].old = "orig" -> "native"
             [] filters[call[t].id].old = "hook" -> "hooked"
             [] filters[call[t].id].old = "null" -> "oops")
  /\ UNCHANGED <<registered, probes, table, filters, ctl, ioctls, calls>>

Leave(t) ==
  /\ call[t].step = "native"
  /\ call' = [call EXCEPT ![t] = NoCall]
  /\ UNCHANGED <<registered, probes, table, filters, ctl, ioctls, calls>>

Control(c) ==
  \/ Start(c) \/ RegExit(c) \/ RegSched(c) \/ HookTest(c) \/ HookMark(c)
  \/ HookSave(c) \/ HookPatch(c) \/ HookFilter(c) \/ StartDone(c)
  \/ Stop(c) \/ UnhookTest(c) \/ UnhookPatch(c) \/ UnhookMark(c)
  \/ UnhookForget(c) \/ UnregExit(c) \/ UnregSched(c) \/ StopDone(c)

System(t) ==
  \/ \E id \in Id : Enter(t, id)
  \/ AssertHooked(t) \/ SkipFilter(t) \/ Filter(t) \/ CallOld(t) \/ Leave(t)

Next == (\E c \in Ctl : Control(c)) \/ (\E t \in Thread : System(t))

Spec == Init /\ [][Next]_vars

------------------------------------------------------------------------------
ASSUME HooksAssumption ==
  /\ HookOrder \in Seq(STRING) /\ HookOrder # << >>
  /\ \A i, j \in DOMAIN HookOrder : HookOrder[i] = HookOrder[j] => i = j
  /\ RegisterFaults \in BOOLEAN /\ Serial \in BOOLEAN
  /\ MaxIoctl \in Nat /\ MaxCall \in Nat

(* Every step of an ioctl and of a system call is a known one, and the     *)
(* table and the saved handlers hold known pointers.                       *)
TypeOK ==
  /\ registered \in BOOLEAN /\ probes \subseteq Probe
  /\ table \in [Id -> Pointer]
  /\ filters \in [Id -> [hooked : BOOLEAN, filter : BOOLEAN, old : Pointer]]
  /\ ctl \in [Ctl -> [step : {"idle"} \cup StartStep \cup StopStep, i : 1 .. LastHook]]
  /\ call \in [Thread -> [step : CallStep, id : Id, through : BOOLEAN,
                          on : BOOLEAN, alone : BOOLEAN]]
  /\ ioctls \in 0 .. MaxIoctl /\ calls \in 0 .. MaxCall

(* Between two ioctls the tracing is on or off as a whole: on, both probes *)
(* are registered and every entry of the table leads through the hook and  *)
(* a filter to the original handler; off, no probe is left and the table   *)
(* is as the kernel made it (trace_syscall, untrace_syscall, also when a   *)
(* registration failed).                                                   *)
OnOrOff ==
  Quiet =>
    \/ /\ registered /\ probes = Probe
       /\ \A id \in Id : /\ table[id] = "hook"
                         /\ filters[id] = [hooked |-> TRUE, filter |-> TRUE, old |-> "orig"]
    \/ /\ ~registered /\ probes = {}
       /\ \A id \in Id : table[id] = "orig" /\ ~filters[id].hooked

(* A system call that no START or STOP overlaps goes through hook_general  *)
(* without harm, and it reaches the original handler by way of the hook if *)
(* and only if the tracing was on.                                         *)
CallsGoThrough ==
  \A t \in Thread : call[t].alone =>
    /\ call[t].step \notin {"bug", "oops"}
    /\ call[t].step = "native" => call[t].through = call[t].on

(* ASSERT(1 == syscall_filters[id].hooked) of hook_general never fails.    *)
HookedAsserted == \A t \in Thread : call[t].step # "bug"

(* `proc: Stop recording': when the ioctls are done and recording is       *)
(* stopped, the table is as the kernel made it.                            *)
StoppedIsOriginal ==
  Quiet /\ ~registered => \A id \in Id : table[id] = "orig"
==============================================================================
