----------------------------- MODULE ThreadSwitch -----------------------------
(***************************************************************************)
(* The switch of a thread into the monitor and back (kmodule/trace.c,      *)
(* loader.c, privil.c, procinfo.c, proc.c and monitor/src/startup.c): the  *)
(* threads of one process, the status of each, the registers and the       *)
(* security attributes that are saved when a thread is sent to the monitor *)
(* and given back when it leaves, while recording is started and stopped.  *)
(*                                                                         *)
(* Signal mask, seccomp mode and clear_child_tid are a thread's own; the   *)
(* capabilities (struct cred), the resource limits and the root directory  *)
(* are shared by the threads.  Each kind is one attribute here, whose      *)
(* value is one the application gave it or the monitor's.                  *)
(***************************************************************************)
EXTENDS Naturals, Sequences

CONSTANTS
  Thread,      \* the threads of the process
  AppValue,    \* values the application gives to an attribute
  Stops,       \* when may STOP take a probe away: "quiet" or "any"
  OpenFaults,  \* may the monitor fail to open the device?
  MaxCall,     \* bound on the number of system calls of the application
  MaxCtl       \* bound on the number of STARTs and STOPs

VARIABLES
  armed,       \* which of the two probes and the hooks are in place
  ctl,         \* the START or STOP in progress, and how far it has come
  loc,         \* where a thread is: in user mode, entering or leaving a call
  regs,        \* whose registers it has in user mode: "app" or "mon"
  mon,         \* how far the monitor has come in this visit
  nr,          \* the system call the thread was in when it was sent there
  own, shared, \* the attributes in force
  status,      \* nod_proc_info.status, "none" without a nod_proc_info
  sec, ctx,    \* nod_proc_info.sec and .ctx
  fd,          \* nod_proc_info.ioctl_fd: the descriptor to be closed
  open,        \* descriptors of the device the process has open
  wantOwn, wantShared, \* history: what the application last asked for
  crossed,     \* history: two visits, or a visit and a change, overlapped
  calls, ctls

kernel == <<status, sec, ctx, fd>>
world == <<armed, ctl, ctls>>
vars == <<armed, ctl, loc, regs, mon, nr, own, shared, status, sec, ctx, fd,
          open, wantOwn, wantShared, crossed, calls, ctls>>

Status == {"none", "OUT", "IN", "RESTORE_CONTEXT"}
Value == AppValue \cup {"mon"}
NoSec == [available |-> 0, own |-> "mon", shared |-> "mon"]
Security == [available : {0, 1}, own : Value, shared : Value]
Context == [available : {0, 1}, regs : {"app", "mon"}]
NoCtx == [available |-> 0, regs |-> "mon"]

StartOrder == <<"sys_exit", "sched_process_exit", "hooks">>
StopOrder == <<"hooks", "sys_exit", "sched_process_exit">>
Probe == {"sys_exit", "sched_process_exit", "hooks"}
Idle == [op |-> "idle", i |-> 1]

Visiting(t) == loc[t] # "dead" /\ regs[t] = "mon"

Init ==
  /\ armed = {} /\ ctl = Idle
  /\ loc = [t \in Thread |-> "user"] /\ regs = [t \in Thread |-> "app"]
  /\ mon = [t \in Thread |-> "start"] /\ nr = [t \in Thread |-> "other"]
  /\ \E v \in AppValue : /\ own = [t \in Thread |-> v] /\ wantOwn = own
                         /\ shared = v /\ wantShared = v
  /\ status = [t \in Thread |-> "none"] /\ fd = [t \in Thread |-> "none"]
  /\ sec = [t \in Thread |-> NoSec] /\ ctx = [t \in Thread |-> NoCtx]
  /\ open = {} /\ crossed = FALSE /\ calls = 0 /\ ctls = 0

------------------------------------------------------------------------------
(* START and STOP put the probes and the hooks in place, and take them     *)
(* away, one after the other (SyscallHooks has every store of this).       *)
Start ==
  /\ ctl = Idle /\ armed = {} /\ ctls < MaxCtl
  /\ ctl' = [op |-> "start", i |-> 1] /\ ctls' = ctls + 1
  /\ UNCHANGED <<armed, loc, regs, mon, nr, own, shared, kernel, open, wantOwn,
                 wantShared, crossed, calls>>

Stop ==
  /\ ctl = Idle /\ armed = Probe /\ ctls < MaxCtl
  /\ ctl' = [op |-> "stop", i |-> 1] /\ ctls' = ctls + 1
  /\ UNCHANGED <<armed, loc, regs, mon, nr, own, shared, kernel, open, wantOwn,
                 wantShared, crossed, calls>>

Advance == ctl' = IF ctl.i = 3 THEN Idle ELSE [op |-> ctl.op, i |-> ctl.i + 1]

Arm ==
  /\ ctl.op = "start" /\ Advance
  /\ armed' = armed \cup {StartOrder[ctl.i]}
  /\ UNCHANGED <<loc, regs, mon, nr, own, shared, kernel, open, wantOwn,
                 wantShared, crossed, calls, ctls>>

Disarm ==
  /\ ctl.op = "stop" /\ Advance
  /\ Stops = "quiet" => \A t \in Thread : ~Visiting(t)
  /\ armed' = armed \ {StopOrder[ctl.i]}
  /\ UNCHANGED <<loc, regs, mon, nr, own, shared, kernel, open, wantOwn,
                 wantShared, crossed, calls, ctls>>

------------------------------------------------------------------------------
(* The application makes a system call that may change an attribute of the *)
(* thread (sigprocmask, set_tid_address, ...) or of the process (setrlimit,*)
(* chroot, ...), or that ends the thread.                                  *)
Call(t) ==
  /\ loc[t] = "user" /\ regs[t] = "app" /\ calls < MaxCall
  /\ calls' = calls + 1
  /\ nr' = [nr EXCEPT ![t] = "other"]
  /\ loc' = [loc EXCEPT ![t] = "leaving"]
  /\ \/ UNCHANGED <<own, wantOwn, shared, wantShared, crossed>>
     \/ \E v \in AppValue : /\ own' = [own EXCEPT ![t] = v]
                            /\ wantOwn' = [wantOwn EXCEPT ![t] = v]
                            /\ UNCHANGED <<shared, wantShared, crossed>>
     \/ \E v \in AppValue : /\ shared' = v /\ wantShared' = v
                            /\ crossed' = (crossed \/ \E u \in Thread : Visiting(u))
                            /\ UNCHANGED <<own, wantOwn>>
  /\ UNCHANGED <<world, regs, mon, kernel, open>>

CallExit(t) ==
  /\ loc[t] = "user" /\ regs[t] = "app" /\ calls < MaxCall
  /\ calls' = calls + 1
  /\ nr' = [nr EXCEPT ![t] = "exit"]
  /\ loc' = [loc EXCEPT ![t] = "entering"]
  /\ UNCHANGED <<world, regs, mon, own, shared, kernel, open, wantOwn,
                 wantShared, crossed>>

------------------------------------------------------------------------------
(* Faulty variants of some operations below, each with a plausible slip;   *)
(* they are no part of the specification.                                  *)
SavedAfterRaising(t) ==
  [available |-> 1, own |-> own[t], shared |-> "mon"]

RestoreSecurityKeepsOwn(t) ==
  /\ open' = IF fd[t] = "device" THEN open \ {t} ELSE open
  /\ own' = own
  /\ shared' = IF sec[t].available = 1 THEN sec[t].shared ELSE shared
  /\ sec' = [sec EXCEPT ![t].available = 0]
  /\ fd' = [fd EXCEPT ![t] = "none"]

RestoreContextStaysIn(t) ==
  /\ regs' = IF ctx[t].available = 1 THEN [regs EXCEPT ![t] = ctx[t].regs] ELSE regs
  /\ ctx' = [ctx EXCEPT ![t].available = 0]
  /\ UNCHANGED status

RestoreRequestForgotten(t) ==
  /\ UNCHANGED status
  /\ fd' = [fd EXCEPT ![t] = "device"]

ExitFilterInUnrestored(t) ==
  /\ status[t] = "IN"
  /\ loc' = [loc EXCEPT ![t] = "dead"]
  /\ status' = [status EXCEPT ![t] = "none"]
  /\ UNCHANGED <<regs, mon, own, shared, sec, ctx, fd, open, crossed>>

------------------------------------------------------------------------------
(* nod_prepare_security: what is saved; the monitor's values are put in    *)
(* force.  Its own clear_child_tid the monitor sets when it starts.        *)
Saved(t) == [available |-> 1, own |-> own[t], shared |-> shared]

(* nod_load_monitor, where it succeeds: the status, then the attributes,   *)
(* then the registers.                                                     *)
Switch(t) ==
  /\ status' = [status EXCEPT ![t] = "IN"] /\ fd' = [fd EXCEPT ![t] = "none"]
  /\ sec' = [sec EXCEPT ![t] = Saved(t)]
  /\ own' = [own EXCEPT ![t] = "mon"] /\ shared' = "mon"
  /\ ctx' = [ctx EXCEPT ![t] = [available |-> 1, regs |-> regs[t]]]
  /\ regs' = [regs EXCEPT ![t] = "mon"] /\ mon' = [mon EXCEPT ![t] = "start"]
  /\ crossed' = (crossed \/ \E u \in Thread \ {t} : Visiting(u))
  /\ loc' = [loc EXCEPT ![t] = "user"]
  /\ UNCHANGED open

(* nod_restore_security.                                                   *)
RestoreSecurity(t) ==
  /\ open' = IF fd[t] = "device" THEN open \ {t} ELSE open
  /\ own' = IF sec[t].available = 1 THEN [own EXCEPT ![t] = sec[t].own] ELSE own
  /\ shared' = IF sec[t].available = 1 THEN sec[t].shared ELSE shared
  /\ sec' = [sec EXCEPT ![t].available = 0]
  /\ fd' = [fd EXCEPT ![t] = "none"]

(* nod_restore_context and nod_proc_set_out.                               *)
RestoreContext(t) ==
  /\ regs' = IF ctx[t].available = 1 THEN [regs EXCEPT ![t] = ctx[t].regs] ELSE regs
  /\ ctx' = [ctx EXCEPT ![t].available = 0]
  /\ status' = [status EXCEPT ![t] = "OUT"]

(* The thread goes back to user mode without a switch; acquired says       *)
(* whether it has a nod_proc_info (there may be no memory for one).        *)
Stay(t, l, acquired) ==
  /\ status' = [status EXCEPT ![t] = IF acquired THEN "OUT" ELSE @]
  /\ loc' = [loc EXCEPT ![t] = l]
  /\ UNCHANGED <<regs, mon, own, shared, sec, ctx, fd, open, crossed>>

------------------------------------------------------------------------------
(* syscall_exit_probe, by status.                                          *)
ProbeOut(t) ==
  /\ loc[t] = "leaving" /\ "sys_exit" \in armed
  /\ status[t] \in {"none", "OUT"}
  /\ \/ Switch(t)
     \/ Stay(t, "user", TRUE)
     \/ status[t] = "none" /\ Stay(t, "user", FALSE)
  /\ UNCHANGED <<world, nr, wantOwn, wantShared, calls>>

ProbeRestore(t) ==
  /\ loc[t] = "leaving" /\ "sys_exit" \in armed
  /\ status[t] = "RESTORE_CONTEXT"
  /\ RestoreSecurity(t) /\ RestoreContext(t)
  /\ loc' = [loc EXCEPT ![t] = "user"]
  /\ UNCHANGED <<world, mon, nr, wantOwn, wantShared, crossed, calls>>

(* The probe is not there, or the status is NOD_IN: back to user mode.     *)
NoProbe(t) ==
  /\ loc[t] = "leaving" /\ ("sys_exit" \notin armed \/ status[t] = "IN")
  /\ loc' = [loc EXCEPT ![t] = "user"]
  /\ UNCHANGED <<world, regs, mon, nr, own, shared, kernel, open, wantOwn,
                 wantShared, crossed, calls>>

------------------------------------------------------------------------------
(* exit_filter in front of exit and exit_group.  A thread that is sent to  *)
(* the monitor gets -EAGAIN and calls exit again from there; in every      *)
(* other case it dies, and syscall_procexit_probe gives its                *)
(* nod_proc_info back.                                                     *)
Die(t) ==
  /\ loc' = [loc EXCEPT ![t] = "dead"]
  /\ status' = [status EXCEPT ![t] =
                  IF "sched_process_exit" \in armed THEN "none" ELSE @]

ExitFilterOut(t) ==
  /\ status[t] \in {"none", "OUT"}
  /\ \/ Switch(t)
     \/ Die(t) /\ UNCHANGED <<regs, mon, own, shared, sec, ctx, fd, open, crossed>>

ExitFilterIn(t) ==
  /\ status[t] = "IN"
  /\ RestoreSecurity(t) /\ Die(t)
  /\ UNCHANGED <<regs, mon, ctx, crossed>>

(* With any other status exit_filter is a BUG().                           *)
ExitFilter(t) ==
  /\ loc[t] = "entering" /\ "hooks" \in armed
  /\ \/ ExitFilterOut(t) \/ ExitFilterIn(t)
  /\ UNCHANGED <<world, nr, wantOwn, wantShared, calls>>

(* Without the hook the thread just dies.                                  *)
ExitUnhooked(t) ==
  /\ loc[t] = "entering" /\ "hooks" \notin armed
  /\ Die(t)
  /\ UNCHANGED <<world, regs, mon, nr, own, shared, sec, ctx, fd, open, wantOwn,
                 wantShared, crossed, calls>>

------------------------------------------------------------------------------
(* The monitor (nod_start_main): it opens the device, works, and leaves.   *)
InMonitor(t, step) == loc[t] = "user" /\ regs[t] = "mon" /\ mon[t] = step

OpenResult == IF OpenFaults THEN BOOLEAN ELSE {TRUE}

MonitorOpen(t) ==
  /\ InMonitor(t, "start")
  /\ \E ok \in OpenResult :
       /\ open' = IF ok THEN open \cup {t} ELSE open
       /\ mon' = [mon EXCEPT ![t] = IF ok THEN "work" ELSE "out"]
  /\ UNCHANGED <<world, loc, regs, nr, own, shared, kernel, wantOwn, wantShared,
                 crossed, calls>>

MonitorWork(t) ==
  /\ InMonitor(t, "work")
  /\ mon' = [mon EXCEPT ![t] = "out"]
  /\ UNCHANGED <<world, loc, regs, nr, own, shared, kernel, open, wantOwn,
                 wantShared, crossed, calls>>

(* nod_restore_context of the monitor: it calls exit itself if that is     *)
(* what the application called, ...                                        *)
MonitorExit(t) ==
  /\ InMonitor(t, "out") /\ nr[t] = "exit"
  /\ mon' = [mon EXCEPT ![t] = "beyond"]
  /\ loc' = [loc EXCEPT ![t] = "entering"]
  /\ UNCHANGED <<world, regs, nr, own, shared, kernel, open, wantOwn, wantShared,
                 crossed, calls>>

(* What NOD_IOCTL_RESTORE_CONTEXT stores: the status and the descriptor.   *)
RestoreRequest(t) ==
  /\ status' = [status EXCEPT ![t] = "RESTORE_CONTEXT"]
  /\ fd' = [fd EXCEPT ![t] = "device"]

(* ... and else asks the device for its context.  Without a descriptor, or *)
(* when the status is not NOD_IN, the ioctl fails and changes nothing.     *)
MonitorRestore(t) ==
  /\ InMonitor(t, "out") /\ nr[t] = "other"
  /\ mon' = [mon EXCEPT ![t] = "beyond"]
  /\ loc' = [loc EXCEPT ![t] = "leaving"]
  /\ IF t \in open /\ status[t] = "IN" THEN RestoreRequest(t)
                                       ELSE UNCHANGED <<status, fd>>
  /\ UNCHANGED <<world, regs, nr, own, shared, sec, ctx, open, wantOwn, wantShared,
                 crossed, calls>>

Step(t) ==
  \/ ProbeOut(t) \/ ProbeRestore(t) \/ NoProbe(t)
  \/ ExitFilter(t) \/ ExitUnhooked(t)
  \/ MonitorOpen(t) \/ MonitorWork(t) \/ MonitorExit(t) \/ MonitorRestore(t)

Control == Start \/ Stop \/ Arm \/ Disarm

Next == Control \/ \E t \in Thread : Call(t) \/ CallExit(t) \/ Step(t)

Spec == Init /\ [][Next]_vars

(* The kernel and the monitor's code keep running; the application need    *)
(* not make another call.                                                  *)
FairSpec == Spec /\ \A t \in Thread : WF_vars(Step(t))

ASSUME SwitchAssumption ==
  /\ "mon" \notin AppValue /\ AppValue # {}
  /\ Stops \in {"quiet", "any"} /\ OpenFaults \in BOOLEAN
  /\ MaxCall \in Nat /\ MaxCtl \in Nat

------------------------------------------------------------------------------
(* Every part of the state has its type.                                   *)
TypeOK ==
  /\ armed \subseteq Probe /\ ctl \in [op : {"idle", "start", "stop"}, i : 1 .. 3]
  /\ loc \in [Thread -> {"user", "entering", "leaving", "dead"}]
  /\ regs \in [Thread -> {"app", "mon"}]
  /\ mon \in [Thread -> {"start", "work", "out", "beyond"}]
  /\ nr \in [Thread -> {"other", "exit"}]
  /\ own \in [Thread -> Value] /\ shared \in Value
  /\ status \in [Thread -> Status] /\ fd \in [Thread -> {"none", "device"}]
  /\ sec \in [Thread -> Security] /\ ctx \in [Thread -> Context]
  /\ open \subseteq Thread /\ crossed \in BOOLEAN
  /\ wantOwn \in [Thread -> AppValue] /\ wantShared \in AppValue
  /\ calls \in 0 .. MaxCall /\ ctls \in 0 .. MaxCtl

(* Whenever a thread runs the application it has the signal mask, seccomp  *)
(* mode and clear_child_tid the application gave it, however many visits   *)
(* to the monitor, STOPs and STARTs lie behind it (__restore_security).    *)
OwnRestored ==
  \A t \in Thread : loc[t] # "dead" /\ regs[t] = "app" => own[t] = wantOwn[t]

(* So are the shared attributes once no thread is in the monitor, if the   *)
(* visits of two threads never overlapped and none overlapped a change the *)
(* application made.                                                       *)
SharedRestoredAlone ==
  ~crossed /\ (\A t \in Thread : ~Visiting(t)) => shared = wantShared

(* `Downgrade capability', `Restore root path', `Restore resource limit'   *)
(* (privil.c): once no thread is in the monitor, the shared attributes are *)
(* the ones the application asked for.                                     *)
SharedRestored == (\A t \in Thread : ~Visiting(t)) => shared = wantShared

(* clear_child_tid `may be modified by monitor so it should be saved and   *)
(* restored when exit the monitor' (privil.c): a thread that dies has its  *)
(* own attributes back, so that the kernel wakes who joins it.             *)
DiesAsItself ==
  \A t \in Thread : loc[t] = "dead" => own[t] = wantOwn[t]

(* The status tells on which side a thread is: system calls of the monitor *)
(* are never recorded, those of the application are never taken for the    *)
(* monitor's, and exit_filter never meets a status it has no case for.     *)
StatusTellsSide ==
  \A t \in Thread : loc[t] # "dead" =>
    /\ regs[t] = "app" => status[t] \in {"none", "OUT"}
    /\ regs[t] = "mon" => \/ status[t] = "IN"
                          \/ status[t] = "RESTORE_CONTEXT" /\ loc[t] = "leaving"

(* No thread runs the application while the descriptor of its visit to the *)
(* monitor is open (nod_restore_security closes it).                       *)
DescriptorClosed ==
  \A t \in Thread : loc[t] # "dead" /\ regs[t] = "app" => t \notin open

(* `NOT REACHABLE' (startup.c): no thread executes what stands behind the  *)
(* call with which the monitor leaves.                                     *)
NotReached == \A t \in Thread : ~InMonitor(t, "beyond")

(* Every visit to the monitor ends: the thread runs the application again, *)
(* or it has died of the exit it had called.                               *)
VisitEnds == \A t \in Thread : Visiting(t) ~> ~Visiting(t)
==============================================================================
