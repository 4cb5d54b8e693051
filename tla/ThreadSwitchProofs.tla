-------------------------- MODULE ThreadSwitchProofs --------------------------
(***************************************************************************)
(* Proofs about ThreadSwitch for any set of threads, any values of the     *)
(* attributes and any bounds.                                              *)
(***************************************************************************)
EXTENDS ThreadSwitch, TLAPS

(* What holds of one thread: on the side of the application it has its     *)
(* own attributes and nothing is left of a visit; on the side of the       *)
(* monitor everything that is to be given back is saved, and a descriptor  *)
(* is noted for closing as soon as the restore has been asked for.         *)
AppSide(t) ==
  /\ own[t] = wantOwn[t] /\ t \notin open
  /\ status[t] \in {"none", "OUT"} /\ fd[t] = "none"

MonSide(t) ==
  /\ own[t] = "mon" /\ status[t] \in {"IN", "RESTORE_CONTEXT"}
  /\ sec[t].available = 1 /\ sec[t].own = wantOwn[t]
  /\ ctx[t].available = 1 /\ ctx[t].regs = "app"
  /\ status[t] = "RESTORE_CONTEXT" => fd[t] = "device"

ThreadOK(t) ==
  loc[t] # "dead" => /\ regs[t] = "app" => AppSide(t)
                     /\ regs[t] = "mon" => MonSide(t)

IInv == TypeOK /\ \A t \in Thread : ThreadOK(t)

(* A step leaves everything ThreadOK says about thread u alone.            *)
Untouched(u) ==
  /\ loc'[u] = loc[u] /\ regs'[u] = regs[u] /\ own'[u] = own[u]
  /\ wantOwn'[u] = wantOwn[u] /\ status'[u] = status[u] /\ fd'[u] = fd[u]
  /\ sec'[u] = sec[u] /\ ctx'[u] = ctx[u]
  /\ (u \in open') = (u \in open)

(* ThreadOK of a thread survives a step that does not touch it.            *)
LEMMA UntouchedOK ==
  ASSUME NEW u \in Thread, ThreadOK(u), Untouched(u)
  PROVE  ThreadOK(u)'
BY DEF ThreadOK, AppSide, MonSide, Untouched

(* Steps of a thread touch no other thread (every operation of the kernel  *)
(* path works on current and its nod_proc_info only).                      *)
LEMMA OthersUntouched ==
  ASSUME TypeOK, NEW t \in Thread, NEW u \in Thread, u # t,
         Call(t) \/ CallExit(t) \/ Step(t)
  PROVE  Untouched(u)
<1>1. CASE Call(t)
  BY <1>1 DEF Call, TypeOK, Untouched, kernel, world
<1>2. CASE CallExit(t)
  BY <1>2 DEF CallExit, TypeOK, Untouched, kernel, world
<1>3. CASE ProbeOut(t)
  BY <1>3 DEF ProbeOut, Switch, Stay, Saved, TypeOK, Untouched, kernel, world
<1>4. CASE ProbeRestore(t)
  BY <1>4 DEF ProbeRestore, RestoreSecurity, RestoreContext, TypeOK, Untouched, kernel, world
<1>5. CASE NoProbe(t)
  BY <1>5 DEF NoProbe, TypeOK, Untouched, kernel, world
<1>6. CASE ExitFilter(t)
  <2>1. CASE ExitFilterOut(t)
    BY <1>6, <2>1 DEF ExitFilter, ExitFilterOut, Switch, Saved, Die, TypeOK, Untouched, world
  <2>2. CASE ExitFilterIn(t)
    BY <1>6, <2>2 DEF ExitFilter, ExitFilterIn, RestoreSecurity, Die, TypeOK, Untouched, world
  <2> QED
    BY <1>6, <2>1, <2>2 DEF ExitFilter
<1>7. CASE ExitUnhooked(t)
  BY <1>7 DEF ExitUnhooked, Die, TypeOK, Untouched, kernel, world
<1>8. CASE MonitorOpen(t)
  BY <1>8 DEF MonitorOpen, TypeOK, Untouched, kernel, world
<1>9. CASE MonitorWork(t) \/ MonitorExit(t)
  BY <1>9 DEF MonitorWork, MonitorExit, TypeOK, Untouched, kernel, world
<1>10. CASE MonitorRestore(t)
  BY <1>10 DEF MonitorRestore, RestoreRequest, TypeOK, Untouched, kernel, world
<1> QED
  BY <1>1, <1>2, <1>3, <1>4, <1>5, <1>6, <1>7, <1>8, <1>9, <1>10 DEF Step

(* What a thread does keeps its own ThreadOK.                              *)
LEMMA SelfOK ==
  ASSUME IInv, NEW t \in Thread, Call(t) \/ CallExit(t) \/ Step(t)
  PROVE  ThreadOK(t)'
<1> USE DEF IInv
<1>1. CASE Call(t)
  BY <1>1 DEF Call, TypeOK, ThreadOK, AppSide, MonSide, kernel, world
<1>2. CASE CallExit(t)
  BY <1>2 DEF CallExit, TypeOK, ThreadOK, AppSide, MonSide, kernel, world
<1>3. CASE ProbeOut(t)
  <2>1. CASE Switch(t)
    BY <1>3, <2>1 DEF ProbeOut, Switch, Saved, TypeOK, ThreadOK, AppSide, MonSide, world
  <2>2. CASE \E b \in BOOLEAN : Stay(t, "user", b)
    BY <1>3, <2>2 DEF ProbeOut, Stay, TypeOK, ThreadOK, AppSide, MonSide, world
  <2> QED
    BY <1>3, <2>1, <2>2 DEF ProbeOut
<1>4. CASE ProbeRestore(t)
  BY <1>4 DEF ProbeRestore, RestoreSecurity, RestoreContext, TypeOK, ThreadOK, AppSide, MonSide, world
<1>5. CASE NoProbe(t)
  BY <1>5 DEF NoProbe, TypeOK, ThreadOK, AppSide, MonSide, kernel, world
<1>6. CASE ExitFilter(t)
  <2>1. CASE Switch(t) /\ status[t] \in {"none", "OUT"}
    BY <1>6, <2>1 DEF ExitFilter, Switch, Saved, TypeOK, ThreadOK, AppSide, MonSide, world
  <2>2. CASE Die(t)
    BY <2>2 DEF Die, ThreadOK, TypeOK
  <2> QED
    BY <1>6, <2>1, <2>2 DEF ExitFilter, ExitFilterOut, ExitFilterIn
<1>7. CASE ExitUnhooked(t)
  BY <1>7 DEF ExitUnhooked, Die, TypeOK, ThreadOK
<1>8. CASE MonitorOpen(t)
  BY <1>8 DEF MonitorOpen, InMonitor, TypeOK, ThreadOK, AppSide, MonSide, kernel, world
<1>9. CASE MonitorWork(t) \/ MonitorExit(t)
  BY <1>9 DEF MonitorWork, MonitorExit, InMonitor, TypeOK, ThreadOK, AppSide, MonSide, kernel, world
<1>10. CASE MonitorRestore(t)
  BY <1>10 DEF MonitorRestore, RestoreRequest, InMonitor, TypeOK, ThreadOK, AppSide, MonSide, world
<1> QED
  BY <1>1, <1>2, <1>3, <1>4, <1>5, <1>6, <1>7, <1>8, <1>9, <1>10 DEF Step

(* START and STOP touch no thread.                                         *)
LEMMA ControlUntouched ==
  ASSUME NEW u \in Thread, Control
  PROVE  Untouched(u)
BY DEF Control, Start, Stop, Arm, Disarm, Untouched, kernel

(* Attributes, registers and the records they are saved in are written by  *)
(* the application, by a switch and by the two restores only.              *)
LEMMA Writes ==
  ASSUME [Next]_vars
  PROVE  \/ UNCHANGED <<sec, ctx, own, shared, regs>>
         \/ \E t \in Thread : Call(t)
         \/ \E t \in Thread : Switch(t)
         \/ \E t \in Thread : /\ RestoreSecurity(t)
                              /\ RestoreContext(t) \/ UNCHANGED <<ctx, regs>>
<1>1. CASE Control \/ UNCHANGED vars
  BY <1>1 DEF Control, Start, Stop, Arm, Disarm, kernel, vars
<1>2. ASSUME NEW t \in Thread, CallExit(t)
      PROVE  UNCHANGED <<sec, ctx, own, shared, regs>>
  BY <1>2 DEF CallExit, kernel
<1>3. ASSUME NEW t \in Thread, Step(t)
      PROVE  \/ UNCHANGED <<sec, ctx, own, shared, regs>>
             \/ Switch(t)
             \/ RestoreSecurity(t) /\ (RestoreContext(t) \/ UNCHANGED <<ctx, regs>>)
  BY <1>3 DEF Step, ProbeOut, Stay, ProbeRestore, NoProbe, ExitFilter, ExitFilterOut,
        ExitFilterIn, ExitUnhooked, MonitorOpen, MonitorWork, MonitorExit,
        MonitorRestore, kernel
<1> QED
  BY <1>1, <1>2, <1>3 DEF Next

(* Their types are kept.                                                   *)
Saves ==
  /\ sec \in [Thread -> Security] /\ ctx \in [Thread -> Context]
  /\ own \in [Thread -> Value] /\ shared \in Value /\ regs \in [Thread -> {"app", "mon"}]

LEMMA SavesKept ==
  ASSUME TypeOK, [Next]_vars
  PROVE  Saves'
<1>1. Saves
  BY DEF TypeOK, Saves
<1>2. \A t \in Thread : /\ sec[t] \in Security /\ ctx[t] \in Context
                        /\ sec[t].own \in Value /\ sec[t].shared \in Value
                        /\ ctx[t].regs \in {"app", "mon"}
  BY <1>1 DEF Saves, Security, Context
<1>3. ASSUME NEW t \in Thread, Call(t) PROVE Saves'
  BY <1>1, <1>3 DEF Saves, Call, Value, kernel
<1>4. ASSUME NEW t \in Thread, Switch(t) PROVE Saves'
  <2>1. Saved(t) \in Security
    BY <1>1 DEF Saved, Security, Saves
  <2>2. [available |-> 1, regs |-> regs[t]] \in Context
    BY <1>1 DEF Context, Saves
  <2> QED
    BY <1>1, <1>4, <2>1, <2>2 DEF Switch, Saves, Value
<1>5. ASSUME NEW t \in Thread, RestoreSecurity(t)
      PROVE  sec' \in [Thread -> Security] /\ own' \in [Thread -> Value] /\ shared' \in Value
  <2>1. [sec[t] EXCEPT !.available = 0] \in Security
    BY <1>2 DEF Security
  <2>2. sec' \in [Thread -> Security]
    BY <1>1, <1>5, <2>1 DEF RestoreSecurity, Saves
  <2> QED
    BY <1>1, <1>2, <1>5, <2>2 DEF RestoreSecurity, Saves
<1>6. ASSUME NEW t \in Thread, RestoreContext(t)
      PROVE  ctx' \in [Thread -> Context] /\ regs' \in [Thread -> {"app", "mon"}]
  <2>1. [ctx[t] EXCEPT !.available = 0] \in Context
    BY <1>2 DEF Context
  <2> QED
    BY <1>1, <1>2, <1>6, <2>1 DEF RestoreContext, Saves
<1> QED
  BY <1>1, <1>3, <1>4, <1>5, <1>6, Writes DEF Saves

(* The rest of the type invariant, without the history variable crossed.   *)
Others ==
  /\ armed \subseteq Probe /\ ctl \in [op : {"idle", "start", "stop"}, i : 1 .. 3]
  /\ loc \in [Thread -> {"user", "entering", "leaving", "dead"}]
  /\ mon \in [Thread -> {"start", "work", "out", "beyond"}]
  /\ nr \in [Thread -> {"other", "exit"}]
  /\ status \in [Thread -> Status] /\ fd \in [Thread -> {"none", "device"}]
  /\ open \subseteq Thread
  /\ wantOwn \in [Thread -> AppValue] /\ wantShared \in AppValue
  /\ calls \in 0 .. MaxCall /\ ctls \in 0 .. MaxCtl

LEMMA OthersKept ==
  ASSUME Others, [Next]_vars
  PROVE  Others'
<1>1. CASE Start \/ Stop
  BY <1>1, SwitchAssumption DEF Others, Start, Stop, kernel
<1>2. CASE Arm \/ Disarm
  <2>1. ctl.i \in {1, 2, 3} /\ ctl.op \in {"start", "stop"}
    BY <1>2 DEF Others, Arm, Disarm
  <2>2. ctl' \in [op : {"idle", "start", "stop"}, i : 1 .. 3]
    BY <1>2, <2>1 DEF Arm, Disarm, Advance, Idle
  <2>3. StartOrder[ctl.i] \in Probe
    BY <2>1 DEF Probe, StartOrder
  <2>4. armed' \subseteq Probe
    BY <1>2, <2>3 DEF Others, Arm, Disarm
  <2> QED
    BY <1>2, <2>2, <2>4 DEF Others, Arm, Disarm, kernel
<1>3. ASSUME NEW t \in Thread, Call(t) \/ CallExit(t) PROVE Others'
  BY <1>3, SwitchAssumption DEF Others, Call, CallExit, kernel, world
<1>4. ASSUME NEW t \in Thread, Step(t) PROVE Others'
  <2> USE DEF Others, Status, kernel, world
  <2>1. CASE ProbeOut(t)
    BY <2>1 DEF ProbeOut, Switch, Stay
  <2>2. CASE ProbeRestore(t)
    BY <2>2 DEF ProbeRestore, RestoreSecurity, RestoreContext
  <2>3. CASE NoProbe(t) \/ ExitUnhooked(t)
    BY <2>3 DEF NoProbe, ExitUnhooked, Die
  <2>4. CASE ExitFilter(t)
    BY <2>4 DEF ExitFilter, ExitFilterOut, ExitFilterIn, Switch, RestoreSecurity, Die
  <2>5. CASE MonitorOpen(t) \/ MonitorWork(t) \/ MonitorExit(t)
    BY <2>5 DEF MonitorOpen, MonitorWork, MonitorExit
  <2>6. CASE MonitorRestore(t)
    BY <2>6 DEF MonitorRestore, RestoreRequest
  <2> QED
    BY <1>4, <2>1, <2>2, <2>3, <2>4, <2>5, <2>6 DEF Step
<1>5. CASE UNCHANGED vars
  BY <1>5 DEF Others, vars
<1> QED
  BY <1>1, <1>2, <1>3, <1>4, <1>5 DEF Next, Control

(* The type invariant is inductive.                                        *)
LEMMA TypeKept ==
  ASSUME TypeOK, [Next]_vars
  PROVE  TypeOK'
<1>1. Saves' /\ Others'
  BY SavesKept, OthersKept DEF TypeOK, Others
<1>2. crossed' \in BOOLEAN
  <2>1. \/ crossed' = crossed
        \/ \E t \in Thread : \/ crossed' = (crossed \/ \E u \in Thread \ {t} : Visiting(u))
                             \/ crossed' = (crossed \/ \E u \in Thread : Visiting(u))
    BY Zenon DEF Next, vars, Control, Start, Stop, Arm, Disarm, Call, CallExit, Step, ProbeOut,
        Switch, Stay, ProbeRestore, NoProbe, ExitFilter, ExitFilterOut, ExitFilterIn,
        ExitUnhooked, MonitorOpen, MonitorWork, MonitorExit, MonitorRestore
  <2>2. crossed \in BOOLEAN
    BY DEF TypeOK
  <2> QED
    BY <2>1, <2>2, Zenon
<1> QED
  BY <1>1, <1>2 DEF TypeOK, Saves, Others

(* The inductive invariant.                                                *)
LEMMA Inductive ==
  ASSUME IInv, [Next]_vars
  PROVE  IInv'
<1>1. TypeOK'
  BY TypeKept DEF IInv
<1>2. ASSUME NEW u \in Thread PROVE ThreadOK(u)'
  <2>1. CASE Control
    BY <2>1, ControlUntouched, UntouchedOK DEF IInv
  <2>2. CASE UNCHANGED vars
    <3>1. Untouched(u)
      BY <2>2 DEF vars, Untouched
    <3> QED
      BY <3>1, UntouchedOK DEF IInv
  <2>3. ASSUME NEW t \in Thread, Call(t) \/ CallExit(t) \/ Step(t)
        PROVE  ThreadOK(u)'
    <3>1. CASE u = t
      BY <2>3, <3>1, SelfOK
    <3>2. CASE u # t
      BY <2>3, <3>2, OthersUntouched, UntouchedOK DEF IInv
    <3> QED
      BY <3>1, <3>2
  <2> QED
    BY <2>1, <2>2, <2>3 DEF Next
<1> QED
  BY <1>1, <1>2 DEF IInv

LEMMA Initially == Init => IInv
<1> SUFFICES ASSUME Init PROVE IInv
  OBVIOUS
<1>1. TypeOK
  <2>1. NoSec \in Security /\ NoCtx \in Context
    BY DEF NoSec, Security, Value, NoCtx, Context
  <2>2. Idle \in [op : {"idle", "start", "stop"}, i : 1 .. 3]
    BY DEF Idle
  <2>3. armed \subseteq Probe /\ ctl \in [op : {"idle", "start", "stop"}, i : 1 .. 3]
    BY <2>2 DEF Init
  <2>4. /\ loc \in [Thread -> {"user", "entering", "leaving", "dead"}]
        /\ regs \in [Thread -> {"app", "mon"}]
        /\ mon \in [Thread -> {"start", "work", "out", "beyond"}]
        /\ nr \in [Thread -> {"other", "exit"}]
    BY DEF Init
  <2>5. /\ own \in [Thread -> Value] /\ shared \in Value
        /\ wantOwn \in [Thread -> AppValue] /\ wantShared \in AppValue
    BY DEF Init, Value
  <2>6. /\ status \in [Thread -> Status] /\ fd \in [Thread -> {"none", "device"}]
        /\ sec \in [Thread -> Security] /\ ctx \in [Thread -> Context]
    BY <2>1 DEF Init, Status
  <2>7. open \subseteq Thread /\ crossed \in BOOLEAN
    BY DEF Init
  <2>8. calls \in 0 .. MaxCall /\ ctls \in 0 .. MaxCtl
    BY SwitchAssumption DEF Init
  <2> QED
    BY <2>3, <2>4, <2>5, <2>6, <2>7, <2>8 DEF TypeOK
<1>2. ASSUME NEW t \in Thread PROVE ThreadOK(t)
  BY DEF Init, ThreadOK, AppSide
<1> QED
  BY <1>1, <1>2 DEF IInv

LEMMA AlwaysIInv == Spec => []IInv
BY Initially, Inductive, PTL DEF Spec

(* A thread that runs the application has the attributes of its own that   *)
(* the application gave it, with any number of threads, STOPs at any time  *)
(* and a device that may fail to open (__restore_security).                *)
THEOREM OwnAlwaysRestored == Spec => []OwnRestored
<1>1. IInv => OwnRestored
  BY DEF IInv, TypeOK, ThreadOK, AppSide, OwnRestored
<1> QED
  BY <1>1, AlwaysIInv, PTL

(* Nor has it the descriptor of a visit open (nod_restore_security).       *)
THEOREM DescriptorAlwaysClosed == Spec => []DescriptorClosed
<1>1. IInv => DescriptorClosed
  BY DEF IInv, TypeOK, ThreadOK, AppSide, DescriptorClosed
<1> QED
  BY <1>1, AlwaysIInv, PTL

------------------------------------------------------------------------------
(* The rest is about a STOP that takes a probe away only while no thread   *)
(* is in the monitor, and a device that opens.                             *)
Quiet == Stops = "quiet" /\ OpenFaults = FALSE

(* How far START or STOP has come tells what is armed.                     *)
ArmedOK ==
  /\ ctl.op = "idle" => armed = {} \/ armed = Probe
  /\ ctl.op = "start" => /\ ctl.i = 1 => armed = {}
                         /\ ctl.i = 2 => armed = {"sys_exit"}
                         /\ ctl.i = 3 => armed = {"sys_exit", "sched_process_exit"}
  /\ ctl.op = "stop" => /\ ctl.i = 1 => armed = Probe
                        /\ ctl.i = 2 => armed = {"sys_exit", "sched_process_exit"}
                        /\ ctl.i = 3 => armed = {"sched_process_exit"}

(* A thread in the monitor finds what it needs to leave: the probe, the    *)
(* hook if it is to exit, and the descriptor.                              *)
CanLeave(t) ==
  /\ "sys_exit" \in armed /\ (nr[t] = "exit" => "hooks" \in armed)
  /\ status[t] = "RESTORE_CONTEXT" <=> loc[t] = "leaving"
  /\ loc[t] = "entering" => nr[t] = "exit"
  /\ loc[t] = "user" => mon[t] # "beyond" /\ (mon[t] # "start" => t \in open)

QuietOK(t) ==
  /\ loc[t] = "dead" => own[t] = wantOwn[t]
  /\ Visiting(t) => CanLeave(t)
  /\ loc[t] = "leaving" /\ regs[t] = "app" => nr[t] = "other"

QInv == IInv /\ ArmedOK /\ \A t \in Thread : QuietOK(t)

(* What is armed follows START and STOP.                                   *)
LEMMA ArmedKept ==
  ASSUME TypeOK, ArmedOK, [Next]_vars
  PROVE  ArmedOK'
<1>1. CASE Start \/ Stop
  BY <1>1 DEF Start, Stop, ArmedOK, Idle
<1>2. CASE Arm
  <2>1. ctl.i \in {1, 2, 3}
    BY DEF TypeOK
  <2> QED
    BY <1>2, <2>1 DEF Arm, Advance, Idle, ArmedOK, StartOrder, Probe
<1>3. CASE Disarm
  <2>1. ctl.i \in {1, 2, 3}
    BY DEF TypeOK
  <2> QED
    BY <1>3, <2>1 DEF Disarm, Advance, Idle, ArmedOK, StopOrder, Probe
<1>4. CASE UNCHANGED <<armed, ctl>>
  BY <1>4 DEF ArmedOK
<1>5. ASSUME NEW t \in Thread, Call(t) \/ CallExit(t) \/ Step(t)
      PROVE  UNCHANGED <<armed, ctl>>
  BY <1>5 DEF Call, CallExit, Step, ProbeOut, ProbeRestore, NoProbe, ExitFilter, ExitUnhooked,
        MonitorOpen, MonitorWork, MonitorExit, MonitorRestore, world
<1> QED
  BY <1>1, <1>2, <1>3, <1>4, <1>5 DEF Next, Control, vars

(* The hooks are only there together with the probes.                      *)
LEMMA HooksLast ==
  ASSUME TypeOK, ArmedOK, "hooks" \in armed
  PROVE  "sys_exit" \in armed
<1>1. ctl.op \in {"idle", "start", "stop"} /\ ctl.i \in {1, 2, 3}
  BY DEF TypeOK
<1>2. armed # {} /\ armed # {"sys_exit"} /\ armed # {"sys_exit", "sched_process_exit"}
      /\ armed # {"sched_process_exit"}
  OBVIOUS
<1>3. armed = Probe
  BY <1>1, <1>2 DEF ArmedOK
<1> QED
  BY <1>3 DEF Probe

(* A step of another thread leaves QuietOK of u alone.                     *)
LEMMA OthersQuiet ==
  ASSUME TypeOK, NEW t \in Thread, NEW u \in Thread, u # t,
         Call(t) \/ CallExit(t) \/ Step(t), QuietOK(u)
  PROVE  QuietOK(u)'
<1>1. Untouched(u)
  BY OthersUntouched
<1>2. nr'[u] = nr[u] /\ mon'[u] = mon[u] /\ armed' = armed
  <2>1. CASE Call(t) \/ CallExit(t)
    BY <2>1 DEF TypeOK, Call, CallExit, world
  <2>2. CASE ProbeOut(t) \/ ProbeRestore(t) \/ NoProbe(t)
    BY <2>2 DEF TypeOK, ProbeOut, Switch, Stay, ProbeRestore, NoProbe, world
  <2>3. CASE ExitFilter(t) \/ ExitUnhooked(t)
    BY <2>3 DEF TypeOK, ExitFilter, ExitFilterOut, ExitFilterIn, Switch, ExitUnhooked, world
  <2>4. CASE MonitorOpen(t) \/ MonitorWork(t) \/ MonitorExit(t) \/ MonitorRestore(t)
    BY <2>4 DEF TypeOK, MonitorOpen, MonitorWork, MonitorExit, MonitorRestore, world
  <2> QED
    BY <2>1, <2>2, <2>3, <2>4 DEF Step
<1> QED
  BY <1>1, <1>2 DEF Untouched, QuietOK, CanLeave, Visiting

(* Neither do START and STOP, while they respect the visits.               *)
LEMMA ControlQuiet ==
  ASSUME Quiet, TypeOK, Control, NEW u \in Thread, QuietOK(u)
  PROVE  QuietOK(u)'
<1>1. CASE Start \/ Stop \/ Arm
  BY <1>1 DEF Start, Stop, Arm, QuietOK, CanLeave, Visiting, kernel
<1>2. CASE Disarm
  BY <1>2 DEF Disarm, Quiet, QuietOK, Visiting, kernel
<1> QED
  BY <1>1, <1>2 DEF Control

(* A thread keeps its own QuietOK.                                         *)
LEMMA SelfQuiet ==
  ASSUME Quiet, IInv, ArmedOK, NEW t \in Thread, QuietOK(t),
         Call(t) \/ CallExit(t) \/ Step(t)
  PROVE  QuietOK(t)'
<1> USE DEF IInv, QuietOK, Visiting, CanLeave
<1>0. TypeOK /\ ThreadOK(t)
  OBVIOUS
<1>1. CASE Call(t)
  BY <1>0, <1>1 DEF Call, TypeOK, world
<1>2. CASE CallExit(t)
  BY <1>0, <1>2 DEF CallExit, TypeOK, world
<1>3. CASE ProbeOut(t)
  <2>1. regs[t] = "app" /\ own[t] = wantOwn[t]
    BY <1>0, <1>3 DEF ProbeOut, TypeOK, ThreadOK, AppSide, MonSide
  <2>2. CASE Switch(t)
    BY <1>0, <1>3, <2>1, <2>2 DEF ProbeOut, Switch, TypeOK, world
  <2>3. CASE \E b \in BOOLEAN : Stay(t, "user", b)
    BY <1>0, <1>3, <2>1, <2>3 DEF ProbeOut, Stay, TypeOK, world
  <2> QED
    BY <1>3, <2>2, <2>3 DEF ProbeOut
<1>4. CASE ProbeRestore(t)
  <2>1. regs'[t] = "app" /\ loc'[t] = "user"
    BY <1>0, <1>4 DEF ProbeRestore, RestoreContext, TypeOK, ThreadOK, AppSide, MonSide
  <2> QED
    BY <2>1
<1>5. CASE NoProbe(t)
  <2>1. regs[t] = "app"
    BY <1>0, <1>5 DEF NoProbe, TypeOK
  <2> QED
    BY <1>0, <1>5, <2>1 DEF NoProbe, TypeOK, kernel, world
<1>6. CASE ExitFilter(t)
  <2>1. CASE status[t] \in {"none", "OUT"} /\ Switch(t)
    <3>1. "sys_exit" \in armed
      BY <1>0, <1>6, HooksLast DEF ExitFilter
    <3> QED
      BY <1>0, <1>6, <2>1, <3>1 DEF ExitFilter, Switch, TypeOK, world
  <2>2. CASE status[t] \in {"none", "OUT"} /\ Die(t) /\ UNCHANGED own
    <3>1. own[t] = wantOwn[t]
      BY <1>0, <1>6, <2>2 DEF ExitFilter, TypeOK, ThreadOK, AppSide, MonSide
    <3>2. loc'[t] = "dead" /\ own'[t] = own[t] /\ wantOwn'[t] = wantOwn[t]
      BY <1>0, <1>6, <2>2 DEF ExitFilter, Die, TypeOK
    <3> QED
      BY <3>1, <3>2
  <2>3. CASE ExitFilterIn(t)
    BY <1>0, <1>6, <2>3 DEF ExitFilter, ExitFilterIn, RestoreSecurity, Die, TypeOK,
                            ThreadOK, AppSide, MonSide
  <2> QED
    BY <1>6, <2>1, <2>2, <2>3 DEF ExitFilter, ExitFilterOut
<1>7. CASE ExitUnhooked(t)
  BY <1>0, <1>7 DEF ExitUnhooked, Die, TypeOK, ThreadOK, AppSide, world
<1>8. CASE MonitorOpen(t)
  <2>1. mon'[t] = "work" /\ t \in open'
    BY <1>0, <1>8 DEF MonitorOpen, OpenResult, Quiet, TypeOK
  <2> QED
    BY <1>0, <1>8, <2>1 DEF MonitorOpen, InMonitor, TypeOK, kernel, world
<1>9. CASE MonitorWork(t) \/ MonitorExit(t)
  BY <1>0, <1>9 DEF MonitorWork, MonitorExit, InMonitor, TypeOK, kernel, world
<1>10. CASE MonitorRestore(t)
  <2>1. t \in open /\ status[t] = "IN"
    BY <1>0, <1>10 DEF MonitorRestore, InMonitor, TypeOK, ThreadOK, MonSide
  <2> QED
    <3>1. status'[t] = "RESTORE_CONTEXT" /\ loc'[t] = "leaving"
      <4>1. /\ status \in [Thread -> Status]
            /\ loc \in [Thread -> {"user", "entering", "leaving", "dead"}]
        BY <1>0 DEF TypeOK
      <4> QED
        BY <1>10, <2>1, <4>1 DEF MonitorRestore, RestoreRequest
    <3>2. regs[t] = "mon" /\ nr[t] = "other" /\ loc[t] = "user"
          /\ UNCHANGED <<armed, regs, nr>>
      BY <1>10 DEF MonitorRestore, InMonitor, world
    <3> QED
      BY <3>1, <3>2
<1> QED
  BY <1>1, <1>2, <1>3, <1>4, <1>5, <1>6, <1>7, <1>8, <1>9, <1>10 DEF Step

LEMMA QuietInductive ==
  ASSUME Quiet, QInv, [Next]_vars
  PROVE  QInv'
<1>1. IInv' /\ ArmedOK'
  BY Inductive, ArmedKept DEF QInv, IInv
<1>2. ASSUME NEW u \in Thread PROVE QuietOK(u)'
  <2>1. CASE Control
    BY <2>1, ControlQuiet DEF QInv, IInv
  <2>2. CASE UNCHANGED vars
    BY <2>2 DEF vars, QInv, QuietOK, CanLeave, Visiting
  <2>3. ASSUME NEW t \in Thread, Call(t) \/ CallExit(t) \/ Step(t)
        PROVE  QuietOK(u)'
    <3>1. CASE u = t
      BY <2>3, <3>1, SelfQuiet DEF QInv
    <3>2. CASE u # t
      BY <2>3, <3>2, OthersQuiet DEF QInv, IInv
    <3> QED
      BY <3>1, <3>2
  <2> QED
    BY <2>1, <2>2, <2>3 DEF Next
<1> QED
  BY <1>1, <1>2 DEF QInv

LEMMA AlwaysQInv ==
  ASSUME Quiet
  PROVE  Spec => []QInv
<1>1. Init => QInv
  BY Initially DEF Init, QInv, ArmedOK, QuietOK, Visiting, Idle
<1>2. QInv /\ [Next]_vars => QInv'
  BY QuietInductive
<1> QED
  BY <1>1, <1>2, PTL DEF Spec

(* With quiet STOPs the status tells on which side a thread is, whatever   *)
(* the number of threads: no system call of the monitor is recorded, and   *)
(* exit_filter never reaches its BUG().                                    *)
THEOREM StatusAlwaysTells ==
  ASSUME Quiet
  PROVE  Spec => []StatusTellsSide
<1>1. QInv => StatusTellsSide
  <2> SUFFICES ASSUME QInv, NEW t \in Thread, loc[t] # "dead"
               PROVE  /\ regs[t] = "app" => status[t] \in {"none", "OUT"}
                      /\ regs[t] = "mon" => \/ status[t] = "IN"
                                            \/ status[t] = "RESTORE_CONTEXT" /\ loc[t] = "leaving"
    BY DEF StatusTellsSide
  <2>1. ThreadOK(t) /\ QuietOK(t)
    BY DEF QInv, IInv
  <2> QED
    BY <2>1 DEF ThreadOK, AppSide, MonSide, QuietOK, Visiting, CanLeave
<1> QED
  BY <1>1, AlwaysQInv, PTL

(* With quiet STOPs a thread dies with its own clear_child_tid in place.   *)
THEOREM AlwaysDiesAsItself ==
  ASSUME Quiet
  PROVE  Spec => []DiesAsItself
<1>1. QInv => DiesAsItself
  BY DEF QInv, QuietOK, DiesAsItself
<1> QED
  BY <1>1, AlwaysQInv, PTL

(* The code behind the monitor's last call is then not reached.            *)
THEOREM NeverReached ==
  ASSUME Quiet
  PROVE  Spec => []NotReached
<1>1. QInv => NotReached
  BY DEF QInv, QuietOK, NotReached, InMonitor, Visiting, CanLeave
<1> QED
  BY <1>1, AlwaysQInv, PTL

------------------------------------------------------------------------------
(* As long as nothing crossed, at most one thread is in the monitor; while *)
(* it is, the monitor's values are in force and the application's are      *)
(* saved, and else the application's are in force.                         *)
SharedOK ==
  crossed = FALSE =>
    /\ \A t, u \in Thread : Visiting(t) /\ Visiting(u) => t = u
    /\ \A t \in Thread : Visiting(t) => shared = "mon" /\ sec[t].shared = wantShared
    /\ (\A t \in Thread : ~Visiting(t)) => shared = wantShared

(* A step that changes neither who is in the monitor nor what SharedOK     *)
(* looks at keeps it.                                                      *)
LEMMA SharedSame ==
  ASSUME SharedOK, UNCHANGED <<shared, wantShared, crossed>>,
         \A t \in Thread : Visiting(t)' = Visiting(t),
         \A t \in Thread : Visiting(t) => sec'[t] = sec[t]
  PROVE  SharedOK'
BY DEF SharedOK

(* A thread enters the monitor.                                            *)
LEMMA SharedSwitch ==
  ASSUME TypeOK, SharedOK, NEW t \in Thread, regs[t] = "app", Switch(t), UNCHANGED wantShared
  PROVE  SharedOK'
<1>1. /\ loc \in [Thread -> {"user", "entering", "leaving", "dead"}]
      /\ regs \in [Thread -> {"app", "mon"}] /\ sec \in [Thread -> Security]
  BY DEF TypeOK
<1> SUFFICES ASSUME crossed' = FALSE
             PROVE  /\ \A v, u \in Thread : Visiting(v)' /\ Visiting(u)' => v = u
                    /\ \A u \in Thread : Visiting(u)' => shared' = "mon" /\ sec'[u].shared = wantShared'
                    /\ (\A u \in Thread : ~Visiting(u)') => shared' = wantShared'
  BY DEF SharedOK
<1>2. crossed = FALSE /\ \A u \in Thread \ {t} : ~Visiting(u)
  BY Zenon DEF Switch, TypeOK
<1>3. shared = wantShared
  BY <1>2 DEF SharedOK, Visiting
<1>4. Visiting(t)' /\ \A u \in Thread \ {t} : ~Visiting(u)'
  BY <1>1, <1>2 DEF Switch, Visiting
<1>5. shared' = "mon" /\ sec'[t].shared = shared
  BY <1>1 DEF Switch, Saved
<1> QED
  BY <1>3, <1>4, <1>5

(* A thread leaves the monitor with the restore of its attributes.         *)
LEMMA SharedLeave ==
  ASSUME IInv, SharedOK, NEW t \in Thread, Visiting(t), RestoreSecurity(t),
         regs'[t] = "app" \/ loc'[t] = "dead",
         \A u \in Thread \ {t} : regs'[u] = regs[u] /\ loc'[u] = loc[u],
         UNCHANGED <<wantShared, crossed>>
  PROVE  SharedOK'
<1> SUFFICES ASSUME crossed = FALSE
             PROVE  /\ \A v, u \in Thread : Visiting(v)' /\ Visiting(u)' => v = u
                    /\ \A u \in Thread : Visiting(u)' => shared' = "mon" /\ sec'[u].shared = wantShared'
                    /\ (\A u \in Thread : ~Visiting(u)') => shared' = wantShared'
  BY DEF SharedOK
<1>1. \A u \in Thread : ~Visiting(u)'
  BY DEF SharedOK, Visiting
<1>2. sec[t].available = 1 /\ sec[t].shared = wantShared
  BY DEF IInv, ThreadOK, MonSide, SharedOK, Visiting
<1>3. shared' = wantShared
  BY <1>2 DEF RestoreSecurity
<1> QED
  BY <1>1, <1>3

(* SharedOK is inductive together with QInv.                               *)
LEMMA SharedKept ==
  ASSUME Quiet, QInv, SharedOK, [Next]_vars
  PROVE  SharedOK'
<1>0. /\ IInv /\ ArmedOK /\ TypeOK
      /\ \A t \in Thread : ThreadOK(t) /\ QuietOK(t)
      /\ loc \in [Thread -> {"user", "entering", "leaving", "dead"}]
      /\ regs \in [Thread -> {"app", "mon"}]
  BY DEF QInv, IInv, TypeOK
<1>1. CASE Control \/ UNCHANGED vars
  BY <1>1, SharedSame DEF Control, Start, Stop, Arm, Disarm, vars, kernel, Visiting
<1>2. ASSUME NEW t \in Thread, Call(t) PROVE SharedOK'
  <2>1. (\A u \in Thread : Visiting(u)' = Visiting(u)) /\ UNCHANGED sec
    BY <1>0, <1>2 DEF Call, Visiting, kernel
  <2>2. CASE UNCHANGED <<shared, wantShared, crossed>>
    BY <2>1, <2>2, SharedSame
  <2>3. CASE \E v \in AppValue : /\ shared' = v /\ wantShared' = v
                                 /\ crossed' = (crossed \/ \E u \in Thread : Visiting(u))
    BY <2>1, <2>3, Zenon DEF SharedOK
  <2> QED
    BY <1>2, <2>2, <2>3 DEF Call
<1>3. ASSUME NEW t \in Thread, CallExit(t) PROVE SharedOK'
  BY <1>0, <1>3, SharedSame DEF CallExit, Visiting, kernel
<1>4. ASSUME NEW t \in Thread, ProbeOut(t) PROVE SharedOK'
  <2>1. regs[t] = "app"
    BY <1>0, <1>4 DEF ProbeOut, ThreadOK, MonSide
  <2>2. CASE Switch(t)
    BY <1>0, <1>4, <2>1, <2>2, SharedSwitch DEF ProbeOut
  <2>3. CASE \E b \in BOOLEAN : Stay(t, "user", b)
    BY <1>0, <1>4, <2>1, <2>3, SharedSame DEF ProbeOut, Stay, Visiting
  <2> QED
    BY <1>4, <2>2, <2>3 DEF ProbeOut
<1>5. ASSUME NEW t \in Thread, ProbeRestore(t) PROVE SharedOK'
  <2>1. Visiting(t) /\ ctx[t].available = 1 /\ ctx[t].regs = "app"
    BY <1>0, <1>5 DEF ProbeRestore, ThreadOK, AppSide, MonSide, Visiting
  <2>2. regs'[t] = "app" /\ \A u \in Thread \ {t} : regs'[u] = regs[u] /\ loc'[u] = loc[u]
    BY <1>0, <1>5, <2>1 DEF ProbeRestore, RestoreContext
  <2> QED
    BY <1>0, <1>5, <2>1, <2>2, SharedLeave DEF ProbeRestore
<1>6. ASSUME NEW t \in Thread, NoProbe(t) PROVE SharedOK'
  BY <1>0, <1>6, SharedSame DEF NoProbe, Visiting, kernel
<1>7. ASSUME NEW t \in Thread, ExitFilter(t) PROVE SharedOK'
  <2>1. CASE ExitFilterOut(t)
    <3>1. regs[t] = "app"
      BY <1>0, <1>7, <2>1 DEF ExitFilter, ExitFilterOut, ThreadOK, MonSide
    <3>2. CASE Switch(t)
      BY <1>0, <1>7, <3>1, <3>2, SharedSwitch DEF ExitFilter
    <3>3. CASE Die(t) /\ UNCHANGED <<regs, shared, sec, crossed>>
      BY <1>0, <1>7, <3>1, <3>3, SharedSame DEF ExitFilter, Die, Visiting
    <3> QED
      BY <2>1, <3>2, <3>3 DEF ExitFilterOut
  <2>2. CASE ExitFilterIn(t)
    <3>1. Visiting(t)
      BY <1>0, <1>7, <2>2 DEF ExitFilter, ExitFilterIn, ThreadOK, AppSide, Visiting
    <3>2. loc'[t] = "dead" /\ \A u \in Thread \ {t} : regs'[u] = regs[u] /\ loc'[u] = loc[u]
      BY <1>0, <2>2 DEF ExitFilterIn, Die
    <3> QED
      BY <1>0, <1>7, <2>2, <3>1, <3>2, SharedLeave DEF ExitFilter, ExitFilterIn
  <2> QED
    BY <1>7, <2>1, <2>2 DEF ExitFilter
<1>8. ASSUME NEW t \in Thread, ExitUnhooked(t) PROVE SharedOK'
  <2>1. ~Visiting(t)
    BY <1>0, <1>8 DEF ExitUnhooked, QuietOK, CanLeave
  <2> QED
    BY <1>0, <1>8, <2>1, SharedSame DEF ExitUnhooked, Die, Visiting
<1>9. ASSUME NEW t \in Thread,
             MonitorOpen(t) \/ MonitorWork(t) \/ MonitorExit(t) \/ MonitorRestore(t)
      PROVE  SharedOK'
  BY <1>0, <1>9, SharedSame DEF MonitorOpen, MonitorWork, MonitorExit, MonitorRestore,
                                InMonitor, Visiting, kernel
<1> QED
  BY <1>1, <1>2, <1>3, <1>4, <1>5, <1>6, <1>7, <1>8, <1>9 DEF Next, Step

(* With quiet STOPs, and as long as no visit overlaps another or a change  *)
(* of a shared attribute, the capabilities, limits and root directory are  *)
(* the application's whenever no thread is in the monitor, whatever the    *)
(* number of threads.                                                      *)
THEOREM SharedAlwaysRestored ==
  ASSUME Quiet
  PROVE  Spec => []SharedRestoredAlone
<1>1. Init => SharedOK
  BY DEF Init, SharedOK, Visiting
<1>2. QInv /\ SharedOK /\ [Next]_vars => SharedOK'
  BY SharedKept
<1>3. QInv /\ SharedOK => SharedRestoredAlone
  BY Zenon DEF QInv, IInv, TypeOK, SharedOK, SharedRestoredAlone
<1> QED
  BY <1>1, <1>2, <1>3, AlwaysQInv, PTL DEF Spec
==============================================================================
