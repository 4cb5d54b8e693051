------------------------- MODULE SyscallHooksProofs -------------------------
(* Proofs about SyscallHooks: START and STOP that wait for each other turn *)
(* the tracing on and off as a whole, for any number of control processes, *)
(* threads and hooked system calls.                                        *)
EXTENDS SyscallHooks, TLAPS

(* A system call whose entry of the table is hooked, and one whose entry   *)
(* is as the kernel made it.                                               *)
On(id) == table[id] = "hook" /\ filters[id].hooked /\ filters[id].filter /\ filters[id].old = "orig"
Off(id) == table[id] = "orig" /\ ~filters[id].hooked

AllOn == \A id \in Id : On(id)
AllOff == \A id \in Id : Off(id)

(* trace_syscall and untrace_syscall have dealt with the calls before i    *)
(* and not yet with those behind it.                                       *)
Hooking(i) == \A j \in 1 .. LastHook : (j < i => On(HookOrder[j])) /\ (j > i => Off(HookOrder[j]))
Unhooking(i) == \A j \in 1 .. LastHook : (j < i => Off(HookOrder[j])) /\ (j > i => On(HookOrder[j]))

(* The probes and the table at each step of an ioctl, by the step.         *)
Begun(c) ==
  /\ ctl[c].step \in {"reg_exit", "reg_sched"} => ctl[c].i = 1
  /\ At(c, "reg_exit") => probes = {} /\ AllOff
  /\ At(c, "reg_sched") => probes = {"sys_exit"} /\ AllOff
  /\ At(c, "start_done") => probes = Probe /\ AllOn
  /\ At(c, "unreg_exit") => probes = Probe /\ AllOff
  /\ At(c, "unreg_sched") => probes = {"sched_process_exit"} /\ AllOff
  /\ At(c, "stop_done") => probes = {} /\ AllOff

Patching(c) ==
  /\ ctl[c].step \in {"hook_test", "hook_mark", "hook_save", "hook_patch", "hook_filter"} =>
       probes = Probe /\ Hooking(ctl[c].i)
  /\ ctl[c].step \in {"hook_test", "hook_mark"} => Off(This(c))
  /\ ctl[c].step \in {"hook_save", "hook_patch"} =>
       table[This(c)] = "orig" /\ filters[This(c)].hooked
  /\ At(c, "hook_patch") => filters[This(c)].old = "orig"
  /\ At(c, "hook_filter") =>
       table[This(c)] = "hook" /\ filters[This(c)].hooked /\ filters[This(c)].old = "orig"
  /\ ctl[c].step \in {"unhook_test", "unhook_patch", "unhook_mark", "unhook_forget"} =>
       probes = Probe /\ Unhooking(ctl[c].i)
  /\ ctl[c].step \in {"unhook_test", "unhook_patch"} => On(This(c))
  /\ ctl[c].step \in {"unhook_mark", "unhook_forget"} => table[This(c)] = "orig"
  /\ At(c, "unhook_forget") => ~filters[This(c)].hooked

Busy(c) ==
  /\ ctl[c].step \in StartStep => ~registered
  /\ ctl[c].step \in StopStep => registered
  /\ Begun(c) /\ Patching(c)

(* With nobody at an ioctl the tracing is on or off.                       *)
Settled == (registered /\ probes = Probe /\ AllOn) \/ (~registered /\ probes = {} /\ AllOff)

(* A call that no ioctl has overlapped goes where the settled table sends  *)
(* it.                                                                     *)
Undisturbed(k) ==
  k.alone /\ k.step # "user" =>
    /\ Quiet /\ k.on = registered
    /\ k.step \in {"hooked", "filter", "old"} => registered
    /\ k.step = "old" => k.through
    /\ k.step = "native" => k.through = k.on
    /\ k.step \notin {"bug", "oops"}

IInv ==
  /\ TypeOK
  /\ \A c, d \in Ctl : ctl[c] # Idle /\ ctl[d] # Idle => c = d
  /\ \A c \in Ctl : ctl[c].step = "idle" => ctl[c] = Idle
  /\ \A c \in Ctl : ctl[c] # Idle => Busy(c)
  /\ Quiet => Settled
  /\ \A t \in Thread : Undisturbed(call[t])

------------------------------------------------------------------------------
(* The hooked calls and their places in the order.                         *)
LEMMA Order ==
  /\ LastHook \in Nat /\ 1 \in 1 .. LastHook
  /\ \A j \in 1 .. LastHook : HookOrder[j] \in Id
  /\ \A id \in Id : \E j \in 1 .. LastHook : id = HookOrder[j]
  /\ \A i, j \in 1 .. LastHook : HookOrder[i] = HookOrder[j] => i = j
<1>1. HookOrder \in Seq(STRING) /\ HookOrder # << >>
  BY HooksAssumption
<1>2. LastHook \in Nat /\ DOMAIN HookOrder = 1 .. LastHook /\ LastHook # 0
  BY <1>1 DEF LastHook
<1> QED
  BY <1>2, HooksAssumption DEF Id, Range

LEMMA Initially == Init => IInv
<1> SUFFICES ASSUME Init PROVE IInv
  OBVIOUS
<1>1. TypeOK
  <2>1. NoCall \in [step : CallStep, id : Id, through : BOOLEAN, on : BOOLEAN, alone : BOOLEAN]
    BY Order DEF NoCall, CallStep
  <2>2. Idle \in [step : {"idle"} \cup StartStep \cup StopStep, i : 1 .. LastHook]
    BY Order DEF Idle
  <2>3. /\ table \in [Id -> Pointer]
        /\ filters \in [Id -> [hooked : BOOLEAN, filter : BOOLEAN, old : Pointer]]
    BY DEF Init, Unhooked, Pointer
  <2>4. ctl \in [Ctl -> [step : {"idle"} \cup StartStep \cup StopStep, i : 1 .. LastHook]]
    BY <2>2 DEF Init
  <2>5. call \in [Thread -> [step : CallStep, id : Id, through : BOOLEAN, on : BOOLEAN, alone : BOOLEAN]]
    BY <2>1 DEF Init
  <2>6. ioctls \in 0 .. MaxIoctl /\ calls \in 0 .. MaxCall
    BY HooksAssumption DEF Init
  <2>7. registered \in BOOLEAN /\ probes \subseteq Probe
    BY DEF Init
  <2> QED
    BY <2>3, <2>4, <2>5, <2>6, <2>7 DEF TypeOK
<1>2. Settled
  BY DEF Init, Settled, AllOff, Off, Unhooked
<1>3. \A t \in Thread : Undisturbed(call[t])
  BY DEF Init, Undisturbed, NoCall
<1> QED
  BY <1>1, <1>2, <1>3 DEF Init, IInv

------------------------------------------------------------------------------
CtlType == [step : {"idle"} \cup StartStep \cup StopStep, i : 1 .. LastHook]
FilterType == [hooked : BOOLEAN, filter : BOOLEAN, old : Pointer]
CallType == [step : CallStep, id : Id, through : BOOLEAN, on : BOOLEAN, alone : BOOLEAN]

LEMMA Records == Idle \in CtlType /\ NoCall \in CallType
  BY Order DEF Idle, NoCall, CtlType, CallType, CallStep

(* What an ioctl's step may do to where it is and to the entry at hand.    *)
LEMMA GoType ==
  ASSUME TypeOK, NEW c \in Ctl, NEW s \in {"idle"} \cup StartStep \cup StopStep, Go(c, s)
  PROVE  /\ ctl' \in [Ctl -> CtlType]
         /\ ctl'[c].step = s /\ ctl'[c].i = ctl[c].i
         /\ \A d \in Ctl \ {c} : ctl'[d] = ctl[d]
<1>1. ctl \in [Ctl -> CtlType]
  BY DEF TypeOK, CtlType
<1>2. [ctl[c] EXCEPT !.step = s] \in CtlType
  BY <1>1 DEF CtlType
<1>3. ctl' = [ctl EXCEPT ![c] = [ctl[c] EXCEPT !.step = s]]
  BY <1>1 DEF Go
<1>4. [ctl[c] EXCEPT !.step = s].step = s /\ [ctl[c] EXCEPT !.step = s].i = ctl[c].i
  BY <1>1 DEF CtlType
<1> QED
  BY <1>1, <1>2, <1>3, <1>4

LEMMA JumpType ==
  ASSUME TypeOK, NEW c \in Ctl, NEW k \in CtlType, ctl' = [ctl EXCEPT ![c] = k]
  PROVE  /\ ctl' \in [Ctl -> CtlType] /\ ctl'[c] = k
         /\ \A d \in Ctl \ {c} : ctl'[d] = ctl[d]
  BY DEF TypeOK, CtlType

LEMMA ThisType ==
  ASSUME TypeOK, NEW c \in Ctl
  PROVE  /\ ctl[c] \in CtlType /\ ctl[c].i \in 1 .. LastHook /\ This(c) \in Id
         /\ table[This(c)] \in Pointer /\ filters[This(c)] \in FilterType
<1>1. ctl[c] \in CtlType
  BY DEF TypeOK, CtlType
<1>2. ctl[c].i \in 1 .. LastHook
  BY <1>1 DEF CtlType
<1>3. This(c) \in Id
  BY <1>2, Order DEF This
<1> QED
  BY <1>1, <1>2, <1>3 DEF TypeOK, FilterType

(* The next place of the loops over HookOrder.                             *)
LEMMA Following ==
  ASSUME TypeOK, NEW c \in Ctl, ctl[c].i # LastHook
  PROVE  ctl[c].i + 1 \in 1 .. LastHook
  BY ThisType, Order

LEMMA NextUnhookType ==
  ASSUME TypeOK, NEW c \in Ctl, NextUnhook(c)
  PROVE  /\ ctl' \in [Ctl -> CtlType]
         /\ \A d \in Ctl \ {c} : ctl'[d] = ctl[d]
         /\ ctl[c].i = LastHook => ctl'[c] = [step |-> "unreg_exit", i |-> 1]
         /\ ctl[c].i # LastHook => ctl'[c] = [step |-> "unhook_test", i |-> ctl[c].i + 1]
<1>1. [step |-> "unreg_exit", i |-> 1] \in CtlType
  BY Order DEF CtlType, StopStep
<1>2. ctl[c].i # LastHook => [step |-> "unhook_test", i |-> ctl[c].i + 1] \in CtlType
  BY Following DEF CtlType, StopStep
<1>3. CASE ctl[c].i = LastHook
  BY <1>1, <1>3, JumpType DEF NextUnhook
<1>4. CASE ctl[c].i # LastHook
  BY <1>2, <1>4, JumpType DEF NextUnhook
<1> QED
  BY <1>3, <1>4

(* A store to a field of the entry at hand leaves its other fields and the *)
(* other entries alone.                                                    *)
LEMMA SetHooked ==
  ASSUME TypeOK, NEW c \in Ctl, NEW v \in BOOLEAN, Set(c, "hooked", v)
  PROVE  /\ filters' \in [Id -> FilterType]
         /\ filters'[This(c)].hooked = v
         /\ filters'[This(c)].filter = filters[This(c)].filter
         /\ filters'[This(c)].old = filters[This(c)].old
         /\ \A id \in Id \ {This(c)} : filters'[id] = filters[id]
<1>1. This(c) \in Id /\ filters \in [Id -> FilterType]
  BY ThisType DEF TypeOK, FilterType
<1> DEFINE f == [filters[This(c)] EXCEPT !.hooked = v]
<1>2. f \in FilterType /\ f.hooked = v /\ f.filter = filters[This(c)].filter /\ f.old = filters[This(c)].old
  <2> DEFINE g == filters[This(c)]
  <2>1. g \in FilterType
    BY <1>1
  <2> HIDE DEF g
  <2> QED
    BY <2>1, Zenon DEF FilterType, f, g
<1>3. filters' = [filters EXCEPT ![This(c)] = f]
  BY <1>1 DEF Set
<1> HIDE DEF f
<1> QED
  BY <1>1, <1>2, <1>3

LEMMA SetFilter ==
  ASSUME TypeOK, NEW c \in Ctl, NEW v \in BOOLEAN, Set(c, "filter", v)
  PROVE  /\ filters' \in [Id -> FilterType]
         /\ filters'[This(c)].filter = v
         /\ filters'[This(c)].hooked = filters[This(c)].hooked
         /\ filters'[This(c)].old = filters[This(c)].old
         /\ \A id \in Id \ {This(c)} : filters'[id] = filters[id]
<1>1. This(c) \in Id /\ filters \in [Id -> FilterType]
  BY ThisType DEF TypeOK, FilterType
<1> DEFINE f == [filters[This(c)] EXCEPT !.filter = v]
<1>2. f \in FilterType /\ f.filter = v /\ f.hooked = filters[This(c)].hooked /\ f.old = filters[This(c)].old
  <2> DEFINE g == filters[This(c)]
  <2>1. g \in FilterType
    BY <1>1
  <2> HIDE DEF g
  <2> QED
    BY <2>1, Zenon DEF FilterType, f, g
<1>3. filters' = [filters EXCEPT ![This(c)] = f]
  BY <1>1 DEF Set
<1> HIDE DEF f
<1> QED
  BY <1>1, <1>2, <1>3

LEMMA SetOld ==
  ASSUME TypeOK, NEW c \in Ctl, NEW v \in Pointer, Set(c, "old", v)
  PROVE  /\ filters' \in [Id -> FilterType]
         /\ filters'[This(c)].old = v
         /\ filters'[This(c)].hooked = filters[This(c)].hooked
         /\ filters'[This(c)].filter = filters[This(c)].filter
         /\ \A id \in Id \ {This(c)} : filters'[id] = filters[id]
<1>1. This(c) \in Id /\ filters \in [Id -> FilterType]
  BY ThisType DEF TypeOK, FilterType
<1> DEFINE f == [filters[This(c)] EXCEPT !.old = v]
<1>2. f \in FilterType /\ f.old = v /\ f.hooked = filters[This(c)].hooked /\ f.filter = filters[This(c)].filter
  <2> DEFINE g == filters[This(c)]
  <2>1. g \in FilterType
    BY <1>1
  <2> HIDE DEF g
  <2> QED
    BY <2>1, Zenon DEF FilterType, f, g
<1>3. filters' = [filters EXCEPT ![This(c)] = f]
  BY <1>1 DEF Set
<1> HIDE DEF f
<1> QED
  BY <1>1, <1>2, <1>3

------------------------------------------------------------------------------
(* Every step keeps the state well formed, whoever overlaps whom.          *)
LEMMA ControlType ==
  ASSUME TypeOK, NEW c \in Ctl, Control(c)
  PROVE  TypeOK'
<1> USE DEF CtlType, FilterType
<1>1. CASE Start(c) \/ Stop(c)
  <2>1. ctl' \in [Ctl -> CtlType]
    BY <1>1, GoType DEF Start, Stop, TypeOK, StartStep, StopStep
  <2>2. call' \in [Thread -> CallType]
    <3>1. \A t \in Thread : call[t] \in CallType /\ Overlapped(call[t]) \in CallType
      BY Zenon DEF TypeOK, CallType, Overlapped
    <3> QED
      BY <1>1, <3>1 DEF Start, Stop, TypeOK, CallType
  <2>3. ioctls' \in 0 .. MaxIoctl
    BY <1>1, HooksAssumption DEF Start, Stop, TypeOK
  <2> QED
    BY <1>1, <2>1, <2>2, <2>3 DEF Start, Stop, TypeOK, CallType
<1>2. CASE RegExit(c) \/ RegSched(c)
  <2>1. ctl' \in [Ctl -> CtlType]
    BY <1>2, GoType, JumpType, Records DEF RegExit, RegSched, StartStep
  <2>2. probes' \subseteq Probe
    BY <1>2 DEF RegExit, RegSched, TypeOK, Probe
  <2> QED
    BY <1>2, <2>1, <2>2 DEF RegExit, RegSched, TypeOK
<1>3. CASE HookTest(c)
  <2>1. ctl' \in [Ctl -> CtlType]
    BY <1>3, GoType DEF HookTest, StartStep
  <2> QED
    BY <1>3, <2>1 DEF HookTest, TypeOK
<1>4. CASE HookMark(c) \/ HookSave(c)
  <2>1. ctl' \in [Ctl -> CtlType]
    BY <1>4, GoType DEF HookMark, HookSave, StartStep
  <2>2. filters' \in [Id -> FilterType]
    BY <1>4, SetHooked, SetOld, ThisType DEF HookMark, HookSave
  <2> QED
    BY <1>4, <2>1, <2>2 DEF HookMark, HookSave, TypeOK
<1>5. CASE HookPatch(c) \/ UnhookPatch(c)
  <2>1. ctl' \in [Ctl -> CtlType]
    BY <1>5, GoType DEF HookPatch, UnhookPatch, StartStep, StopStep
  <2>2. table' \in [Id -> Pointer]
    <3>1. filters[This(c)].old \in Pointer /\ "hook" \in Pointer
      BY ThisType DEF Pointer
    <3> QED
      BY <1>5, <3>1 DEF HookPatch, UnhookPatch, TypeOK
  <2> QED
    BY <1>5, <2>1, <2>2 DEF HookPatch, UnhookPatch, TypeOK
<1>6. CASE HookFilter(c)
  <2>1. [step |-> "start_done", i |-> 1] \in CtlType
    BY Order DEF StartStep
  <2>2. ctl[c].i # LastHook => [step |-> "hook_test", i |-> ctl[c].i + 1] \in CtlType
    BY Following DEF StartStep
  <2>3. ctl' \in [Ctl -> CtlType]
    BY <1>6, <2>1, <2>2, JumpType DEF HookFilter
  <2>4. filters' \in [Id -> FilterType]
    BY <1>6, SetFilter DEF HookFilter
  <2> QED
    BY <1>6, <2>3, <2>4 DEF HookFilter, TypeOK
<1>7. CASE StartDone(c) \/ StopDone(c)
  <2>1. ctl' \in [Ctl -> CtlType]
    BY <1>7, JumpType, Records DEF StartDone, StopDone
  <2>2. registered' \in BOOLEAN
    BY <1>7 DEF StartDone, StopDone
  <2> QED
    BY <1>7, <2>1, <2>2 DEF StartDone, StopDone, TypeOK
<1>8. CASE UnhookTest(c)
  <2>1. ctl' \in [Ctl -> CtlType]
    BY <1>8, GoType, NextUnhookType DEF UnhookTest, StopStep
  <2> QED
    BY <1>8, <2>1 DEF UnhookTest, TypeOK
<1>9. CASE UnhookMark(c) \/ UnhookForget(c)
  <2>1. ctl' \in [Ctl -> CtlType]
    BY <1>9, GoType, NextUnhookType DEF UnhookMark, UnhookForget, StopStep
  <2>2. filters' \in [Id -> FilterType]
    BY <1>9, SetHooked, SetOld DEF UnhookMark, UnhookForget, Pointer
  <2> QED
    BY <1>9, <2>1, <2>2 DEF UnhookMark, UnhookForget, TypeOK
<1>10. CASE UnregExit(c) \/ UnregSched(c)
  <2>1. ctl' \in [Ctl -> CtlType]
    BY <1>10, GoType DEF UnregExit, UnregSched, StopStep
  <2> QED
    BY <1>10, <2>1 DEF UnregExit, UnregSched, TypeOK
<1> QED
  BY <1>1, <1>2, <1>3, <1>4, <1>5, <1>6, <1>7, <1>8, <1>9, <1>10 DEF Control

LEMMA SystemType ==
  ASSUME TypeOK, NEW t \in Thread, System(t)
  PROVE  TypeOK'
<1>1. call \in [Thread -> CallType] /\ call[t] \in CallType
  BY DEF TypeOK, CallType
<1>2. ASSUME NEW s \in CallStep PROVE [call[t] EXCEPT !.step = s] \in CallType
  BY <1>1, Zenon DEF CallType
<1>3. ASSUME NEW s \in CallStep PROVE [call[t] EXCEPT !.step = s, !.through = TRUE] \in CallType
  BY <1>1, Zenon DEF CallType
<1>4. UNCHANGED <<registered, probes, table, filters, ctl, ioctls>>
  BY DEF System, Enter, AssertHooked, SkipFilter, Filter, CallOld, Leave
<1>5. ASSUME NEW id \in Id, Enter(t, id) PROVE TypeOK'
  <2> DEFINE s == CASE table[id] = "orig" -> "native"
                    [] table[id] = "hook" -> "hooked"
                    [] table[id] = "null" -> "oops"
  <2>1. s \in CallStep /\ registered \in BOOLEAN
    BY DEF TypeOK, Pointer, CallStep
  <2>2. Quiet \in BOOLEAN
    BY Zenon DEF Quiet
  <2>3. [step |-> s, id |-> id, through |-> FALSE, on |-> registered, alone |-> Quiet] \in CallType
    <3> HIDE DEF s
    <3> QED
      BY <2>1, <2>2, Zenon DEF CallType
  <2>4. call' \in [Thread -> CallType]
    BY <1>1, <1>5, <2>3 DEF Enter
  <2>5. calls' \in 0 .. MaxCall
    BY <1>5, HooksAssumption DEF Enter, TypeOK
  <2> QED
    BY <1>4, <2>4, <2>5 DEF TypeOK, CallType
<1>6. CASE AssertHooked(t) \/ SkipFilter(t) \/ Filter(t) \/ CallOld(t) \/ Leave(t)
  <2>1. \E k \in CallType : call' = [call EXCEPT ![t] = k]
    <3>1. CASE AssertHooked(t)
      BY <1>1, <1>2, <3>1 DEF AssertHooked, To, CallStep
    <3>2. CASE SkipFilter(t)
      BY <1>1, <1>3, <3>2 DEF SkipFilter, CallStep
    <3>3. CASE Filter(t)
      BY <1>1, <1>2, <1>3, <3>3, Records DEF Filter, To, CallStep
    <3>4. CASE CallOld(t)
      <4> DEFINE s == CASE filters[call[t].id].old = "orig" -> "native"
                        [] filters[call[t].id].old = "hook" -> "hooked"
                        [] filters[call[t].id].old = "null" -> "oops"
      <4>1. filters[call[t].id].old \in Pointer
        BY <1>1 DEF TypeOK, CallType
      <4>2. s \in CallStep
        BY <4>1 DEF Pointer, CallStep
      <4>3. call' = [call EXCEPT ![t].step = s]
        BY <3>4 DEF CallOld, To
      <4> HIDE DEF s
      <4> QED
        BY <1>1, <1>2, <4>2, <4>3
    <3>5. CASE Leave(t)
      BY <3>5, Records DEF Leave
    <3> QED
      BY <1>6, <3>1, <3>2, <3>3, <3>4, <3>5
  <2>2. call' \in [Thread -> CallType]
    BY <1>1, <2>1
  <2>3. calls' = calls
    BY <1>6 DEF AssertHooked, SkipFilter, Filter, CallOld, Leave
  <2> QED
    BY <1>4, <2>2, <2>3 DEF TypeOK, CallType
<1> QED
  BY <1>5, <1>6 DEF System

LEMMA TypeStep == TypeOK /\ [Next]_vars => TypeOK'
<1>1. TypeOK /\ UNCHANGED vars => TypeOK'
  BY DEF vars, TypeOK
<1> QED
  BY <1>1, ControlType, SystemType DEF Next

------------------------------------------------------------------------------
(* A step of the ioctl in progress: nobody else is in one, and no call is  *)
(* undisturbed, so the invariant is about this ioctl alone.                *)
LEMMA Frame ==
  ASSUME IInv, TypeOK', NEW c \in Ctl, ctl[c].step # "idle", UNCHANGED call,
         \A d \in Ctl \ {c} : ctl'[d] = ctl[d],
         ctl'[c].step = "idle" => ctl'[c] = Idle /\ Settled',
         ctl'[c] # Idle => Busy(c)'
  PROVE  IInv'
<1>1. ctl[c] # Idle /\ ~Quiet
  BY DEF Idle, Quiet
<1>2. \A d \in Ctl \ {c} : ctl[d] = Idle /\ ctl'[d] = Idle
  BY <1>1 DEF IInv
<1>3. \A a, b \in Ctl : ctl'[a] # Idle /\ ctl'[b] # Idle => a = b
  BY <1>2
<1>4. \A d \in Ctl : ctl'[d].step = "idle" => ctl'[d] = Idle
  BY <1>2
<1>5. \A d \in Ctl : ctl'[d] # Idle => Busy(d)'
  BY <1>2
<1>6. Quiet' => Settled'
  BY DEF Quiet, Idle
<1>7. \A t \in Thread : Undisturbed(call[t])'
  BY <1>1 DEF IInv, Undisturbed
<1> QED
  BY <1>3, <1>4, <1>5, <1>6, <1>7 DEF IInv

(* The entry at hand is the only one that changes.                         *)
LEMMA Elsewhere ==
  ASSUME TypeOK, NEW c \in Ctl,
         \A id \in Id \ {This(c)} : table'[id] = table[id] /\ filters'[id] = filters[id],
         NEW j \in 1 .. LastHook, j # ctl[c].i
  PROVE  /\ HookOrder[j] \in Id /\ HookOrder[j] # This(c)
         /\ On(HookOrder[j]) => On(HookOrder[j])'
         /\ Off(HookOrder[j]) => Off(HookOrder[j])'
<1>1. HookOrder[j] \in Id /\ HookOrder[j] # This(c)
  BY Order, ThisType DEF This
<1> QED
  BY <1>1 DEF On, Off

(* The first call of the order begins the loops, the last one ends them.   *)
OrderEnds ==
  /\ AllOn => Unhooking(1) /\ On(HookOrder[1])
  /\ AllOff => Hooking(1) /\ Off(HookOrder[1])
  /\ Hooking(LastHook) /\ On(HookOrder[LastHook]) => AllOn
  /\ Unhooking(LastHook) /\ Off(HookOrder[LastHook]) => AllOff

LEMMA Ends == OrderEnds
<1>1. AllOn => \A j \in 1 .. LastHook : On(HookOrder[j])
  BY Order DEF AllOn
<1>2. AllOff => \A j \in 1 .. LastHook : Off(HookOrder[j])
  BY Order DEF AllOff
<1>3. (\A j \in 1 .. LastHook : On(HookOrder[j])) => AllOn
  BY Order DEF AllOn
<1>4. (\A j \in 1 .. LastHook : Off(HookOrder[j])) => AllOff
  BY Order DEF AllOff
<1>5. \A j \in 1 .. LastHook : j < LastHook \/ j = LastHook
  BY Order
<1>6. \A j \in 1 .. LastHook : ~(j < 1)
  BY Order
<1> QED
  BY <1>1, <1>2, <1>3, <1>4, <1>5, <1>6, Order DEF OrderEnds, Hooking, Unhooking

LEMMA EndsNext == OrderEnds'
  BY Ends, PTL

LEMMA Steps ==
  /\ StartStep \cap StopStep = {} /\ "idle" \notin StartStep \cup StopStep
  /\ Idle.step = "idle" /\ Idle.i = 1
  BY DEF StartStep, StopStep, Idle

------------------------------------------------------------------------------
(* trace_syscall: what each step makes of its own assertion.               *)

------------------------------------------------------------------------------
(* trace_syscall: what each step makes of what the step before it left.    *)
LEMMA RegSteps ==
  ASSUME IInv, NEW c \in Ctl, RegExit(c) \/ RegSched(c)
  PROVE  IInv'
<1> USE DEF At
<1>1. TypeOK /\ TypeOK' /\ UNCHANGED <<call, table, filters, registered>> /\ ctl[c].step # "idle"
  BY ControlType DEF IInv, Control, RegExit, RegSched
<1>2. Busy(c) /\ ~registered /\ AllOff /\ ctl[c].i = 1
  BY <1>1, Steps DEF IInv, Busy, Begun, RegExit, RegSched, StartStep
<1>3. AllOff' /\ ~registered'
  BY <1>1, <1>2 DEF AllOff, Off
<1>4. CASE ctl' = [ctl EXCEPT ![c] = Idle]
  <2>1. ctl'[c] = Idle /\ \A d \in Ctl \ {c} : ctl'[d] = ctl[d]
    BY <1>1, <1>4, JumpType, Records
  <2>2. probes' = {}
    <3>1. CASE RegExit(c)
      <4>1. probes = {}
        BY <1>2, <3>1 DEF RegExit, Busy, Begun
      <4>2. ~Go(c, "reg_sched")
        BY <1>1, <2>1, GoType, Steps DEF StartStep
      <4> QED
        BY <3>1, <4>1, <4>2 DEF RegExit
    <3>2. CASE RegSched(c)
      <4>1. probes = {"sys_exit"}
        BY <1>2, <3>2 DEF RegSched, Busy, Begun
      <4>2. ~Go(c, "hook_test")
        BY <1>1, <2>1, GoType, Steps DEF StartStep
      <4> QED
        BY <3>2, <4>1, <4>2 DEF RegSched
    <3> QED
      BY <3>1, <3>2
  <2>3. Settled'
    BY <1>3, <2>2 DEF Settled
  <2> QED
    BY <1>1, <2>1, <2>3, Frame
<1>5. CASE RegExit(c) /\ Go(c, "reg_sched")
  <2>1. ctl'[c].step = "reg_sched" /\ ctl'[c].i = 1 /\ \A d \in Ctl \ {c} : ctl'[d] = ctl[d]
    BY <1>1, <1>2, <1>5, GoType DEF StartStep
  <2>2. probes' = {"sys_exit"}
    <3>1. probes = {}
      BY <1>2, <1>5 DEF RegExit, Busy, Begun
    <3>2. ctl' # [ctl EXCEPT ![c] = Idle]
      BY <1>1, <2>1, JumpType, Records, Steps
    <3> QED
      BY <1>5, <3>1, <3>2 DEF RegExit
  <2>3. Busy(c)'
    BY <1>3, <2>1, <2>2 DEF Busy, Begun, Patching, StopStep
  <2> QED
    BY <1>1, <2>1, <2>3, Frame
<1>6. CASE RegSched(c) /\ Go(c, "hook_test")
  <2>1. ctl'[c].step = "hook_test" /\ ctl'[c].i = 1 /\ \A d \in Ctl \ {c} : ctl'[d] = ctl[d]
    BY <1>1, <1>2, <1>6, GoType DEF StartStep
  <2>2. probes' = Probe
    <3>1. probes = {"sys_exit"}
      BY <1>2, <1>6 DEF RegSched, Busy, Begun
    <3>2. ctl' # [ctl EXCEPT ![c] = Idle]
      BY <1>1, <2>1, JumpType, Records, Steps
    <3> QED
      BY <1>6, <3>1, <3>2 DEF RegSched, Probe
  <2>3. Hooking(1)' /\ Off(HookOrder[1])'
    BY <1>3, EndsNext DEF OrderEnds
  <2>4. Hooking(ctl[c].i)' /\ Off(This(c))'
    BY <2>1, <2>3 DEF This, Hooking, Off
  <2>5. Busy(c)'
    BY <1>3, <2>1, <2>2, <2>4 DEF Busy, Begun, Patching, StopStep
  <2> QED
    BY <1>1, <2>1, <2>5, Frame
<1> QED
  BY <1>4, <1>5, <1>6 DEF RegExit, RegSched

LEMMA HookSteps ==
  ASSUME IInv, NEW c \in Ctl, HookTest(c) \/ HookMark(c) \/ HookSave(c) \/ HookPatch(c)
  PROVE  IInv'
<1> USE DEF At
<1>1. /\ TypeOK /\ TypeOK' /\ UNCHANGED <<call, registered, probes>>
      /\ ctl[c].step \in {"hook_test", "hook_mark", "hook_save", "hook_patch"}
  BY ControlType DEF IInv, Control, HookTest, HookMark, HookSave, HookPatch
<1>2. Busy(c) /\ ~registered /\ probes = Probe /\ Hooking(ctl[c].i)
  BY <1>1, Steps DEF IInv, Busy, Patching, StartStep
<1>3. \E s \in {"hook_mark", "hook_save", "hook_patch", "hook_filter"} : Go(c, s)
  BY DEF HookTest, HookMark, HookSave, HookPatch
<1>4. /\ ctl'[c].step \in {"hook_mark", "hook_save", "hook_patch", "hook_filter"}
      /\ ctl'[c].i = ctl[c].i /\ \A d \in Ctl \ {c} : ctl'[d] = ctl[d]
  BY <1>1, <1>3, GoType DEF StartStep
<1>5. This(c)' = This(c) /\ This(c) \in Id
  BY <1>1, <1>4, ThisType DEF This
<1>6. \A id \in Id \ {This(c)} : table'[id] = table[id] /\ filters'[id] = filters[id]
  <2>1. CASE HookTest(c)
    BY <2>1 DEF HookTest
  <2>2. CASE HookMark(c)
    BY <1>1, <2>2, SetHooked DEF HookMark
  <2>3. CASE HookSave(c)
    BY <1>1, <2>3, SetOld, ThisType DEF HookSave
  <2>4. CASE HookPatch(c)
    BY <1>1, <2>4 DEF HookPatch, TypeOK
  <2> QED
    BY <2>1, <2>2, <2>3, <2>4
<1>7. Hooking(ctl[c].i)'
  BY <1>1, <1>2, <1>4, <1>6, Elsewhere DEF Hooking
<1>8. Patching(c)'
  <2>1. CASE HookTest(c)
    <3>1. Off(This(c))
      BY <1>2, <2>1 DEF HookTest, Busy, Patching
    <3>2. ctl'[c].step = "hook_mark"
      BY <1>1, <2>1, <3>1, GoType DEF HookTest, StartStep, Off
    <3>3. Off(This(c))'
      BY <1>5, <2>1, <3>1 DEF HookTest, Off
    <3> QED
      BY <1>1, <1>2, <1>7, <3>2, <3>3 DEF Patching
  <2>2. CASE HookMark(c)
    <3>1. Off(This(c))
      BY <1>2, <2>2 DEF HookMark, Busy, Patching
    <3>2. ctl'[c].step = "hook_save"
      BY <1>1, <2>2, GoType DEF HookMark, StartStep
    <3>3. table'[This(c)'] = "orig" /\ filters'[This(c)'].hooked
      BY <1>1, <1>5, <2>2, <3>1, SetHooked DEF HookMark, Off
    <3> QED
      BY <1>1, <1>2, <1>7, <3>2, <3>3 DEF Patching
  <2>3. CASE HookSave(c)
    <3>1. table[This(c)] = "orig" /\ filters[This(c)].hooked
      BY <1>2, <2>3 DEF HookSave, Busy, Patching
    <3>2. ctl'[c].step = "hook_patch"
      BY <1>1, <2>3, GoType DEF HookSave, StartStep
    <3>3. table'[This(c)'] = "orig" /\ filters'[This(c)'].hooked /\ filters'[This(c)'].old = "orig"
      BY <1>1, <1>5, <2>3, <3>1, SetOld DEF HookSave, Pointer
    <3> QED
      BY <1>1, <1>2, <1>7, <3>2, <3>3 DEF Patching
  <2>4. CASE HookPatch(c)
    <3>1. filters[This(c)].hooked /\ filters[This(c)].old = "orig"
      BY <1>2, <2>4 DEF HookPatch, Busy, Patching
    <3>2. ctl'[c].step = "hook_filter"
      BY <1>1, <2>4, GoType DEF HookPatch, StartStep
    <3>3. table'[This(c)'] = "hook" /\ filters'[This(c)'].hooked /\ filters'[This(c)'].old = "orig"
      BY <1>1, <1>5, <2>4, <3>1 DEF HookPatch, TypeOK
    <3> QED
      BY <1>1, <1>2, <1>7, <3>2, <3>3 DEF Patching
  <2> QED
    BY <2>1, <2>2, <2>3, <2>4
<1>9. Busy(c)'
  BY <1>1, <1>2, <1>4, <1>8 DEF Busy, Begun, StopStep
<1> QED
  BY <1>1, <1>4, <1>9, Frame

(* The last store of an entry completes it, and the loop goes on or ends.  *)
LEMMA HookFilterStep ==
  ASSUME IInv, NEW c \in Ctl, HookFilter(c)
  PROVE  IInv'
<1> USE DEF At
<1>1. /\ TypeOK /\ TypeOK' /\ UNCHANGED <<call, registered, probes, table>>
      /\ ctl[c].step = "hook_filter"
  BY ControlType DEF IInv, Control, HookFilter
<1>2. /\ Busy(c) /\ ~registered /\ probes = Probe /\ Hooking(ctl[c].i)
      /\ table[This(c)] = "hook" /\ filters[This(c)].hooked /\ filters[This(c)].old = "orig"
  BY <1>1, Steps DEF IInv, Busy, Patching, StartStep
<1>kept. ~registered' /\ probes' = Probe
  BY <1>1, <1>2
<1>3. ctl[c].i \in 1 .. LastHook /\ This(c) \in Id
  BY <1>1, ThisType
<1>4. /\ \A id \in Id \ {This(c)} : table'[id] = table[id] /\ filters'[id] = filters[id]
      /\ filters'[This(c)].hooked /\ filters'[This(c)].filter /\ filters'[This(c)].old = "orig"
  BY <1>1, <1>2, SetFilter DEF HookFilter
<1>5. \A j \in 1 .. LastHook :
        (j <= ctl[c].i => On(HookOrder[j])') /\ (j > ctl[c].i => Off(HookOrder[j])')
  <2> SUFFICES ASSUME NEW j \in 1 .. LastHook
               PROVE  (j <= ctl[c].i => On(HookOrder[j])') /\ (j > ctl[c].i => Off(HookOrder[j])')
    OBVIOUS
  <2>1. CASE j = ctl[c].i
    <3>1. HookOrder[j] = This(c)
      BY <2>1 DEF This
    <3>2. On(HookOrder[j])'
      BY <1>1, <1>2, <1>4, <3>1 DEF On
    <3> QED
      BY <1>3, <2>1, <3>2, Order
  <2>2. CASE j # ctl[c].i
    <3>1. /\ On(HookOrder[j]) => On(HookOrder[j])'
          /\ Off(HookOrder[j]) => Off(HookOrder[j])'
      BY <1>1, <1>4, <2>2, Elsewhere
    <3>2. (j < ctl[c].i => On(HookOrder[j])) /\ (j > ctl[c].i => Off(HookOrder[j]))
      BY <1>2 DEF Hooking
    <3>3. j \in Nat /\ ctl[c].i \in Nat
      BY <1>3, Order
    <3> QED
      BY <2>2, <3>1, <3>2, <3>3
  <2> QED
    BY <2>1, <2>2
<1>6. CASE ctl[c].i = LastHook
  <2>1. [step |-> "start_done", i |-> 1] \in CtlType
    BY Order DEF CtlType, StartStep
  <2>2. ctl'[c] = [step |-> "start_done", i |-> 1] /\ \A d \in Ctl \ {c} : ctl'[d] = ctl[d]
    BY <1>1, <1>6, <2>1, JumpType DEF HookFilter
  <2>3. Hooking(LastHook)' /\ On(HookOrder[LastHook])'
    BY <1>5, <1>6, Order DEF Hooking
  <2>4. AllOn'
    BY <2>3, EndsNext DEF OrderEnds
  <2>5. ctl'[c].step = "start_done"
    BY <2>2
  <2>6. Busy(c)'
    BY <1>kept, <2>4, <2>5 DEF Busy, Begun, Patching, StopStep
  <2> QED
    BY <1>1, <2>2, <2>5, <2>6, Frame
<1>7. CASE ctl[c].i # LastHook
  <2>1. [step |-> "hook_test", i |-> ctl[c].i + 1] \in CtlType
    BY <1>1, <1>7, Following DEF CtlType, StartStep
  <2>2. ctl'[c] = [step |-> "hook_test", i |-> ctl[c].i + 1] /\ \A d \in Ctl \ {c} : ctl'[d] = ctl[d]
    BY <1>1, <1>7, <2>1, JumpType DEF HookFilter
  <2>3. Hooking(ctl[c].i)' /\ Off(This(c))'
    <3>1. ctl[c].i + 1 \in 1 .. LastHook
      BY <1>1, <1>7, Following
    <3>2. \A j \in 1 .. LastHook : (j < ctl[c].i + 1 <=> j <= ctl[c].i) /\ (j > ctl[c].i + 1 => j > ctl[c].i)
      BY <1>3, Order
    <3>3. ctl'[c].i = ctl[c].i + 1 /\ This(c)' = HookOrder[ctl[c].i + 1]
      BY <2>2 DEF This
    <3>4. PICK n \in 1 .. LastHook : n = ctl[c].i + 1 /\ n > ctl[c].i
      BY <1>3, <3>1, Order
    <3>5. Off(HookOrder[n])'
      BY <1>5, <3>4
    <3> QED
      BY <1>5, <3>2, <3>3, <3>4, <3>5 DEF Hooking, Off
  <2>4. ctl'[c].step = "hook_test"
    BY <2>2
  <2>5. Busy(c)'
    BY <1>kept, <2>3, <2>4 DEF Busy, Begun, Patching, StopStep
  <2> QED
    BY <1>1, <2>2, <2>4, <2>5, Frame
<1> QED
  BY <1>6, <1>7

LEMMA DoneSteps ==
  ASSUME IInv, NEW c \in Ctl, StartDone(c) \/ StopDone(c)
  PROVE  IInv'
<1> USE DEF At
<1>1. TypeOK /\ TypeOK' /\ UNCHANGED <<call, probes, table, filters>> /\ ctl[c].step # "idle"
  BY ControlType DEF IInv, Control, StartDone, StopDone
<1>2. ctl'[c] = Idle /\ \A d \in Ctl \ {c} : ctl'[d] = ctl[d]
  BY <1>1, JumpType, Records DEF StartDone, StopDone
<1>3. Busy(c)
  BY <1>1, Steps DEF IInv
<1>4. Settled'
  BY <1>1, <1>3 DEF StartDone, StopDone, Busy, Begun, Settled, AllOn, AllOff, On, Off
<1> QED
  BY <1>1, <1>2, <1>4, Frame

------------------------------------------------------------------------------
(* untrace_syscall.                                                        *)
LEMMA UnhookSteps ==
  ASSUME IInv, NEW c \in Ctl, UnhookTest(c) \/ UnhookPatch(c) \/ UnhookMark(c)
  PROVE  IInv'
<1> USE DEF At
<1>1. /\ TypeOK /\ TypeOK' /\ UNCHANGED <<call, registered, probes>>
      /\ ctl[c].step \in {"unhook_test", "unhook_patch", "unhook_mark"}
  BY ControlType DEF IInv, Control, UnhookTest, UnhookPatch, UnhookMark
<1>2. Busy(c) /\ registered /\ probes = Probe /\ Unhooking(ctl[c].i)
  BY <1>1, Steps DEF IInv, Busy, Patching, StopStep
<1>3. UnhookTest(c) => On(This(c))
  BY <1>2 DEF UnhookTest, Busy, Patching
<1>4. \E s \in {"unhook_patch", "unhook_mark", "unhook_forget"} : Go(c, s)
  BY <1>3 DEF UnhookTest, UnhookPatch, UnhookMark, On
<1>5. /\ ctl'[c].step \in {"unhook_patch", "unhook_mark", "unhook_forget"}
      /\ ctl'[c].i = ctl[c].i /\ \A d \in Ctl \ {c} : ctl'[d] = ctl[d]
  BY <1>1, <1>4, GoType DEF StopStep
<1>6. This(c)' = This(c) /\ This(c) \in Id
  BY <1>1, <1>5, ThisType DEF This
<1>7. \A id \in Id \ {This(c)} : table'[id] = table[id] /\ filters'[id] = filters[id]
  BY <1>1, SetHooked DEF UnhookTest, UnhookPatch, UnhookMark, TypeOK
<1>8. Unhooking(ctl[c].i)'
  BY <1>1, <1>2, <1>5, <1>7, Elsewhere DEF Unhooking
<1>9. Patching(c)'
  <2>1. CASE UnhookTest(c)
    <3>1. ctl'[c].step = "unhook_patch"
      BY <1>1, <1>3, <2>1, GoType DEF UnhookTest, StopStep, On
    <3>2. On(This(c))'
      BY <1>3, <1>6, <2>1 DEF UnhookTest, On
    <3> QED
      BY <1>1, <1>2, <1>8, <3>1, <3>2 DEF Patching
  <2>2. CASE UnhookPatch(c)
    <3>1. On(This(c))
      BY <1>2, <2>2 DEF UnhookPatch, Busy, Patching
    <3>2. ctl'[c].step = "unhook_mark"
      BY <1>1, <2>2, GoType DEF UnhookPatch, StopStep
    <3>3. table'[This(c)'] = "orig"
      <4>1. table' = [table EXCEPT ![This(c)] = "orig"]
        BY <2>2, <3>1 DEF UnhookPatch, On
      <4>2. table \in [Id -> Pointer]
        BY <1>1 DEF TypeOK
      <4> QED
        BY <4>1, <4>2, <1>6
    <3> QED
      BY <1>1, <1>2, <1>8, <3>2, <3>3 DEF Patching
  <2>3. CASE UnhookMark(c)
    <3>1. table[This(c)] = "orig"
      BY <1>2, <2>3 DEF UnhookMark, Busy, Patching
    <3>2. ctl'[c].step = "unhook_forget"
      BY <1>1, <2>3, GoType DEF UnhookMark, StopStep
    <3>3. table'[This(c)'] = "orig" /\ ~filters'[This(c)'].hooked
      BY <1>1, <1>6, <2>3, <3>1, SetHooked DEF UnhookMark
    <3> QED
      BY <1>1, <1>2, <1>8, <3>2, <3>3 DEF Patching
  <2> QED
    BY <2>1, <2>2, <2>3
<1>10. Busy(c)'
  BY <1>1, <1>2, <1>5, <1>9 DEF Busy, Begun, StartStep
<1> QED
  BY <1>1, <1>5, <1>10, Frame

LEMMA UnhookForgetStep ==
  ASSUME IInv, NEW c \in Ctl, UnhookForget(c)
  PROVE  IInv'
<1> USE DEF At
<1>1. /\ TypeOK /\ TypeOK' /\ UNCHANGED <<call, registered, probes, table>>
      /\ ctl[c].step = "unhook_forget" /\ NextUnhook(c)
  BY ControlType DEF IInv, Control, UnhookForget
<1>2. /\ Busy(c) /\ registered /\ probes = Probe /\ Unhooking(ctl[c].i)
      /\ Off(This(c))
  BY <1>1, Steps DEF IInv, Busy, Patching, StopStep, Off
<1>kept. registered' /\ probes' = Probe
  BY <1>1, <1>2
<1>3. ctl[c].i \in 1 .. LastHook /\ This(c) \in Id
  BY <1>1, ThisType
<1>4. /\ \A id \in Id \ {This(c)} : table'[id] = table[id] /\ filters'[id] = filters[id]
      /\ filters'[This(c)].hooked = filters[This(c)].hooked
  BY <1>1, SetOld DEF UnhookForget, Pointer
<1>5. \A j \in 1 .. LastHook :
        (j <= ctl[c].i => Off(HookOrder[j])') /\ (j > ctl[c].i => On(HookOrder[j])')
  <2> SUFFICES ASSUME NEW j \in 1 .. LastHook
               PROVE  (j <= ctl[c].i => Off(HookOrder[j])') /\ (j > ctl[c].i => On(HookOrder[j])')
    OBVIOUS
  <2>1. CASE j = ctl[c].i
    <3>1. HookOrder[j] = This(c)
      BY <2>1 DEF This
    <3>2. Off(HookOrder[j])'
      BY <1>1, <1>2, <1>4, <3>1 DEF Off
    <3> QED
      BY <1>3, <2>1, <3>2, Order
  <2>2. CASE j # ctl[c].i
    <3>1. /\ On(HookOrder[j]) => On(HookOrder[j])'
          /\ Off(HookOrder[j]) => Off(HookOrder[j])'
      BY <1>1, <1>4, <2>2, Elsewhere
    <3>2. (j < ctl[c].i => Off(HookOrder[j])) /\ (j > ctl[c].i => On(HookOrder[j]))
      BY <1>2 DEF Unhooking
    <3>3. j \in Nat /\ ctl[c].i \in Nat
      BY <1>3, Order
    <3> QED
      BY <2>2, <3>1, <3>2, <3>3
  <2> QED
    BY <2>1, <2>2
<1>6. CASE ctl[c].i = LastHook
  <2>1. ctl'[c] = [step |-> "unreg_exit", i |-> 1] /\ \A d \in Ctl \ {c} : ctl'[d] = ctl[d]
    BY <1>1, <1>6, NextUnhookType
  <2>2. Unhooking(LastHook)' /\ Off(HookOrder[LastHook])'
    BY <1>5, <1>6, Order DEF Unhooking
  <2>3. AllOff'
    BY <2>2, EndsNext DEF OrderEnds
  <2>4. ctl'[c].step = "unreg_exit"
    BY <2>1
  <2>5. Busy(c)'
    BY <1>kept, <2>3, <2>4 DEF Busy, Begun, Patching, StartStep
  <2> QED
    BY <1>1, <2>1, <2>4, <2>5, Frame
<1>7. CASE ctl[c].i # LastHook
  <2>1. ctl'[c] = [step |-> "unhook_test", i |-> ctl[c].i + 1] /\ \A d \in Ctl \ {c} : ctl'[d] = ctl[d]
    BY <1>1, <1>7, NextUnhookType
  <2>2. Unhooking(ctl[c].i)' /\ On(This(c))'
    <3>1. ctl[c].i + 1 \in 1 .. LastHook
      BY <1>1, <1>7, Following
    <3>2. \A j \in 1 .. LastHook : (j < ctl[c].i + 1 <=> j <= ctl[c].i) /\ (j > ctl[c].i + 1 => j > ctl[c].i)
      BY <1>3, Order
    <3>3. ctl'[c].i = ctl[c].i + 1 /\ This(c)' = HookOrder[ctl[c].i + 1]
      BY <2>1 DEF This
    <3>4. PICK n \in 1 .. LastHook : n = ctl[c].i + 1 /\ n > ctl[c].i
      BY <1>3, <3>1, Order
    <3>5. On(HookOrder[n])'
      BY <1>5, <3>4
    <3> QED
      BY <1>5, <3>2, <3>3, <3>4, <3>5 DEF Unhooking, On
  <2>3. ctl'[c].step = "unhook_test"
    BY <2>1
  <2>4. Busy(c)'
    BY <1>kept, <2>2, <2>3 DEF Busy, Begun, Patching, StartStep
  <2> QED
    BY <1>1, <2>1, <2>3, <2>4, Frame
<1> QED
  BY <1>6, <1>7

LEMMA UnregSteps ==
  ASSUME IInv, NEW c \in Ctl, UnregExit(c) \/ UnregSched(c)
  PROVE  IInv'
<1> USE DEF At
<1>1. TypeOK /\ TypeOK' /\ UNCHANGED <<call, registered, table, filters>> /\ ctl[c].step # "idle"
  BY ControlType DEF IInv, Control, UnregExit, UnregSched
<1>2. Busy(c) /\ registered /\ AllOff
  BY <1>1, Steps DEF IInv, Busy, Begun, UnregExit, UnregSched, StopStep
<1>3. AllOff' /\ registered'
  BY <1>1, <1>2 DEF AllOff, Off
<1>4. CASE UnregExit(c)
  <2>1. ctl'[c].step = "unreg_sched" /\ \A d \in Ctl \ {c} : ctl'[d] = ctl[d]
    BY <1>1, <1>4, GoType DEF UnregExit, StopStep
  <2>2. probes' = {"sched_process_exit"}
    BY <1>2, <1>4 DEF UnregExit, Busy, Begun, Probe
  <2>3. Busy(c)'
    BY <1>3, <2>1, <2>2 DEF Busy, Begun, Patching, StartStep
  <2> QED
    BY <1>1, <2>1, <2>3, Frame
<1>5. CASE UnregSched(c)
  <2>1. ctl'[c].step = "stop_done" /\ \A d \in Ctl \ {c} : ctl'[d] = ctl[d]
    BY <1>1, <1>5, GoType DEF UnregSched, StopStep
  <2>2. probes' = {}
    BY <1>2, <1>5 DEF UnregSched, Busy, Begun
  <2>3. Busy(c)'
    BY <1>3, <2>1, <2>2 DEF Busy, Begun, Patching, StartStep
  <2> QED
    BY <1>1, <2>1, <2>3, Frame
<1> QED
  BY <1>4, <1>5

------------------------------------------------------------------------------
(* START and STOP begin only when nobody else is in one.                   *)
LEMMA BeginSteps ==
  ASSUME Serial, IInv, NEW c \in Ctl, Start(c) \/ Stop(c)
  PROVE  IInv'
<1> USE DEF At
<1>1. /\ TypeOK /\ TypeOK' /\ UNCHANGED <<registered, probes, table, filters>>
      /\ Quiet /\ ctl[c] = Idle /\ Settled
  BY ControlType DEF IInv, Control, Start, Stop
<1>2. Settled' /\ (AllOn => AllOn') /\ (AllOff => AllOff')
  BY <1>1 DEF Settled, AllOn, AllOff, On, Off
<1>3. CASE UNCHANGED <<ctl, call>>
  <2>1. Quiet'
    BY <1>1, <1>3 DEF Quiet
  <2>2. \A t \in Thread : Undisturbed(call[t])'
    BY <1>1, <1>3, <2>1 DEF IInv, Undisturbed
  <2> QED
    BY <1>1, <1>2, <2>1, <2>2, Steps DEF IInv, Quiet
<1>4. CASE /\ call' = [t \in Thread |-> Overlapped(call[t])]
           /\ \/ ~registered /\ Go(c, "reg_exit")
              \/ registered /\ Go(c, "unhook_test")
  <2>1. /\ ctl'[c].step \in {"reg_exit", "unhook_test"} /\ ctl'[c].i = 1
        /\ \A d \in Ctl \ {c} : ctl'[d] = Idle
    BY <1>1, <1>4, GoType, Steps DEF StartStep, StopStep, Quiet
  <2>2. Busy(c)'
    <3>1. CASE ~registered /\ Go(c, "reg_exit")
      <4>1. ctl'[c].step = "reg_exit"
        BY <1>1, <3>1, GoType DEF StartStep
      <4> QED
        BY <1>1, <1>2, <2>1, <3>1, <4>1 DEF Settled, Busy, Begun, Patching, StopStep
    <3>2. CASE registered /\ Go(c, "unhook_test")
      <4>1. ctl'[c].step = "unhook_test"
        BY <1>1, <3>2, GoType DEF StopStep
      <4>2. AllOn' /\ probes' = Probe
        BY <1>1, <1>2, <3>2 DEF Settled
      <4>3. Unhooking(1)' /\ On(HookOrder[1])'
        BY <4>2, EndsNext DEF OrderEnds
      <4>4. Unhooking(ctl[c].i)' /\ On(This(c))'
        BY <2>1, <4>3 DEF This, Unhooking, On
      <4> QED
        BY <1>1, <3>2, <4>1, <4>2, <4>4 DEF Busy, Begun, Patching, StartStep
    <3> QED
      BY <1>4, <3>1, <3>2
  <2>3. \A t \in Thread : Undisturbed(call[t])'
    <3> SUFFICES ASSUME NEW t \in Thread PROVE Undisturbed(call[t])'
      OBVIOUS
    <3>1. call'[t] = Overlapped(call[t]) /\ call[t] \in CallType
      BY <1>1, <1>4 DEF TypeOK, CallType
    <3>2. call'[t].step = "user" \/ ~call'[t].alone
      BY <3>1 DEF Overlapped, NoCall, CallType
    <3> QED
      BY <3>2 DEF Undisturbed
  <2>4. ~Quiet'
    BY <2>1, Steps DEF Quiet
  <2> QED
    BY <1>1, <2>1, <2>2, <2>3, <2>4, Steps DEF IInv
<1> QED
  BY <1>3, <1>4 DEF Start, Stop

------------------------------------------------------------------------------
(* A step of a system call changes this call alone.                        *)
LEMMA CallFrame ==
  ASSUME IInv, TypeOK', NEW t \in Thread,
         UNCHANGED <<registered, probes, table, filters, ctl>>,
         \A u \in Thread \ {t} : call'[u] = call[u],
         Undisturbed(call[t])'
  PROVE  IInv'
<1>1. (Quiet <=> Quiet') /\ (Settled => Settled')
  BY DEF Quiet, Settled, AllOn, AllOff, On, Off
<1>2. \A u \in Thread : Undisturbed(call[u])'
  BY <1>1 DEF IInv, Undisturbed
<1>3. \A c \in Ctl : Busy(c) => Busy(c)'
  <2> SUFFICES ASSUME NEW c \in Ctl, Busy(c) PROVE Busy(c)'
    OBVIOUS
  <2>1. Begun(c)'
    BY DEF Busy, Begun, At, AllOn, AllOff, On, Off
  <2>2. Patching(c)'
    BY DEF Busy, Patching, At, This, Hooking, Unhooking, On, Off
  <2> QED
    BY <2>1, <2>2 DEF Busy
<1> QED
  BY <1>1, <1>2, <1>3 DEF IInv

LEMMA SystemSteps ==
  ASSUME IInv, NEW t \in Thread, System(t)
  PROVE  IInv'
<1>1. TypeOK /\ TypeOK' /\ UNCHANGED <<registered, probes, table, filters, ctl>>
  BY SystemType DEF IInv, System, Enter, AssertHooked, SkipFilter, Filter, CallOld, Leave
<1>2. call \in [Thread -> CallType] /\ call[t] \in CallType /\ call[t].id \in Id
  BY <1>1 DEF TypeOK, CallType
<1>3. \A u \in Thread \ {t} : call'[u] = call[u]
  BY <1>2 DEF System, Enter, AssertHooked, SkipFilter, Filter, CallOld, Leave, To
<1>4. Quiet' = Quiet /\ (Quiet => Settled)
  BY <1>1 DEF Quiet, IInv
<1>5. Undisturbed(call[t])
  BY DEF IInv
<1> SUFFICES Undisturbed(call[t])'
  BY <1>1, <1>3, CallFrame
<1>6. ASSUME NEW id \in Id, Enter(t, id) PROVE Undisturbed(call[t])'
  <2>1. Quiet => (registered => table[id] = "hook") /\ (~registered => table[id] = "orig")
    BY <1>4 DEF Settled, AllOn, AllOff, On, Off
  <2>2. /\ call'[t].alone = Quiet /\ call'[t].on = registered /\ call'[t].through = FALSE
        /\ table[id] = "orig" => call'[t].step = "native"
        /\ table[id] = "hook" => call'[t].step = "hooked"
    BY <1>2, <1>6 DEF Enter
  <2>3. registered \in BOOLEAN /\ Quiet \in BOOLEAN
    BY <1>1 DEF TypeOK, Quiet
  <2> QED
    BY <1>1, <1>4, <2>1, <2>2, <2>3 DEF Undisturbed
<1>7. CASE call[t].alone /\ call[t].step \in {"hooked", "filter", "old", "native"}
  <2>1. Quiet /\ call[t].on = registered
    BY <1>5, <1>7 DEF Undisturbed
  <2>2. call[t].step \in {"hooked", "filter", "old"} => registered /\ On(call[t].id)
    BY <1>2, <1>4, <1>5, <1>7, <2>1 DEF Undisturbed, Settled, AllOn
  <2>3. ASSUME AssertHooked(t) PROVE Undisturbed(call[t])'
    <3>1. call'[t] = [call[t] EXCEPT !.step = "filter"]
      BY <1>2, <2>2, <2>3 DEF AssertHooked, To, On
    <3>2. call'[t].step = "filter" /\ call'[t].on = call[t].on
      BY <1>2, <3>1 DEF CallType
    <3> QED
      BY <1>1, <1>4, <2>1, <2>2, <2>3, <3>2 DEF Undisturbed, AssertHooked
  <2>4. ASSUME call' = [call EXCEPT ![t].step = "old", ![t].through = TRUE],
               call[t].step \in {"hooked", "filter"}
        PROVE  Undisturbed(call[t])'
    <3>1. call'[t] = [call[t] EXCEPT !.step = "old", !.through = TRUE]
      BY <1>2, <2>4
    <3>2. call'[t].step = "old" /\ call'[t].on = call[t].on /\ call'[t].through
      BY <1>2, <3>1 DEF CallType
    <3> QED
      BY <1>1, <1>4, <2>1, <2>2, <2>4, <3>2 DEF Undisturbed
  <2>5. ASSUME call' = [call EXCEPT ![t] = NoCall] PROVE Undisturbed(call[t])'
    <3>1. call'[t].step = "user"
      BY <1>2, <2>5 DEF NoCall
    <3> QED
      BY <3>1 DEF Undisturbed
  <2>6. ASSUME CallOld(t) PROVE Undisturbed(call[t])'
    <3>1. filters[call[t].id].old = "orig" /\ call[t].through
      BY <1>5, <1>7, <2>2, <2>6 DEF CallOld, On, Undisturbed
    <3>2. call'[t] = [call[t] EXCEPT !.step = "native"]
      BY <1>2, <2>6, <3>1 DEF CallOld, To
    <3>3. call'[t].step = "native" /\ call'[t].on = call[t].on /\ call'[t].through = call[t].through
      BY <1>2, <3>2 DEF CallType
    <3> QED
      BY <1>1, <1>2, <1>4, <2>1, <2>2, <2>6, <3>1, <3>3 DEF Undisturbed, CallOld, TypeOK
  <2>7. ASSUME SkipFilter(t) \/ Filter(t) \/ Leave(t) PROVE Undisturbed(call[t])'
    BY <2>2, <2>4, <2>5, <2>7 DEF SkipFilter, Filter, Leave, On
  <2>8. ASSUME NEW id \in Id PROVE ~Enter(t, id)
    BY <1>7 DEF Enter
  <2> QED
    BY <2>3, <2>6, <2>7, <2>8 DEF System
<1>8. CASE ~call[t].alone /\ call[t].step # "user"
  <2>1. call'[t].step = "user" \/ call'[t].alone = call[t].alone
    BY <1>2, <1>8 DEF System, Enter, AssertHooked, SkipFilter, Filter, CallOld, Leave, To, CallType, NoCall
  <2> QED
    BY <1>8, <2>1 DEF Undisturbed
<1>9. CASE call[t].step = "user"
  BY <1>6, <1>9 DEF System, AssertHooked, SkipFilter, Filter, CallOld, Leave
<1>10. call[t].alone => call[t].step \notin {"bug", "oops"}
  BY <1>5 DEF Undisturbed
<1> QED
  BY <1>2, <1>7, <1>8, <1>9, <1>10 DEF CallType, CallStep

------------------------------------------------------------------------------
LEMMA Inductive ==
  ASSUME Serial, IInv, [Next]_vars
  PROVE  IInv'
<1>1. CASE UNCHANGED vars
  <2>1. TypeOK' /\ (Quiet <=> Quiet') /\ (Settled => Settled')
    BY <1>1, TypeStep DEF IInv, vars, Quiet, Settled, AllOn, AllOff, On, Off
  <2>2. \A c \in Ctl : Busy(c) => Busy(c)'
    <3> SUFFICES ASSUME NEW c \in Ctl, Busy(c) PROVE Busy(c)'
      OBVIOUS
    <3>1. Begun(c)'
      BY <1>1 DEF vars, Busy, Begun, At, AllOn, AllOff, On, Off
    <3>2. Patching(c)'
      BY <1>1 DEF vars, Busy, Patching, At, This, Hooking, Unhooking, On, Off
    <3> QED
      BY <1>1, <3>1, <3>2 DEF vars, Busy
  <2>3. \A t \in Thread : Undisturbed(call[t])'
    BY <1>1, <2>1 DEF vars, IInv, Undisturbed
  <2> QED
    BY <1>1, <2>1, <2>2, <2>3 DEF vars, IInv
<1>2. ASSUME NEW c \in Ctl, Control(c) PROVE IInv'
  BY <1>2, RegSteps, HookSteps, HookFilterStep, DoneSteps, UnhookSteps, UnhookForgetStep,
     UnregSteps, BeginSteps DEF Control
<1>3. ASSUME NEW t \in Thread, System(t) PROVE IInv'
  BY <1>3, SystemSteps
<1> QED
  BY <1>1, <1>2, <1>3 DEF Next

(* However START, STOP and the system calls interleave, one process or     *)
(* many at the ioctls, a failed registration included: every entry of the  *)
(* table and every saved handler is a known pointer and every ioctl and    *)
(* call at a known step (trace_syscall, untrace_syscall, hook_general).    *)
THEOREM TypeCorrect == Spec => []TypeOK
<1>1. Init => TypeOK
  BY Initially DEF IInv
<1> QED
  BY <1>1, TypeStep, PTL DEF Spec

(* When START and STOP wait for each other, the tracing is on or off as a  *)
(* whole between two of them, whatever the number of control processes and *)
(* of hooked calls and whichever registration fails (trace_syscall,        *)
(* untrace_syscall).                                                       *)
THEOREM TracingOnOrOff ==
  ASSUME Serial
  PROVE  Spec => []OnOrOff
<1>1. IInv /\ [Next]_vars => IInv'
  BY Inductive
<1>2. IInv => OnOrOff
  <2> SUFFICES ASSUME IInv, Quiet, registered, probes = Probe, AllOn, NEW id \in Id
               PROVE  filters[id] = [hooked |-> TRUE, filter |-> TRUE, old |-> "orig"]
    BY DEF IInv, Settled, OnOrOff, AllOn, AllOff, On, Off
  <2>1. filters[id] \in FilterType
    BY DEF IInv, TypeOK, FilterType
  <2>2. filters[id].hooked /\ filters[id].filter /\ filters[id].old = "orig"
    BY DEF AllOn, On
  <2> QED
    BY <2>1, <2>2 DEF FilterType
<1> QED
  BY Initially, <1>1, <1>2, PTL DEF Spec

(* And a system call that no START or STOP overlaps goes through           *)
(* hook_general without a failed ASSERT or a call of a null pointer, and   *)
(* reaches the original handler by way of the hook if and only if the      *)
(* tracing is on.                                                          *)
THEOREM UndisturbedCallsGoThrough ==
  ASSUME Serial
  PROVE  Spec => []CallsGoThrough
<1>1. IInv /\ [Next]_vars => IInv'
  BY Inductive
<1>2. IInv => CallsGoThrough
  BY DEF IInv, Undisturbed, CallsGoThrough
<1> QED
  BY Initially, <1>1, <1>2, PTL DEF Spec
==============================================================================
