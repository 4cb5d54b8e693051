----------------------- MODULE ModuleLifecycleProofs -----------------------
(* Proofs about ModuleLifecycle: what nodrop_init acquires is given back,  *)
(* and what the probe uses is there, for any number of threads and loads.  *)
EXTENDS ModuleLifecycle, TLAPS

(* What loader_init can leave behind: never the path of the interpreter,   *)
(* and nothing that the other parts of the module acquire.                 *)
LoaderHolds == Resource \ {"interp_path", "cache", "proc"}

(* While the probes may run, and until procinfo_destroy has ended, the     *)
(* cache is there, and the image unless loader_init reported none.         *)
Provided ==
  phase \in {"up", "untrace", "destroy"} =>
    "cache" \in held /\ ("monitor" \in held \/ "no_image" \in odd)

(* What is held in each phase; nodrop_exit gives it back in this order.    *)
HeldInPhase ==
  /\ held \subseteq Resource \ {"interp_path"}
  /\ phase # "up" => "proc" \notin held
  /\ phase \in {"loader", "absent"} => "cache" \notin held
  /\ phase = "absent" => held \subseteq {"shstrtab"}

(* When no thread was inside as the probes were removed, none is in a      *)
(* probe afterwards, and no status is left once procinfo_destroy has ended.*)
Undisturbed ==
  "busy" \notin odd =>
    /\ "used_freed" \notin odd
    /\ \A t \in Thread : place[t] = "probe" => phase \in {"up", "untrace"}
    /\ phase \in {"loader", "absent"} => \A t \in Thread : info[t] = "none"

IInv ==
  /\ TypeOK
  /\ traced => phase \in {"up", "untrace"}
  /\ Provided
  /\ HeldInPhase
  /\ Undisturbed

------------------------------------------------------------------------------
LEMMA StepsOfLoader ==
  /\ LastStep = 12
  /\ \A n \in 1 .. 12 : /\ LoaderSteps[n].get \subseteq Resource \ {"cache", "proc"}
                        /\ "interp_path" \in LoaderSteps[n].get => n = 8
                        /\ n \in 9 .. 12 => n = 12 \/ "interp_path" \in LoaderSteps[n].undo
  /\ LoaderSteps[1].get = {"monitor"}
<1>1. Len(LoaderSteps) = 12
  BY DEF LoaderSteps
<1>2. /\ LoaderSteps[1].get = {"monitor"}
      /\ LoaderSteps[2].get = {}
      /\ LoaderSteps[3].get = {"phdata"}
      /\ LoaderSteps[4].get = {"shdata"}
      /\ LoaderSteps[5].get = {"shstrtab"}
      /\ LoaderSteps[6].get = {}
      /\ LoaderSteps[7].get = {}
      /\ LoaderSteps[8].get = {"interp_path"}
      /\ LoaderSteps[9].get = {}
      /\ LoaderSteps[10].get = {"interp"}
      /\ LoaderSteps[11].get = {}
      /\ LoaderSteps[12].get = {"interp_phdata"}
  BY DEF LoaderSteps, LoaderStep
<1>3. /\ LoaderSteps[9].undo = OutFreeInterp
      /\ LoaderSteps[10].undo = OutFreeInterp
      /\ LoaderSteps[11].undo = OutFreeDentry
  BY DEF LoaderSteps, LoaderStep
<1>4. ASSUME NEW n \in 1 .. 12
      PROVE  \/ n = 1 \/ n = 2 \/ n = 3 \/ n = 4 \/ n = 5 \/ n = 6
             \/ n = 7 \/ n = 8 \/ n = 9 \/ n = 10 \/ n = 11 \/ n = 12
  OBVIOUS
<1>5. ASSUME NEW n \in 1 .. 12
      PROVE  /\ LoaderSteps[n].get \subseteq Resource \ {"cache", "proc"}
             /\ "interp_path" \in LoaderSteps[n].get => n = 8
  <2> HIDE DEF LoaderSteps
  <2> QED
    BY <1>2, <1>4 DEF Resource
<1>6. ASSUME NEW n \in 9 .. 12
      PROVE  n = 12 \/ "interp_path" \in LoaderSteps[n].undo
  <2>1. n = 9 \/ n = 10 \/ n = 11 \/ n = 12
    OBVIOUS
  <2> QED
    BY <1>3, <2>1 DEF OutFreeInterp, OutFreeDentry
<1> QED
  BY <1>1, <1>2, <1>5, <1>6 DEF LastStep

LEMMA HeldAfterSteps ==
  ASSUME NEW n \in 0 .. 12
  PROVE  /\ HeldAfter(n) \subseteq Resource \ {"cache", "proc"}
         /\ n >= 1 => "monitor" \in HeldAfter(n)
         /\ n \notin 8 .. 10 => "interp_path" \notin HeldAfter(n)
<1>1. \A i \in 1 .. n : i \in 1 .. 12
  OBVIOUS
<1>2. HeldAfter(n) \subseteq UNION {LoaderSteps[i].get : i \in 1 .. n}
  BY DEF HeldAfter
<1>3. HeldAfter(n) \subseteq Resource \ {"cache", "proc"}
  BY <1>1, <1>2, StepsOfLoader
<1>4. n >= 1 => "monitor" \in HeldAfter(n)
  <2>1. n >= 1 => 1 \in 1 .. n
    OBVIOUS
  <2> QED
    BY <2>1, StepsOfLoader DEF HeldAfter
<1>5. CASE n >= 11
  BY <1>3, <1>4, <1>5 DEF HeldAfter, PathLength
<1>6. CASE n < 8
  <2>1. \A i \in 1 .. n : i \in 1 .. 12 /\ i # 8
    BY <1>6
  <2>2. "interp_path" \notin HeldAfter(n)
    BY <1>2, <2>1, StepsOfLoader
  <2> QED
    BY <1>3, <1>4, <2>2
<1>7. CASE n \in 8 .. 10
  BY <1>3, <1>4, <1>7
<1> QED
  BY <1>5, <1>6, <1>7

(* Whatever loader_init returns, it has released the path, and it reports  *)
(* success only with the image or after the length that it misjudges.      *)
LEMMA LoaderOutcome ==
  ASSUME NEW o \in LoaderInit
  PROVE  /\ o.held \subseteq LoaderHolds
         /\ o.odd \subseteq {"no_image", "junk_freed"}
         /\ o.ret = 0 => "monitor" \in o.held \/ "no_image" \in o.odd
<1>1. ASSUME NEW n \in {StaticSteps, LastStep},
             o = [ret |-> 0, held |-> HeldAfter(n), odd |-> {}]
      PROVE  o.held \subseteq LoaderHolds /\ "monitor" \in o.held /\ o.odd = {}
  <2>1. n \in 0 .. 12 /\ n >= 1 /\ n \notin 8 .. 10
    BY StepsOfLoader DEF StaticSteps
  <2> QED
    BY <1>1, <2>1, HeldAfterSteps DEF LoaderHolds
<1>2. ASSUME NEW n \in 1 .. LastStep, NEW junk \in BOOLEAN, o = LoaderFailure(n, junk)
      PROVE  /\ o.held \subseteq LoaderHolds
             /\ o.odd \subseteq {"no_image", "junk_freed"}
             /\ o.ret = 0 => "no_image" \in o.odd
  <2>1. n \in 1 .. 12 /\ n - 1 \in 0 .. 12
    BY StepsOfLoader
  <2>2. o.held = HeldAfter(n - 1) \ LoaderSteps[n].undo
    BY <1>2 DEF LoaderFailure
  <2>3. "interp_path" \notin o.held
    <3>1. CASE n - 1 \in 8 .. 10
      BY <2>1, <2>2, <3>1, StepsOfLoader
    <3>2. CASE n - 1 \notin 8 .. 10
      BY <2>1, <2>2, <3>2, HeldAfterSteps
    <3> QED
      BY <3>1, <3>2
  <2>4. o.held \subseteq LoaderHolds
    BY <2>1, <2>2, <2>3, HeldAfterSteps DEF LoaderHolds
  <2>5. /\ o.odd \subseteq {"no_image", "junk_freed"}
        /\ o.ret = 0 => "no_image" \in o.odd
    BY <1>2 DEF LoaderFailure
  <2> QED
    BY <2>4, <2>5
<1>3. \/ \E n \in {StaticSteps, LastStep} : o = [ret |-> 0, held |-> HeldAfter(n), odd |-> {}]
      \/ \E n \in 1 .. LastStep, junk \in BOOLEAN : o = LoaderFailure(n, junk)
  BY DEF LoaderInit, FreesJunk
<1> QED
  BY <1>1, <1>2, <1>3

LEMMA DestroyLeavesNames ==
  ASSUME NEW h \in SUBSET LoaderHolds
  PROVE  LoaderDestroy(h) \subseteq {"shstrtab"}
  BY DEF LoaderDestroy, LoaderHolds, Resource

------------------------------------------------------------------------------
LEMMA Initially == Init => IInv
  BY DEF Init, IInv, TypeOK, Provided, HeldInPhase, Undisturbed, Resource, Odd

LEMMA InsmodKeeps ==
  ASSUME IInv, NEW o \in LoaderInit, NEW failed \in {"none", "loader", "procinfo", "tracepoint", "proc"},
         Insmod(o, failed)
  PROVE  IInv'
<1>1. /\ o.held \subseteq LoaderHolds
      /\ o.odd \subseteq {"no_image", "junk_freed"}
      /\ o.ret = 0 => "monitor" \in o.held \/ "no_image" \in o.odd
  BY LoaderOutcome
<1>2. /\ phase = "absent" /\ odd' = odd \cup o.odd
      /\ UNCHANGED <<traced, info, place>>
  BY DEF Insmod
<1>3. odd' \subseteq Odd /\ ("busy" \in odd' <=> "busy" \in odd) /\ ("used_freed" \in odd' <=> "used_freed" \in odd)
  BY <1>1, <1>2 DEF IInv, TypeOK, Odd
<1>4. ~traced
  BY <1>2 DEF IInv
<1>5. held \subseteq {"shstrtab"}
  BY <1>2 DEF IInv, HeldInPhase
<1>6. CASE failed = "none"
  <2>1. phase' = "up" /\ held' = held \cup o.held \cup {"cache"} \cup {"proc"} /\ o.ret = 0
    BY <1>6 DEF Insmod
  <2>2. Provided'
    BY <1>1, <1>2, <2>1 DEF Provided
  <2>3. HeldInPhase' /\ held' \subseteq Resource
    BY <1>1, <1>5, <2>1 DEF HeldInPhase, LoaderHolds, Resource
  <2>4. Undisturbed'
    BY <1>2, <1>3, <2>1 DEF IInv, Undisturbed
  <2> QED
    BY <1>2, <1>3, <1>4, <2>1, <2>2, <2>3, <2>4 DEF IInv, TypeOK
<1>7. CASE failed # "none"
  <2>1. phase' = phase /\ held' = held \cup LoaderDestroy(o.held)
    <3>1. (o.held \cup {"cache"}) \ {"cache"} = o.held /\ (o.held \cup {}) \ {"cache"} = o.held
      BY <1>1 DEF LoaderHolds
    <3> QED
      BY <1>7, <3>1 DEF Insmod
  <2>2. held' \subseteq {"shstrtab"}
    BY <1>1, <1>5, <2>1, DestroyLeavesNames
  <2>3. Provided' /\ HeldInPhase' /\ held' \subseteq Resource
    BY <1>2, <2>1, <2>2 DEF Provided, HeldInPhase, Resource
  <2>4. Undisturbed'
    BY <1>2, <1>3, <2>1 DEF IInv, Undisturbed
  <2> QED
    BY <1>2, <1>3, <1>4, <2>1, <2>3, <2>4 DEF IInv, TypeOK
<1> QED
  BY <1>6, <1>7

(* The steps of a thread leave the phase and what is held alone.           *)
LEMMA ThreadKeeps ==
  ASSUME IInv, NEW t \in Thread, ProbeBegin(t) \/ Step(t) \/ Die(t)
  PROVE  IInv'
<1>1. CASE ProbeBegin(t)
  BY <1>1 DEF ProbeBegin, IInv, TypeOK, Provided, HeldInPhase, Undisturbed
<1>2. ASSUME NEW visits \in BOOLEAN, ProbeEnd(t, visits) PROVE IInv'
  <2>1. /\ place[t] = "probe" /\ UNCHANGED <<phase, held, traced>>
        /\ odd' = odd \/ odd' = odd \cup {"used_freed"}
    BY <1>2 DEF ProbeEnd
  <2>2. "busy" \notin odd => odd' = odd /\ phase \in {"up", "untrace"}
    BY <1>2, <2>1 DEF ProbeEnd, IInv, Undisturbed, Provided
  <2>3. TypeOK'
    BY <1>2, <2>1 DEF ProbeEnd, IInv, TypeOK, Odd
  <2>4. Provided' /\ HeldInPhase'
    BY <2>1 DEF IInv, Provided, HeldInPhase
  <2>5. Undisturbed'
    BY <2>1, <2>2 DEF IInv, Undisturbed
  <2> QED
    BY <2>1, <2>3, <2>4, <2>5 DEF IInv
<1>3. CASE Ask(t)
  <2>1. UNCHANGED <<phase, held, traced, odd>>
    BY <1>3 DEF Ask
  <2>2. TypeOK'
    BY <1>3 DEF Ask, IInv, TypeOK
  <2>3. info' = info \/ phase = "up"
    BY <1>3 DEF Ask, IInv, HeldInPhase
  <2>4. \A u \in Thread : place'[u] = "probe" => place[u] = "probe"
    BY <1>3 DEF Ask, IInv, TypeOK
  <2> QED
    BY <2>1, <2>2, <2>3, <2>4 DEF IInv, Provided, HeldInPhase, Undisturbed
<1>4. CASE Return(t)
  <2>1. UNCHANGED <<phase, held, traced, odd>>
    BY <1>4 DEF Return
  <2>2. TypeOK'
    BY <1>4 DEF Return, IInv, TypeOK
  <2>3. info' = info \/ phase \in {"up", "untrace"}
    BY <1>4 DEF Return, IInv
  <2>4. \A u \in Thread : place'[u] = "probe" => place[u] = "probe"
    BY <1>4 DEF Return, IInv, TypeOK
  <2> QED
    BY <2>1, <2>2, <2>3, <2>4 DEF IInv, Provided, HeldInPhase, Undisturbed
<1>5. CASE Die(t)
  <2>1. UNCHANGED <<phase, held, traced, odd>>
    BY <1>5 DEF Die
  <2>2. TypeOK'
    BY <1>5 DEF Die, IInv, TypeOK
  <2>3. \A u \in Thread : /\ place'[u] = "probe" => place[u] = "probe"
                          /\ info[u] = "none" => info'[u] = "none"
    BY <1>5 DEF Die, IInv, TypeOK
  <2>4. Undisturbed'
    BY <2>1, <2>3 DEF IInv, Undisturbed
  <2>5. Provided' /\ HeldInPhase'
    BY <2>1 DEF IInv, Provided, HeldInPhase
  <2> QED
    BY <2>1, <2>2, <2>4, <2>5 DEF IInv
<1> QED
  BY <1>1, <1>2, <1>3, <1>4, <1>5 DEF Step

(* The steps of nodrop_exit.                                               *)
LEMMA ExitKeeps ==
  ASSUME IInv, Rmmod \/ Exiting
  PROVE  IInv'
<1>1. CASE Rmmod
  BY <1>1 DEF Rmmod, IInv, TypeOK, Provided, HeldInPhase, Undisturbed, ExitStep
<1>2. CASE Untrace
  <2>1. TypeOK'
    BY <1>2 DEF Untrace, IInv, TypeOK, ExitStep, Odd
  <2>2. Provided' /\ HeldInPhase'
    BY <1>2 DEF Untrace, IInv, Provided, HeldInPhase
  <2>3. Undisturbed'
    BY <1>2 DEF Untrace, IInv, Undisturbed
  <2> QED
    BY <1>2, <2>1, <2>2, <2>3 DEF Untrace, IInv
<1>3. ASSUME NEW t \in Thread, DestroyInfo(t) PROVE IInv'
  BY <1>3 DEF DestroyInfo, IInv, TypeOK, Provided, HeldInPhase, Undisturbed
<1>4. CASE DestroyCache
  BY <1>4 DEF DestroyCache, IInv, TypeOK, Provided, HeldInPhase, Undisturbed, ExitStep
<1>5. CASE LoaderExit
  <2>1. held \subseteq LoaderHolds
    BY <1>5 DEF LoaderExit, IInv, HeldInPhase, LoaderHolds
  <2>2. held' \subseteq {"shstrtab"}
    BY <1>5, <2>1, DestroyLeavesNames DEF LoaderExit
  <2> QED
    BY <1>5, <2>2 DEF LoaderExit, IInv, TypeOK, Provided, HeldInPhase, Undisturbed, Resource
<1> QED
  BY <1>1, <1>2, <1>3, <1>4, <1>5 DEF Exiting

LEMMA Inductive == IInv /\ [Next]_vars => IInv'
<1> SUFFICES ASSUME IInv, [Next]_vars PROVE IInv'
  OBVIOUS
<1>1. CASE Start \/ Stop
  BY <1>1 DEF Start, Stop, IInv, TypeOK, Provided, HeldInPhase, Undisturbed
<1>2. CASE UNCHANGED vars
  BY <1>2 DEF vars, IInv, TypeOK, Provided, HeldInPhase, Undisturbed
<1> QED
  BY <1>1, <1>2, InsmodKeeps, ThreadKeeps, ExitKeeps DEF Next

LEMMA AlwaysIInv == Spec => []IInv
  BY Initially, Inductive, PTL DEF Spec

(* Whichever step of nodrop_init failed, and after nodrop_exit, nothing is *)
(* left but the section names, for any number of threads, loads and        *)
(* probes.                                                                 *)
THEOREM AlwaysNothingLeft == Spec => []NothingLeft
<1>1. IInv => NothingLeft
  BY DEF IInv, HeldInPhase, Undisturbed, NothingLeft
<1> QED
  BY <1>1, AlwaysIInv, PTL

(* The probe never uses the cache or the image after nodrop_exit freed     *)
(* them if no thread was inside when the probes were removed.              *)
THEOREM NeverUsesFreed == Spec => []NothingUsedFreed
<1>1. IInv => NothingUsedFreed
  BY DEF IInv, Undisturbed, NothingUsedFreed
<1> QED
  BY <1>1, AlwaysIInv, PTL
==============================================================================
