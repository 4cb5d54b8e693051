-------------------------- MODULE ModuleLifecycle --------------------------
(***************************************************************************)
(* Loading and unloading the kernel module (nod_main.c): what loader_init, *)
(* procinfo_init, tracepoint_init and proc_init acquire, what is given     *)
(* back when one of their steps fails, and what nodrop_exit takes away     *)
(* from under the threads, step by step, while they go on.                 *)
(*                                                                         *)
(* A thread is in the application, in a probe of the module, in the        *)
(* monitor, or returning from it.  Recording, security and context are in  *)
(* other modules: a visit of the monitor is a status, NOD_IN, that the     *)
(* ioctl changes and the probe resets.                                     *)
(***************************************************************************)
EXTENDS Naturals, Sequences, FiniteSets, SequencesExt

CONSTANTS
  Thread,
  MaxLoad,    \* bound: how often the module is loaded
  MaxProbe    \* bound: how often a thread enters the probe

VARIABLES
  phase,      \* "absent", "up", or the next step of nodrop_exit
  held,       \* what the module has acquired and not given back
  traced,     \* tracepoint_registered, and the probes with it
  info,       \* the status in each thread's nod_proc_info, "none" without one
  place,      \* where each thread is
  odd,        \* unusual things that happened so far
  loads, probes

vars == <<phase, held, traced, info, place, odd, loads, probes>>

Resource == {"monitor", "phdata", "shdata", "shstrtab", "interp_path", "interp", "interp_phdata",
             "cache", "proc"}
ExitStep == {"untrace", "destroy", "loader"}
Odd == {"junk_freed", "no_image", "busy", "used_freed"}

(* The steps of loader_init that can fail: what each acquires, if it does, *)
(* and what the label it jumps to on failure gives back.  The last six     *)
(* are for a monitor with an interpreter.                                  *)
OutFreeMonitor == {"monitor", "shstrtab"}
OutFreeInterp == OutFreeMonitor \cup {"interp_path"}
OutFreeDentry == OutFreeInterp \cup {"interp"}

LoaderStep(get, undo) == [get |-> get, undo |-> undo]

LoaderSteps ==
  << LoaderStep({"monitor"}, {}),                   \* open_exec
     LoaderStep({}, OutFreeMonitor),                \* the header and its checks
     LoaderStep({"phdata"}, OutFreeMonitor),        \* elf_load_phdrs
     LoaderStep({"shdata"}, OutFreeMonitor),        \* elf_load_shdrs
     LoaderStep({"shstrtab"}, OutFreeMonitor),      \* elf_load_shstrtab
     LoaderStep({}, OutFreeMonitor),                \* the section .monitor.info
     LoaderStep({}, OutFreeMonitor),                \* the length of the interpreter's path
     LoaderStep({"interp_path"}, OutFreeMonitor),   \* vmalloc
     LoaderStep({}, OutFreeInterp),                 \* the path is read and ends in 0
     LoaderStep({"interp"}, OutFreeInterp),         \* open_exec
     LoaderStep({}, OutFreeDentry),                 \* the header
     LoaderStep({"interp_phdata"}, OutFreeDentry) >>

StaticSteps == 6
PathLength == 7
LastStep == Len(LoaderSteps)

(* elf_load_phdrs, elf_load_shdrs, elf_load_shstrtab: a failure before the *)
(* allocation frees a pointer that was never set.                          *)
FreesJunk == {n \in 1 .. LastStep : LoaderSteps[n].get \cap {"phdata", "shdata", "shstrtab", "interp_phdata"} # {}}

(* What is held when the first n steps succeeded; the path is freed before *)
(* the interpreter is looked at.                                           *)
HeldAfter(n) ==
  (UNION {LoaderSteps[i].get : i \in 1 .. n}) \ (IF n >= PathLength + 4 THEN {"interp_path"} ELSE {})

(* Faulty variants of some operations below, each with a plausible slip;   *)
(* they are no part of the specification.                                  *)
LoaderDestroyKeepsInterp(h) == h \ {"monitor", "phdata", "shdata"}

(* loader_init fails in step n.  For a path of impossible length retval is *)
(* still 0.                                                                *)
LoaderFailure(n, junk) ==
  [ret  |-> IF n = PathLength THEN 0 ELSE 1,
   held |-> HeldAfter(n - 1) \ LoaderSteps[n].undo,
   odd  |-> (IF n = PathLength THEN {"no_image"} ELSE {}) \cup (IF junk THEN {"junk_freed"} ELSE {})]

LoaderInit ==
  {[ret |-> 0, held |-> HeldAfter(n), odd |-> {}] : n \in {StaticSteps, LastStep}}
  \cup {LoaderFailure(n, FALSE) : n \in 1 .. LastStep}
  \cup {LoaderFailure(n, TRUE) : n \in FreesJunk}

LoaderDestroy(h) == h \ {"interp", "monitor", "phdata", "shdata", "interp_phdata"}

------------------------------------------------------------------------------
Init ==
  /\ phase = "absent" /\ held = {} /\ traced = FALSE
  /\ info = [t \in Thread |-> "none"] /\ place = [t \in Thread |-> "app"]
  /\ odd = {} /\ loads = 0 /\ probes = 0

(* nodrop_init.  The last of its steps makes the device visible; until     *)
(* then nothing else uses what it acquires.  failed is the step that       *)
(* fails, if any; the labels it jumps to give back what was acquired       *)
(* before.                                                                 *)
Insmod(o, failed) ==
  LET got == o.held \cup (IF failed = "procinfo" THEN {} ELSE {"cache"})
  IN  /\ phase = "absent" /\ loads < MaxLoad /\ loads' = loads + 1
      /\ o.ret # 0 => failed = "loader"
      /\ o.ret = 0 => failed # "loader"
      /\ odd' = odd \cup o.odd
      /\ IF failed = "none"
         THEN phase' = "up" /\ held' = held \cup got \cup {"proc"}
         ELSE /\ UNCHANGED phase
              /\ held' = held \cup LoaderDestroy(IF failed = "loader" THEN o.held ELSE got \ {"cache"})
      /\ UNCHANGED <<traced, info, place, probes>>

(* START and STOP, by the device.                                          *)
Start == phase = "up" /\ traced' = TRUE /\ UNCHANGED <<phase, held, info, place, odd, loads, probes>>
Stop == phase = "up" /\ traced' = FALSE /\ UNCHANGED <<phase, held, info, place, odd, loads, probes>>

------------------------------------------------------------------------------
(* The probe at the end of a system call: it is entered, and it acquires   *)
(* the nod_proc_info and records, or visits the monitor.  Nothing keeps    *)
(* nodrop_exit from going on while it runs.                                *)
ProbeBegin(t) ==
  /\ place[t] = "app" /\ traced
  /\ probes < MaxProbe /\ probes' = probes + 1
  /\ place' = [place EXCEPT ![t] = "probe"]
  /\ UNCHANGED <<phase, held, traced, info, odd, loads>>

ProbeEnd(t, visits) ==
  /\ place[t] = "probe" /\ (visits => "monitor" \in held)
  /\ odd' = IF {"cache", "monitor"} \subseteq held \/ "no_image" \in odd THEN odd ELSE odd \cup {"used_freed"}
  /\ info' = [info EXCEPT ![t] = IF visits THEN "IN" ELSE "OUT"]
  /\ place' = [place EXCEPT ![t] = IF visits THEN "monitor" ELSE "app"]
  /\ UNCHANGED <<phase, held, traced, loads, probes>>

(* The monitor asks for its return; the ioctl finds the device and the     *)
(* status, or the thread is lost.                                          *)
Ask(t) ==
  /\ place[t] = "monitor"
  /\ IF "proc" \in held /\ info[t] = "IN"
     THEN info' = [info EXCEPT ![t] = "RESTORE"] /\ place' = [place EXCEPT ![t] = "returning"]
     ELSE place' = [place EXCEPT ![t] = "lost"] /\ UNCHANGED info
  /\ UNCHANGED <<phase, held, traced, odd, loads, probes>>

(* The end of that ioctl: the probe restores the context if it is there.   *)
Return(t) ==
  /\ place[t] = "returning"
  /\ IF traced
     THEN info' = [info EXCEPT ![t] = "OUT"] /\ place' = [place EXCEPT ![t] = "app"]
     ELSE place' = [place EXCEPT ![t] = "lost"] /\ UNCHANGED info
  /\ UNCHANGED <<phase, held, traced, odd, loads, probes>>

(* A thread dies, and a new one with its pid may come; nod_proc_release,   *)
(* if the probe is there.                                                  *)
Die(t) ==
  /\ place[t] \in {"app", "monitor", "lost"}
  /\ place' = [place EXCEPT ![t] = "app"]
  /\ info' = IF traced THEN [info EXCEPT ![t] = "none"] ELSE info
  /\ UNCHANGED <<phase, held, traced, odd, loads, probes>>

------------------------------------------------------------------------------
(* nodrop_exit: proc_destroy, ...                                          *)
Rmmod ==
  /\ phase = "up" /\ phase' = "untrace"
  /\ held' = held \ {"proc"}
  /\ UNCHANGED <<traced, info, place, odd, loads, probes>>

UntraceForgotten ==
  /\ phase = "untrace" /\ phase' = "destroy"
  /\ odd' = IF \E t \in Thread : info[t] = "IN" \/ place[t] = "probe" THEN odd \cup {"busy"} ELSE odd
  /\ UNCHANGED <<held, traced, info, place, loads, probes>>

(* ... tracepoint_destory, ...                                             *)
Untrace ==
  /\ phase = "untrace" /\ phase' = "destroy"
  /\ traced' = FALSE
  /\ odd' = IF \E t \in Thread : info[t] = "IN" \/ place[t] = "probe" THEN odd \cup {"busy"} ELSE odd
  /\ UNCHANGED <<held, info, place, loads, probes>>

DestroyInfoIfOut(t) ==
  /\ phase = "destroy" /\ info[t] = "OUT"
  /\ info' = [info EXCEPT ![t] = "none"]
  /\ UNCHANGED <<phase, held, traced, place, odd, loads, probes>>

(* ... procinfo_destroy: each nod_proc_info is freed, after waiting for a  *)
(* thread that is in the monitor, ...                                      *)
DestroyInfo(t) ==
  /\ phase = "destroy" /\ info[t] \notin {"none", "IN"}
  /\ info' = [info EXCEPT ![t] = "none"]
  /\ UNCHANGED <<phase, held, traced, place, odd, loads, probes>>

DestroyCache ==
  /\ phase = "destroy" /\ \A t \in Thread : info[t] = "none"
  /\ phase' = "loader"
  /\ held' = held \ {"cache"}
  /\ UNCHANGED <<traced, info, place, odd, loads, probes>>

(* ... loader_destory.                                                     *)
LoaderExit ==
  /\ phase = "loader" /\ phase' = "absent"
  /\ held' = LoaderDestroy(held)
  /\ UNCHANGED <<traced, info, place, odd, loads, probes>>

Exiting == Untrace \/ (\E t \in Thread : DestroyInfo(t)) \/ DestroyCache \/ LoaderExit
Step(t) == (\E visits \in BOOLEAN : ProbeEnd(t, visits)) \/ Ask(t) \/ Return(t)

Next ==
  \/ \E o \in LoaderInit, failed \in {"none", "loader", "procinfo", "tracepoint", "proc"} : Insmod(o, failed)
  \/ Start \/ Stop \/ Rmmod \/ Exiting
  \/ \E t \in Thread : ProbeBegin(t) \/ Step(t) \/ Die(t)

(* nodrop_exit goes on until it waits; a thread in a probe or in the       *)
(* monitor goes on, for neither waits for anything.                        *)
Spec == Init /\ [][Next]_vars /\ WF_vars(Exiting) /\ \A t \in Thread : WF_vars(Step(t))

ASSUME LifecycleAssumption == MaxLoad \in Nat /\ MaxProbe \in Nat

------------------------------------------------------------------------------
(* Every part of the state has its type.                                   *)
TypeOK ==
  /\ phase \in {"absent", "up"} \cup ExitStep /\ held \subseteq Resource /\ traced \in BOOLEAN
  /\ info \in [Thread -> {"none", "OUT", "IN", "RESTORE"}]
  /\ place \in [Thread -> {"app", "probe", "monitor", "returning", "lost"}]
  /\ odd \subseteq Odd

(* Whichever step of nodrop_init failed, and after nodrop_exit, nothing of *)
(* what loader_init, procinfo_init and proc_init acquired is still held,   *)
(* but for the section names, which a successful loader_init forgets.      *)
NothingLeft ==
  phase = "absent" =>
    /\ held \subseteq {"shstrtab"}
    /\ "busy" \notin odd => \A t \in Thread : info[t] = "none"

(* The probe never finds the cache or the image of the monitor gone, in    *)
(* any interleaving with nodrop_exit in which no probe was running, and no *)
(* thread in the monitor, when the probes were removed.                    *)
NothingUsedFreed == "busy" \notin odd => "used_freed" \notin odd

(* Under the same condition nodrop_exit comes to its end: procinfo_destroy *)
(* does not wait for a thread that cannot leave the monitor any more.      *)
UnloadEnds == (phase = "destroy" /\ "busy" \notin odd) ~> (phase = "absent")

(* `wait for exiting monitor' (procinfo.c): nodrop_exit waits for threads  *)
(* in the monitor and then ends.                                           *)
UnloadAlwaysEnds == (phase = "untrace") ~> (phase = "absent")

(* `ret = 0' from loader_init: the module is up only with a monitor.       *)
UpHasImage == phase = "up" => "monitor" \in held
==============================================================================
