------------------------------ MODULE ProcTable ------------------------------
(***************************************************************************)
(* The table of nod_proc_info (kmodule/procinfo.c) and what the probes and *)
(* the loader do to it while tasks are born, share and leave address       *)
(* spaces, exec, and die, and their pids are used again (kmodule/trace.c,  *)
(* loader.c): which monitor image, which monitor stack and which           *)
(* protection key a thread is given.                                       *)
(*                                                                         *)
(* A visit to the monitor is one step here (ThreadSwitch has the steps of  *)
(* it).  An image stands for one mapping of the monitor's ELF file and its *)
(* stack by do_load_monitor; entry_addr and stack_info_addr name the image *)
(* they point into, 0 is a null address.                                   *)
(***************************************************************************)
EXTENDS Naturals

CONSTANTS
  Pid,          \* pids, which are used again
  Key,          \* protection keys of an address space
  MaxBirth,     \* bound on the number of tasks
  MaxSpace,     \* bound on the number of address spaces
  MaxImage      \* bound on the number of images loaded

VARIABLES
  task,         \* the task that has a pid: its group leader, address space, ...
  info,         \* the nod_proc_info found under a pid
  images,       \* the images mapped in an address space
  keys,         \* the protection keys allocated in an address space
  odd,          \* history: which unusual things have happened
  births, spaces, loads

vars == <<task, info, images, keys, odd, births, spaces, loads>>

(* An execve that failed, an execve by another thread than the group       *)
(* leader, an exit between STOP and START.                                 *)
Odd == {"exec_failed", "thread_exec", "missed_exit"}

NoTask == [leader |-> "none", mm |-> 0, born |-> 0, call |-> "none"]
NoInfo == [status |-> "none", mm |-> 0, entry |-> 0, stack |-> 0, key |-> 0, born |-> 0]
Space == 1 .. MaxSpace

Alive(p) == task[p] # NoTask
Has(p) == info[p] # NoInfo
Group(p) == {q \in Pid : Alive(q) /\ task[q].leader = task[p].leader}

(* How a task comes into the world: by which call, whether it lives in its *)
(* parent's address space, and whether it is a thread of its process.      *)
Birth == {[call |-> "clone", vm |-> TRUE, thread |-> TRUE],
          [call |-> "clone", vm |-> FALSE, thread |-> FALSE],
          [call |-> "fork", vm |-> FALSE, thread |-> FALSE],
          [call |-> "vfork", vm |-> TRUE, thread |-> FALSE]}

Init ==
  \E p \in Pid :
    /\ task = [q \in Pid |-> IF q = p THEN [leader |-> p, mm |-> 1, born |-> 1, call |-> "ran"]
                                     ELSE NoTask]
    /\ info = [q \in Pid |-> NoInfo]
    /\ images = [s \in Space |-> {}] /\ keys = [s \in Space |-> {}]
    /\ odd = {} /\ births = 1 /\ spaces = 1 /\ loads = 0

------------------------------------------------------------------------------
(* mm_pkey_alloc: a free key (the kernel takes the lowest, on which        *)
(* nothing here depends), 0 if there is none.                              *)
NewKey(used) == IF Key \subseteq used THEN 0 ELSE CHOOSE k \in Key \ used : TRUE

(* Faulty variants of some operations below, each with a plausible slip;   *)
(* they are no part of the specification.                                  *)
CopiedWithStack(i, l) == [i EXCEPT !.entry = l.entry, !.stack = l.stack, !.key = l.key]

SharedLeadersFreed(i, l, used) ==
  [info |-> [i EXCEPT !.key = l.key], keys |-> IF i.key # l.key THEN used \ {l.key} ELSE used]

InitKeepsEntry(t, i, used) ==
  [info |-> [i EXCEPT !.mm = t.mm, !.born = t.born, !.key = NewKey(used \ {i.key})],
   keys |-> (used \ {i.key}) \cup ({NewKey(used \ {i.key})} \ {0})]

VisitForgetsEntry(i, mapped) ==
  IF i.stack \in mapped THEN [i EXCEPT !.status = "OUT", !.entry = 0] ELSE i

ReleasedExceptLeader(gone) ==
  [q \in Pid |-> IF q \in gone /\ task[q].leader # q THEN NoInfo ELSE info[q]]

------------------------------------------------------------------------------
(* nod_init_procinfo for task t: status and stack_info_addr stay.  The old *)
(* key is given back to the address space the task is in now.              *)
InitProcinfo(t, i, used) ==
  LET k == NewKey(used \ {i.key})
  IN  [info |-> [i EXCEPT !.mm = t.mm, !.born = t.born, !.entry = 0, !.key = k],
       keys |-> (used \ {i.key}) \cup ({k} \ {0})]

(* nod_proc_acquire: the one found, with the new status, or a new one.     *)
Acquire(p, t, status, used) ==
  LET r == IF Has(p) THEN [info |-> info[p], keys |-> used] ELSE InitProcinfo(t, NoInfo, used)
  IN  [r EXCEPT !.info.status = status]

(* nod_proc_release for the tasks in gone.                                 *)
Released(gone) == [q \in Pid |-> IF q \in gone THEN NoInfo ELSE info[q]]

(* nod_copy_procinfo and nod_share_procinfo: i takes from l.               *)
Copied(i, l) == [i EXCEPT !.entry = l.entry, !.key = l.key]

Shared(i, l, used) ==
  [info |-> [i EXCEPT !.key = l.key], keys |-> IF i.key # l.key THEN used \ {i.key} ELSE used]

(* The first part of nod_load_monitor: what a thread takes from the group  *)
(* leader, by its status.                                                  *)
Inherit(p, t, i, used) ==
  LET l == info[t.leader]
  IN  IF t.leader = p \/ l = NoInfo \/ i.status = "OUT" THEN [info |-> i, keys |-> used]
      ELSE IF i.status = "CLONE" THEN [info |-> Copied(i, l), keys |-> used]
      ELSE Shared(i, l, used)

(* syscall_probe for task t under pid p, whose nod_proc_info is i: the     *)
(* event goes to the buffer, or the monitor is loaded where there is no    *)
(* entry and visited, or one of the two fails.  stack_info can be updated  *)
(* if its address is mapped; then the visit is made, and the thread comes  *)
(* back with status NOD_OUT.                                               *)
Visit(i, mapped) == IF i.stack \in mapped THEN [i EXCEPT !.status = "OUT"] ELSE i

Probed(p, t, i, used, mapped) ==
  LET n == loads + 1
      h == Inherit(p, t, i, used)
      loaded == [h.info EXCEPT !.entry = n, !.stack = n]
  IN  {[info |-> i, keys |-> used, images |-> mapped, loads |-> loads]}
      \cup IF h.info.entry # 0
           THEN {[info |-> Visit(h.info, mapped), keys |-> h.keys, images |-> mapped, loads |-> loads]}
           ELSE {[info |-> h.info, keys |-> h.keys, images |-> mapped, loads |-> loads]}
                \cup IF n > MaxImage THEN {}
                     ELSE {[info |-> Visit(loaded, mapped \cup {n}), keys |-> h.keys,
                            images |-> mapped \cup {n}, loads |-> n]}

(* The outcome r of a probe is stored for pid p, in address space s.       *)
Store(p, s, r) ==
  /\ info' = [info EXCEPT ![p] = r.info]
  /\ keys' = [keys EXCEPT ![s] = r.keys]
  /\ images' = [images EXCEPT ![s] = r.images]
  /\ loads' = r.loads

------------------------------------------------------------------------------
(* The kernel makes a child c of p; a new address space is a copy, with    *)
(* the mappings and the allocated keys of the old.                         *)
Fork(p, c, b) ==
  /\ Alive(p) /\ task[p].call = "ran" /\ ~Alive(c)
  /\ \A q \in Pid : task[q].leader # c
  /\ births < MaxBirth /\ births' = births + 1
  /\ b.vm \/ spaces < MaxSpace
  /\ LET s == IF b.vm THEN task[p].mm ELSE spaces + 1
     IN  /\ task' = [task EXCEPT ![c] =
                       [leader |-> IF b.thread THEN task[p].leader ELSE c,
                        mm |-> s, born |-> births + 1,
                        call |-> IF b.call # "clone" THEN "other"
                                 ELSE IF b.thread THEN "clone_stack" ELSE "clone_null"]]
         /\ spaces' = IF b.vm THEN spaces ELSE s
         /\ images' = IF b.vm THEN images ELSE [images EXCEPT ![s] = images[task[p].mm]]
         /\ keys' = IF b.vm THEN keys ELSE [keys EXCEPT ![s] = keys[task[p].mm]]
  /\ UNCHANGED <<info, odd, loads>>

(* syscall_exit_probe in a child that returns from clone.  The flags are   *)
(* taken from the second argument, which is the child's stack pointer: 0   *)
(* for a process; for a thread its bit CLONE_VM may be set or not.         *)
MarkOf(call) == IF call = "clone_null" THEN {"CLONE"} ELSE {"SHARE", "CLONE"}

CloneReturns(p) ==
  /\ Alive(p) /\ task[p].call \in {"clone_null", "clone_stack"}
  /\ task' = [task EXCEPT ![p].call = "ran"]
  /\ \/ \E mark \in MarkOf(task[p].call) :
          LET s == task[p].mm
              r == Acquire(p, task[p], mark, keys[s])
          IN  info' = [info EXCEPT ![p] = r.info] /\ keys' = [keys EXCEPT ![s] = r.keys]
     \/ ~Has(p) /\ UNCHANGED <<info, keys>>
  /\ UNCHANGED <<images, odd, births, spaces, loads>>

(* ... and at the end of any other system call than execve, exit included: *)
(* without a nod_proc_info one is acquired, which may fail.                *)
Syscall(p) ==
  /\ Alive(p) /\ task[p].call \in {"ran", "other"}
  /\ task' = [task EXCEPT ![p].call = "ran"]
  /\ LET s == task[p].mm
         r == IF Has(p) THEN [info |-> info[p], keys |-> keys[s]]
                        ELSE Acquire(p, task[p], "OUT", keys[s])
     IN  \/ \E o \in Probed(p, task[p], r.info, r.keys, images[s]) : Store(p, s, o)
         \/ ~Has(p) /\ UNCHANGED <<info, keys, images, loads>>
  /\ UNCHANGED <<odd, births, spaces>>

(* The exec branch of syscall_exit_probe: the nod_proc_info is reset, the  *)
(* event recorded.                                                         *)
ExecProbe(p, t, found, used, mapped, others) ==
  LET r == IF found # NoInfo THEN InitProcinfo(t, found, used)
           ELSE InitProcinfo(t, [NoInfo EXCEPT !.status = "OUT"], used)
  IN  \/ \E o \in Probed(p, t, r.info, r.keys, mapped) :
           /\ info' = [others EXCEPT ![p] = o.info]
           /\ keys' = [keys EXCEPT ![t.mm] = o.keys]
           /\ images' = [images EXCEPT ![t.mm] = o.images]
           /\ loads' = o.loads
      \/ found = NoInfo /\ info' = others /\ UNCHANGED <<keys, images, loads>>

(* execve: the other threads of the process die, the caller goes on in a   *)
(* new address space, under the pid of the group leader.                   *)
Exec(p) ==
  /\ Alive(p) /\ task[p].call = "ran" /\ spaces < MaxSpace
  /\ odd' = IF task[p].leader = p THEN odd ELSE odd \cup {"thread_exec"}
  /\ LET l == task[p].leader
         gone == (Group(p) \cup {l}) \ {p}
         t == [task[p] EXCEPT !.mm = spaces + 1]
         others == Released(gone)
     IN  /\ task' = [q \in Pid |-> IF q = l THEN t ELSE IF q \in gone \cup {p} THEN NoTask ELSE task[q]]
         /\ ExecProbe(l, t, others[l], {}, {}, others)
  /\ spaces' = spaces + 1
  /\ UNCHANGED births

(* execve that fails takes the same branch.                                *)
ExecFail(p) ==
  /\ Alive(p) /\ task[p].call = "ran"
  /\ odd' = odd \cup {"exec_failed"}
  /\ ExecProbe(p, task[p], info[p], keys[task[p].mm], images[task[p].mm], info)
  /\ UNCHANGED <<task, births, spaces>>

(* The task dies; syscall_procexit_probe releases its nod_proc_info.       *)
Exit(p) ==
  /\ Alive(p)
  /\ task' = [task EXCEPT ![p] = NoTask]
  /\ info' = Released({p})
  /\ UNCHANGED <<images, keys, odd, births, spaces, loads>>

(* Between STOP and START the probe is not there.                          *)
ExitMissed(p) ==
  /\ Alive(p) /\ Has(p)
  /\ task' = [task EXCEPT ![p] = NoTask]
  /\ odd' = odd \cup {"missed_exit"}
  /\ UNCHANGED <<info, images, keys, births, spaces, loads>>

Next ==
  \E p \in Pid :
    \/ \E c \in Pid, b \in Birth : Fork(p, c, b)
    \/ CloneReturns(p) \/ Syscall(p)
    \/ Exec(p) \/ ExecFail(p) \/ Exit(p) \/ ExitMissed(p)

Spec == Init /\ [][Next]_vars

ASSUME TableAssumption ==
  /\ Key \subseteq Nat \ {0}
  /\ MaxBirth \in Nat \ {0} /\ MaxSpace \in Nat \ {0} /\ MaxImage \in Nat

------------------------------------------------------------------------------
(* Every part of the state has its type.                                   *)
TypeOK ==
  /\ task \in [Pid -> [leader : Pid \cup {"none"}, mm : {0} \cup Space, born : 0 .. MaxBirth,
                       call : {"none", "ran", "other", "clone_stack", "clone_null"}]]
  /\ info \in [Pid -> [status : {"none", "OUT", "CLONE", "SHARE"}, mm : {0} \cup Space,
                       entry : 0 .. MaxImage, stack : 0 .. MaxImage,
                       key : {0} \cup Key, born : 0 .. MaxBirth]]
  /\ images \in [Space -> SUBSET (1 .. MaxImage)] /\ keys \in [Space -> SUBSET Key]
  /\ odd \subseteq Odd

Live(p) == Alive(p) /\ Has(p)

(* The nod_proc_info found under the pid of a thread was made for this     *)
(* thread, not for one that had the pid before it (__find_proc_info), as   *)
(* long as every exit is seen and only group leaders call execve.          *)
InfoIsOwn ==
  odd \subseteq {"exec_failed"} =>
    \A p \in Pid : Live(p) => info[p].born = task[p].born /\ info[p].mm = task[p].mm

(* A thread is never sent to an entry address at which its address space   *)
(* has no monitor (nod_load_monitor skips the load when entry_addr is      *)
(* set), under the same condition.                                         *)
EntryIsMapped ==
  odd \subseteq {"exec_failed"} =>
    \A p \in Pid : Live(p) /\ info[p].entry # 0 => info[p].entry \in images[task[p].mm]

(* No two threads ever run the monitor on the same stack, whatever they    *)
(* took from their group leader, and however pids are used again.          *)
StackExclusive ==
  \A p, q \in Pid : p # q /\ info[p].stack # 0 => info[p].stack # info[q].stack

(* The key a thread protects the monitor with is allocated in its address  *)
(* space, so that the application cannot be given it (nod_share_procinfo   *)
(* frees a key that is in nobody's use any more), if nothing unusual       *)
(* happened.                                                               *)
KeyAllocated ==
  odd = {} => \A p \in Pid : Live(p) /\ info[p].key # 0 => info[p].key \in keys[task[p].mm]

(* `The address space will be replaced with the new one.  The original     *)
(* instrumented monitor will no longer exist' (trace.c): a thread whose    *)
(* entry is reset has no monitor of its own in its address space.          *)
ResetMeansGone ==
  \A p \in Pid : Live(p) /\ info[p].entry = 0 => info[p].stack \notin images[task[p].mm]

(* The same, if nothing unusual happened.                                  *)
ResetMeansGoneElse == odd = {} => ResetMeansGone

(* `If the child process has its own address space, he should inherit      *)
(* parent's procinfo, including buffer, load address and pkey' (trace.c);  *)
(* only then is a child marked NOD_CLONE.                                  *)
CloneHasOwnSpace ==
  \A p \in Pid : Live(p) /\ info[p].status = "CLONE" /\ "missed_exit" \notin odd =>
    \A q \in Pid : Alive(q) /\ q # p /\ task[q].leader = task[p].leader => task[q].mm # task[p].mm
==============================================================================
