------------------------------ MODULE MCFillers -----------------------------
(* Instances of Fillers: the programs of FillerPrograms over a small set of *)
(* system calls, arrays, lengths and rooms.                                 *)
EXTENDS Fillers, FillerPrograms

CONSTANT Subject

(* "all": every event the system-call table yields whose table rows agree; *)
(* the others by name.                                                     *)
Disagreeing == {"SPLICE", "SEMOP", "FSTAT", "SIGNALFD"}
Positioned == {"PREAD", "PWRITE", "PREADV", "PWRITEV"}
MCEvents ==
  CASE Subject = "all" -> g_syscall_event_table \ Disagreeing
    [] Subject = "positioned" -> Positioned
    [] OTHER -> {Subject}

(* The conditions a filler of event e tells apart.                         *)
Conditions(e) ==
  CASE e \in {"SETSOCKOPT", "GETSOCKOPT"} ->
         {"SO_ERROR", "SO_RCVTIMEO", "SO_COOKIE", "SO_REUSEADDR", "SO_DEBUG"}
    [] e = "PTRACE" -> {"PEEK", "CONT", "ATTACH"}
    [] e = "QUOTACTL" -> {"Q_QUOTAON", "Q_GETQUOTA", "Q_GETINFO", "Q_GETFMT", "Q_SYNC"}
    [] e = "SOCKETPAIR" -> {"sock", "no_sock"}
    [] e = "PPOLL" -> {"sigmask", "no_sigmask"}
    [] e = "SEMCTL" -> {"SETVAL", "GETVAL"}
    [] e = "BPF" -> {"BPF_MAP_CREATE", "BPF_MAP_LOOKUP_ELEM"}
    [] OTHER -> {"any"}

Arrays == {"POLL", "PPOLL", "READV", "WRITEV", "PREADV", "PWRITEV", "SENDMSG",
           "RECVMSG", "SEMOP"}

Calls(e) ==
  [ev : {e}, ret : {-1, 0, 16, 17, 100}, n : IF e \in Arrays THEN {0, 1, 3, 300} ELSE {0},
   req : Conditions(e) \cup (IF Subject \in {"ACCEPT_5", "ACCEPT4_5"} THEN {"reset_ipv6"} ELSE {}),
   nul : BOOLEAN]

MCProgram == [e \in MCEvents |-> {nod_filler_callback(c) : c \in Calls(e)}]

ASSUME UncheckedAssumption == NumbersUnchecked
=============================================================================
