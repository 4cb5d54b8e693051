----------------------------- MODULE EventTable -----------------------------
(***************************************************************************)
(* The static tables of the kernel module: the parameters of every event   *)
(* that has a filler (kmodule/tables/events_table.c), the arguments filled *)
(* without code (kmodule/fillers_table.c), the types a dynamic parameter   *)
(* may take (kmodule/tables/dynamic_params_table.c) and the events the     *)
(* system-call table produces on x86-64 (kmodule/syscall_table.c).  Events *)
(* are named without their NODE_, NODE_SYSCALL_ or NODE_SOCKET_ prefix,    *)
(* types without PT_; of a parameter's name only `res' is kept.            *)
(***************************************************************************)
EXTENDS Integers, Sequences

AF_ID_RETVAL == -1
AF_ID_USEDEFAULT == -2

(* A row of the event table, shared by the events of the set es: nparams,  *)
(* the position of the parameter named `res' (0: none) and the types.      *)
Row(es, n, r, ts) == [events |-> es, nparams |-> n, res |-> r, types |-> ts]

(* exe, args, tid, pid, ptid, cwd, fdlimit, pgft_maj, pgft_min, vm_size,   *)
(* vm_rss, vm_swap, comm: shared by the clone and the execve events.       *)
Startup(fdlimit) ==
  <<"CHARBUF", "BYTEBUF", "PID", "PID", "PID", "CHARBUF", fdlimit, "UINT64",
    "UINT64", "UINT32", "UINT32", "UINT32", "CHARBUF">>

EventRows == {
   Row({"GENERIC"}, 1, 0, <<"SYSCALLID">>),
   Row({"OPEN"}, 5, 0, <<"FD", "FSPATH", "FLAGS32", "UINT32", "UINT32">>),
   Row({"CLOSE", "FSTAT", "FSTAT64", "FCHDIR", "GETDENTS", "GETDENTS64"}, 2,
       2, <<"FD", "ERRNO">>),
   Row({"READ", "WRITE", "SEND", "RECV", "WRITEV"}, 4, 3, <<"FD", "UINT32",
       "ERRNO", "BYTEBUF">>),
   Row({"BRK_1"}, 2, 2, <<"UINT32", "UINT64">>),
   Row({"EXIT", "EXIT_GROUP"}, 1, 0, <<"INT32">>),
   Row({"EXECVE_8"}, 19, 2, <<"FSPATH", "ERRNO">> \o Startup("UINT64") \o
       <<"BYTEBUF", "INT32", "PID", "INT32">>),
   Row({"CLONE_11"}, 19, 1, <<"PID">> \o Startup("INT64") \o <<"FLAGS32",
       "UINT32", "UINT32", "PID", "PID">>),
   Row({"SOCKET"}, 4, 0, <<"FLAGS32", "UINT32", "UINT32", "FD">>),
   Row({"BIND"}, 3, 2, <<"FD", "ERRNO", "SOCKADDR">>),
   Row({"CONNECT"}, 3, 2, <<"FD", "ERRNO", "SOCKTUPLE">>),
   Row({"LISTEN"}, 3, 3, <<"FD", "UINT32", "ERRNO">>),
   Row({"SENDTO", "SENDMSG"}, 5, 4, <<"FD", "UINT32", "SOCKTUPLE", "ERRNO",
       "BYTEBUF">>),
   Row({"RECVFROM"}, 5, 3, <<"FD", "UINT32", "ERRNO", "BYTEBUF",
       "SOCKTUPLE">>),
   Row({"SHUTDOWN"}, 3, 3, <<"FD", "FLAGS8", "ERRNO">>),
   Row({"GETSOCKNAME", "GETPEERNAME", "SENDMMSG", "RECVMMSG"}, 0, 0, <<>>),
   Row({"SOCKETPAIR"}, 8, 4, <<"FLAGS32", "UINT32", "UINT32", "ERRNO", "FD",
       "FD", "UINT64", "UINT64">>),
   Row({"SETSOCKOPT", "GETSOCKOPT"}, 6, 1, <<"ERRNO", "FD", "FLAGS8",
       "FLAGS8", "SOCKOPT", "UINT32">>),
   Row({"RECVMSG"}, 5, 2, <<"FD", "ERRNO", "UINT32", "BYTEBUF", "SOCKTUPLE">>),
   Row({"CREAT"}, 4, 0, <<"FD", "FSPATH", "UINT32", "UINT32">>),
   Row({"PIPE"}, 4, 1, <<"ERRNO", "FD", "FD", "UINT64">>),
   Row({"EVENTFD"}, 3, 3, <<"UINT64", "FLAGS32", "FD">>),
   Row({"FUTEX"}, 4, 4, <<"UINT64", "FLAGS16", "UINT64", "ERRNO">>),
   Row({"STAT", "LSTAT", "STAT64", "LSTAT64", "CHROOT", "RMDIR_2",
       "UNLINK_2"}, 2, 1, <<"ERRNO", "FSPATH">>),
   Row({"EPOLLWAIT"}, 2, 2, <<"ERRNO", "ERRNO">>),
   Row({"POLL"}, 4, 3, <<"FDLIST", "INT64", "ERRNO", "FDLIST">>),
   Row({"SELECT"}, 1, 1, <<"ERRNO">>),
   Row({"LSEEK", "LLSEEK"}, 4, 4, <<"FD", "UINT64", "FLAGS8", "ERRNO">>),
   Row({"GETCWD", "CHDIR"}, 2, 1, <<"ERRNO", "CHARBUF">>),
   Row({"UNLINK"}, 2, 2, <<"FSPATH", "ERRNO">>),
   Row({"UNLINKAT"}, 3, 3, <<"FD", "CHARBUF", "ERRNO">>),
   Row({"PREAD", "PWRITE", "PWRITEV"}, 5, 4, <<"FD", "UINT32", "UINT64",
       "ERRNO", "BYTEBUF">>),
   Row({"READV"}, 4, 2, <<"FD", "ERRNO", "UINT32", "BYTEBUF">>),
   Row({"PREADV"}, 5, 3, <<"FD", "UINT64", "ERRNO", "UINT32", "BYTEBUF">>),
   Row({"DUP"}, 2, 2, <<"FD", "FD">>),
   Row({"SIGNALFD"}, 4, 4, <<"FD", "UINT32", "FLAGS8", "FD">>),
   Row({"KILL", "TKILL"}, 3, 3, <<"PID", "SIGTYPE", "ERRNO">>),
   Row({"TGKILL"}, 4, 4, <<"PID", "PID", "SIGTYPE", "ERRNO">>),
   Row({"NANOSLEEP"}, 2, 2, <<"RELTIME", "ERRNO">>),
   Row({"TIMERFD_CREATE"}, 3, 3, <<"UINT8", "FLAGS8", "FD">>),
   Row({"INOTIFY_INIT"}, 2, 2, <<"FLAGS8", "FD">>),
   Row({"GETRLIMIT", "SETRLIMIT"}, 4, 2, <<"FLAGS8", "ERRNO", "INT64",
       "INT64">>),
   Row({"PRLIMIT"}, 7, 3, <<"PID", "FLAGS8", "ERRNO", "INT64", "INT64",
       "INT64", "INT64">>),
   Row({"FCNTL"}, 3, 3, <<"FD", "FLAGS8", "FD">>),
   Row({"BRK_4"}, 5, 2, <<"UINT64", "UINT64", "UINT32", "UINT32", "UINT32">>),
   Row({"MMAP"}, 10, 7, <<"UINT64", "UINT64", "FLAGS32", "FLAGS32", "FD",
       "UINT64", "UINT64", "UINT32", "UINT32", "UINT32">>),
   Row({"MMAP2"}, 10, 7, <<"UINT64", "UINT64", "FLAGS32", "FLAGS32", "FD",
       "UINT64", "UINT64", "UINT32", "UINT32", "UINT32", "UINT64", "UINT32",
       "UINT32", "UINT32">>),
   Row({"MUNMAP"}, 6, 3, <<"UINT64", "UINT64", "ERRNO", "UINT32", "UINT32",
       "UINT32">>),
   Row({"SPLICE"}, 4, 5, <<"FD", "FD", "UINT64", "FLAGS32", "ERRNO">>),
   Row({"PTRACE"}, 5, 3, <<"FLAGS16", "PID", "ERRNO", "PTRACE", "PTRACE">>),
   Row({"IOCTL_3"}, 4, 4, <<"FD", "UINT64", "UINT64", "ERRNO">>),
   Row({"RENAME", "LINK_2"}, 3, 1, <<"ERRNO", "FSPATH", "FSPATH">>),
   Row({"RENAMEAT"}, 5, 1, <<"ERRNO", "FD", "FSRELPATH", "FD", "FSRELPATH">>),
   Row({"SYMLINK"}, 3, 1, <<"ERRNO", "CHARBUF", "FSPATH">>),
   Row({"SYMLINKAT"}, 4, 1, <<"ERRNO", "CHARBUF", "FD", "FSRELPATH">>),
   Row({"SENDFILE"}, 6, 5, <<"FD", "FD", "UINT64", "UINT64", "ERRNO",
       "UINT64">>),
   Row({"QUOTACTL"}, 18, 5, <<"FLAGS16", "FLAGS8", "UINT32", "FLAGS8",
       "ERRNO", "CHARBUF", "CHARBUF", "UINT64", "UINT64", "UINT64", "UINT64",
       "UINT64", "RELTIME", "RELTIME", "RELTIME", "RELTIME", "FLAGS8",
       "FLAGS8">>),
   Row({"SETRESUID"}, 4, 4, <<"UID", "UID", "UID", "ERRNO">>),
   Row({"SETRESGID"}, 4, 4, <<"GID", "GID", "GID", "ERRNO">>),
   Row({"SETUID"}, 2, 2, <<"UID", "ERRNO">>),
   Row({"SETGID"}, 2, 2, <<"GID", "ERRNO">>),
   Row({"GETUID", "GETEUID"}, 1, 0, <<"UID">>),
   Row({"GETGID", "GETEGID"}, 1, 0, <<"GID">>),
   Row({"GETRESUID"}, 4, 1, <<"ERRNO", "UID", "UID", "UID">>),
   Row({"GETRESGID"}, 4, 1, <<"ERRNO", "GID", "GID", "GID">>),
   Row({"CLONE_20", "FORK_20", "VFORK_20", "CLONE3"}, 20, 1, <<"PID">> \o
       Startup("INT64") \o <<"BYTEBUF", "FLAGS32", "UINT32", "UINT32", "PID",
       "PID">>),
   Row({"SETNS", "FLOCK"}, 3, 3, <<"FD", "FLAGS32", "ERRNO">>),
   Row({"ACCEPT_5"}, 5, 0, <<"FD", "SOCKTUPLE", "UINT8", "UINT32", "UINT32">>),
   Row({"ACCEPT4_5"}, 6, 0, <<"INT32", "FD", "SOCKTUPLE", "UINT8", "UINT32",
       "UINT32">>),
   Row({"SEMOP"}, 9, 2, <<"INT32", "ERRNO", "UINT32", "UINT16", "INT16",
       "FLAGS16", "UINT16", "INT16", "FLAGS16">>),
   Row({"SEMCTL"}, 5, 5, <<"INT32", "INT32", "FLAGS16", "INT32", "ERRNO">>),
   Row({"PPOLL"}, 5, 4, <<"FDLIST", "RELTIME", "SIGSET", "ERRNO", "FDLIST">>),
   Row({"MOUNT"}, 5, 2, <<"FLAGS32", "ERRNO", "CHARBUF", "FSPATH",
       "CHARBUF">>),
   Row({"UMOUNT", "ACCESS"}, 3, 2, <<"FLAGS32", "ERRNO", "FSPATH">>),
   Row({"SEMGET"}, 4, 4, <<"INT32", "INT32", "FLAGS32", "ERRNO">>),
   Row({"SETSID"}, 1, 1, <<"PID">>),
   Row({"SETPGID"}, 3, 3, <<"PID", "PID", "PID">>),
   Row({"MKDIR_2"}, 3, 2, <<"UINT32", "ERRNO", "FSPATH">>),
   Row({"UNSHARE"}, 2, 2, <<"FLAGS32", "ERRNO">>),
   Row({"EXECVE_19"}, 21, 2, <<"FSPATH", "ERRNO">> \o Startup("UINT64") \o
       <<"BYTEBUF", "BYTEBUF", "INT32", "PID", "INT32", "FLAGS32">>),
   Row({"BPF"}, 2, 0, <<"INT64", "BPF">>),
   Row({"SECCOMP"}, 3, 3, <<"UINT64", "UINT64", "ERRNO">>),
   Row({"UNLINKAT_2"}, 4, 1, <<"ERRNO", "FD", "FSRELPATH", "FLAGS32">>),
   Row({"MKDIRAT"}, 4, 1, <<"ERRNO", "FD", "FSRELPATH", "UINT32">>),
   Row({"OPENAT_2"}, 6, 0, <<"FD", "FD", "FSRELPATH", "FLAGS32", "UINT32",
       "UINT32">>),
   Row({"LINKAT_2", "RENAMEAT2"}, 6, 1, <<"ERRNO", "FD", "FSRELPATH", "FD",
       "FSRELPATH", "FLAGS32">>),
   Row({"FCHMODAT"}, 4, 1, <<"ERRNO", "FD", "FSRELPATH", "MODE">>),
   Row({"CHMOD"}, 3, 1, <<"ERRNO", "FSPATH", "MODE">>),
   Row({"FCHMOD"}, 3, 1, <<"ERRNO", "FD", "MODE">>),
   Row({"USERFAULTFD"}, 2, 1, <<"ERRNO", "FLAGS32">>),
   Row({"OPENAT2"}, 6, 0, <<"FD", "FD", "FSRELPATH", "FLAGS32", "UINT32",
       "FLAGS32">>),
   Row({"MPROTECT"}, 4, 4, <<"UINT64", "UINT64", "FLAGS32", "ERRNO">>),
   Row({"EXECVEAT"}, 23, 4, <<"FD", "FSRELPATH", "FLAGS32", "ERRNO">> \o
       Startup("UINT64") \o <<"BYTEBUF", "BYTEBUF", "INT32", "PID", "INT32",
       "FLAGS32">>),
   Row({"COPY_FILE_RANGE"}, 6, 4, <<"FD", "UINT64", "UINT64", "ERRNO", "FD",
       "UINT64">>)}

Event == UNION {r.events : r \in EventRows}

(* g_event_info.                                                           *)
g_event_info == [e \in Event |-> CHOOSE r \in EventRows : e \in r.events]

(* The types behind PT_DYN, by the index that is recorded with the value.  *)
dynamic_param ==
  [SOCKOPT |-> <<"BYTEBUF", "ERRNO", "UINT32", "UINT64", "RELTIME">>,
   PTRACE |-> <<"UINT64", "SIGTYPE">>,
   BPF |-> <<"FD", "ERRNO">>]

------------------------------------------------------------------------------
Fill(es, ids) == [events |-> es, ids |-> ids]

(* n_autofill_args and autofill_args; an entry the initialiser leaves out  *)
(* is zeroed, that is, argument 0.                                         *)
AutofillRows == {
   Fill({"CLOSE", "BRK_1", "FSTAT64", "FCHDIR", "UNLINK", "DUP", "SETUID",
       "SETGID", "GETDENTS", "GETDENTS64"}, <<0, AF_ID_RETVAL>>),
   Fill({"READ", "WRITE", "RECV", "RECVFROM"}, <<0, 2>>),
   Fill({"EXIT", "EXIT_GROUP", "BIND", "CONNECT", "RECVMSG", "READV", "BRK_4",
       "SEMOP", "BPF"}, <<0>>),
   Fill({"SOCKET", "TGKILL", "IOCTL_3", "SETRESUID", "SETRESGID"}, <<0, 1, 2,
       AF_ID_RETVAL>>),
   Fill({"LISTEN", "UNLINKAT", "KILL", "TKILL", "SETPGID", "SECCOMP"}, <<0, 1,
       AF_ID_RETVAL>>),
   Fill({"SHUTDOWN", "EVENTFD", "FUTEX", "SELECT", "LSEEK", "LLSEEK",
       "NANOSLEEP", "FCNTL", "GETUID", "GETEUID", "GETGID", "GETEGID",
       "SETNS", "FLOCK", "SEMCTL", "SEMGET", "SETSID", "UNSHARE"},
       <<AF_ID_RETVAL>>),
   Fill({"SOCKETPAIR"}, <<0, 1, 2>>),
   Fill({"STAT", "LSTAT", "FSTAT", "STAT64", "LSTAT64", "GETCWD", "CHDIR",
       "ACCESS", "CHROOT", "RMDIR_2", "UNLINK_2", "USERFAULTFD"},
       <<AF_ID_RETVAL, 0>>),
   Fill({"EPOLLWAIT"}, <<2, AF_ID_RETVAL>>),
   Fill({"SIGNALFD"}, <<0, AF_ID_USEDEFAULT, AF_ID_USEDEFAULT, 0>>),
   Fill({"TIMERFD_CREATE"}, <<AF_ID_USEDEFAULT, AF_ID_USEDEFAULT,
       AF_ID_RETVAL>>),
   Fill({"INOTIFY_INIT"}, <<AF_ID_USEDEFAULT, AF_ID_RETVAL>>),
   Fill({"MUNMAP"}, <<0, 1>>),
   Fill({"SPLICE"}, <<0, 2, 4, 5, AF_ID_RETVAL>>),
   Fill({"RENAME", "SYMLINK", "LINK_2"}, <<AF_ID_RETVAL, 0, 1>>),
   Fill({"MOUNT"}, <<AF_ID_RETVAL, 0, 1, 2>>),
   Fill({"UMOUNT"}, <<1, AF_ID_RETVAL, 0>>),
   Fill({"MKDIR_2"}, <<AF_ID_USEDEFAULT, AF_ID_RETVAL, 0>>)}

autofill_args ==
  [e \in Event |->
     IF \E r \in AutofillRows : e \in r.events
     THEN (CHOOSE r \in AutofillRows : e \in r.events).ids
     ELSE << >>]

(* Events no entry of g_syscall_event_table yields on x86-64; the probes   *)
(* record a number without an entry as event 0, GENERIC.                   *)
Unlisted == {
   "BRK_1", "EXIT", "EXIT_GROUP", "EXECVE_8", "CLONE_11", "SEND", "RECV",
       "STAT64", "LSTAT64", "FSTAT64", "LLSEEK", "MMAP2", "UNLINK", "UNLINKAT"}

g_syscall_event_table == Event \ Unlisted
=============================================================================
