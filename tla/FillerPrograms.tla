--------------------------- MODULE FillerPrograms ---------------------------
(***************************************************************************)
(* The fillers of kmodule/fillers.c.  A filler is the sequence of requests *)
(* it makes for a system call c; every request that fails makes the filler *)
(* return at once with that failure, unless it is marked Unchecked.  The   *)
(* conversions of flags (kmodule/flags.h) are left out: an argument that   *)
(* is converted before it is pushed still comes from that argument.        *)
(*                                                                         *)
(* Of a system call the model keeps                                        *)
(*   ev   the event it is recorded as;                                     *)
(*   ret  its return value;                                                *)
(*   n    the number of elements of the array it is given (poll, readv,    *)
(*        semop);                                                          *)
(*   req  the request, command, option or condition a filler looks at;     *)
(*   nul  whether the optional pointers among its arguments are NULL.      *)
(***************************************************************************)
EXTENDS ValToRing

CONSTANTS
  KernelString,   \* lengths of strings found in the kernel, terminator included
  BufLen          \* lengths of buffers

UNIX_PATH_MAX == 108

(* Faulty variants: the descriptors of a pipe are pushed before its        *)
(* result, those of a failed socketpair not at all, the strings and the    *)
(* numbers of renameat change places, accept pushes the flags of accept4.  *)
f_sys_pipeSwapped(c) == <<CopyFromUser, Kernel, Kernel, Ret, Kernel>>
f_sys_socketpairUnfilled(c) ==
  <<Ret>> \o (IF c.ret >= 0 THEN <<CopyFromUser, Kernel, Kernel, Kernel, Kernel>> ELSE << >>)
f_sys_renameatSwapped(c) == <<Ret, UStr(0), Arg(1), Arg(2), UStr(3)>>
f_sys_acceptFlags(c) == <<Zero, Ret, KBuf({0}), Kernel, Kernel, Kernel>>

------------------------------------------------------------------------------
(* Helpers shared by the fillers.                                          *)

(* family, then address and port, or the path.                             *)
pack_addr == {0, 1 + 4 + 2, 1 + 16 + 2} \cup {1 + n : n \in {1, UNIX_PATH_MAX}}

(* No socket behind the descriptor, IPv4, IPv6 or a Unix socket.           *)
fd_to_socktuple ==
  {0, 1 + 4 + 4 + 2 + 2, 1 + 16 + 16 + 2 + 2} \cup {1 + 8 + 8 + n : n \in {1, UNIX_PATH_MAX}}

(* addr_to_kernel fails, or the pointer is NULL: nothing is packed.        *)
TupleIf(given) == KBuf(IF given THEN fd_to_socktuple ELSE {0})

parse_sockopt(c) ==
  CASE c.req = "SO_ERROR" -> <<CopyFromUser, Dyn(1, Kernel)>>
    [] c.req = "SO_RCVTIMEO" -> <<CopyFromUser, Dyn(4, Kernel)>>
    [] c.req = "SO_COOKIE" -> <<CopyFromUser, Dyn(3, Kernel)>>
    [] c.req = "SO_REUSEADDR" -> <<CopyFromUser, Dyn(2, Kernel)>>
    [] OTHER -> <<Dyn(0, UBuf(3, BufLen))>>

(* The iovec array must fit str_storage; the data gathered behind it too.  *)
parse_readv_writev_bufs(c, retval, flags) ==
  LET copylen == 16 * c.n
      left == STR_STORAGE_SIZE - copylen - 1
      most == IF "write" \in flags THEN left ELSE Least(retval, left)
      size == IF "size" \in flags THEN <<Kernel>> ELSE << >>
      data == IF "data" \notin flags THEN << >>
              ELSE IF retval > 0 /\ c.n > 0
                   THEN <<CopyFromUser, KBuf({l \in BufLen : l <= most})>>
                   ELSE <<NoBuf>>
  IN  IF copylen >= STR_STORAGE_SIZE THEN <<Fail("full")>>
      ELSE <<CopyFromUser>> \o size \o data

parse_ptrace_addr(c) == <<Dyn(0, Arg(2))>>

parse_ptrace_data(c) ==
  CASE c.req = "PEEK" -> <<CopyFromUser, Dyn(0, Kernel)>>
    [] c.req = "CONT" -> <<Dyn(1, Arg(3))>>
    [] OTHER -> <<Dyn(0, Arg(3))>>

(* A 16-bit count and 10 bytes for every descriptor, or, on the way out,   *)
(* for every descriptor with an event.                                     *)
poll_parse_fds(c, enter) ==
  IF 8 * c.n + 2 + 10 * c.n > STR_STORAGE_SIZE THEN <<Fail("full")>>
  ELSE <<CopyFromUser, KBuf({2 + 10 * k : k \in IF enter THEN {c.n} ELSE {0, c.n}})>>

timespec_parse == <<CopyFromUser, Kernel>>

(* The length of the argument or environment strings gathered from user    *)
(* memory; an error of any kind counts as none.                            *)
accumulate_argv_or_env(available) == {0} \cup {l \in BufLen : l <= available}

append_cgroup == {l \in BufLen : l <= STR_STORAGE_SIZE}

------------------------------------------------------------------------------
(* f_proc_startupdate, part by part: exe and args ...                      *)
f_proc_exe_args(c) ==
  CASE c.ret < 0 /\ c.ev \notin {"EXECVE_19", "EXECVEAT"} -> <<KStr({1}), KBuf({0})>>
    [] c.ret >= 0 /\ c.req = "no_mm" -> <<Fail("bug")>>
    [] c.ret >= 0 /\ c.req # "no_mm" ->
         <<KStr(KernelString), KBuf({l \in BufLen : l <= STR_STORAGE_SIZE})>>
    [] OTHER -> <<KStr(KernelString), KBuf(accumulate_argv_or_env(STR_STORAGE_SIZE))>>

(* ... tid, pid, ptid, cwd, fdlimit, pgft_maj, pgft_min, vm_size, vm_rss,  *)
(* vm_swap, comm and cgroups ...                                           *)
f_proc_task(c) ==
  <<Kernel, Kernel, Kernel, KStr({1}), Kernel, Kernel, Kernel, Kernel, Kernel,
    Kernel, KStr({l \in KernelString : l <= 16}), KBuf(append_cgroup)>>

(* ... flags, uid, gid, vtid and vpid of a clone ...                       *)
f_proc_clone(c) ==
  (CASE c.ev = "CLONE_20" -> <<Arg(0)>>
     [] c.ev = "CLONE3" -> <<CopyFromUser, Kernel>>
     [] OTHER -> <<Zero>>)
  \o <<Kernel, Kernel, Kernel, Kernel>>

(* ... or environment, tty, pgid, loginuid and flags of an execve.  The    *)
(* strings of a failed one go behind what the cgroups left.                *)
f_proc_exec(c) ==
  <<KBuf(IF c.ret >= 0 THEN {l \in BufLen : l <= STR_STORAGE_SIZE}
         ELSE accumulate_argv_or_env(STR_STORAGE_SIZE)),
    Kernel, Kernel, Kernel, Kernel>>

f_proc_startupdate(c) ==
  <<Ret>> \o f_proc_exe_args(c) \o f_proc_task(c)
  \o (CASE c.ev \in {"CLONE_20", "FORK_20", "VFORK_20", "CLONE3"} -> f_proc_clone(c)
        [] c.ev \in {"EXECVE_19", "EXECVEAT"} -> f_proc_exec(c)
        [] OTHER -> << >>)

f_sys_execve(c) == <<UStr(0)>> \o f_proc_startupdate(c)
f_sys_execveat(c) == <<Arg(0), UStr(1), Arg(4)>> \o f_proc_startupdate(c)

------------------------------------------------------------------------------
(* Files.                                                                  *)
f_sys_empty(c) == << >>
f_sys_generic(c) == <<Kernel>>
f_sys_open(c) == <<Ret, UStr(0), Arg(1), Arg(2), Kernel>>
f_sys_creat(c) == <<Ret, UStr(0), Arg(1), Kernel>>
f_sys_openat(c) == <<Ret, Arg(0), UStr(1), Arg(2), Arg(3), Kernel>>
f_sys_openat2(c) == <<Ret, Arg(0), UStr(1), CopyFromUser, Kernel, Kernel, Kernel>>
f_sys_read(c) == <<Ret, IF c.ret < 0 THEN NoBuf ELSE UBuf(1, {c.ret})>>
f_sys_write(c) == <<Ret, UBuf(1, BufLen)>>
f_sys_lseek(c) == <<Arg(0), Arg(1), Arg(2)>>
f_sys_llseek(c) == <<Arg(0), Num(merge_64), Arg(4)>>
f_sys_pread(c) == <<Arg(0), Arg(2), Num(merge_64)>> \o f_sys_read(c)
f_sys_pwrite(c) == <<Arg(0), Arg(2), Num(merge_64)>> \o f_sys_write(c)
f_sys_readv_preadv(c) == <<Ret>> \o parse_readv_writev_bufs(c, c.ret, {"size", "data"})
f_sys_writev_pwritev(c) == <<Ret>> \o parse_readv_writev_bufs(c, snaplen, {"data", "write"})
f_sys_writev(c) ==
  <<Arg(0)>> \o parse_readv_writev_bufs(c, snaplen, {"size", "write"}) \o f_sys_writev_pwritev(c)
f_sys_preadv(c) == <<Arg(0), Num(merge_64)>> \o f_sys_readv_preadv(c)
f_sys_pwritev(c) ==
  <<Arg(0)>> \o parse_readv_writev_bufs(c, snaplen, {"size", "write"})
  \o <<Num(merge_64)>> \o f_sys_writev_pwritev(c)
f_sys_sendfile(c) == <<Reg(0), Reg(1), Kernel, Reg(3), Ret, Kernel>>
f_sys_copy_file_range(c) == <<Arg(0), Arg(1), Arg(4), Ret, Arg(2), Arg(3)>>
f_sys_pipe(c) == <<Ret, CopyFromUser, Kernel, Kernel, Kernel>>
f_sys_eventfd(c) == <<Arg(0), Zero>>
f_sys_fcntl(c) == <<Arg(0), Arg(1)>>
f_sys_flock(c) == <<Arg(0), Arg(1)>>
f_sys_access(c) == <<Reg(1)>>
f_sys_mount(c) == <<Arg(3)>>
f_sys_renameat(c) == <<Ret, Arg(0), UStr(1), Arg(2), UStr(3)>>
f_sys_renameat2(c) == <<Ret, Arg(0), UStr(1), Arg(2), UStr(3), Arg(4)>>
f_sys_symlinkat(c) == <<Ret, UStr(0), Arg(1), UStr(2)>>
f_sys_linkat(c) == <<Ret, Arg(0), UStr(1), Arg(2), UStr(3), Arg(4)>>
f_sys_unlinkat(c) == <<Ret, Arg(0), UStr(1), Arg(2)>>
f_sys_mkdirat(c) == <<Ret, Arg(0), UStr(1), Arg(2)>>
f_sys_fchmodat(c) == <<Ret, Arg(0), UStr(1), Arg(2)>>
f_sys_chmod(c) == <<Ret, UStr(0), Arg(1)>>
f_sys_fchmod(c) == <<Ret, Arg(0), Arg(1)>>

(* cmd, type, id, quota_fmt, res, special, quotafilepath; seven values of  *)
(* an if_dqblk, three of an if_dqinfo, and quota_fmt_out.                  *)
f_sys_quotactl(c) ==
  LET copied(cmds) == IF c.req \in cmds THEN <<CopyFromUser>> ELSE << >>
  IN  <<Arg(0), Arg(0), Arg(2), Arg(2), Ret, UStr(1),
        IF c.req = "Q_QUOTAON" THEN UStr(3) ELSE KStr({1})>>
      \o copied({"Q_GETQUOTA"})
      \o <<Kernel, Kernel, Kernel, Kernel, Kernel, Kernel, Kernel>>
      \o copied({"Q_GETINFO"}) \o <<Kernel, Kernel, Kernel>>
      \o copied({"Q_GETFMT"}) \o <<Kernel>>

------------------------------------------------------------------------------
(* Sockets.                                                                *)
f_sys_socket_bind(c) == <<Unchecked(Ret), KBuf(IF c.nul THEN {0} ELSE pack_addr)>>
f_sys_connect(c) == <<Unchecked(Ret), TupleIf(~c.nul)>>
f_sys_send_e_common(c) == <<Arg(0), Arg(2)>>
f_sys_send_x_common(c) == <<Ret, IF c.ret < 0 THEN NoBuf ELSE UBuf(1, {c.ret})>>
f_sys_send(c) == f_sys_send_e_common(c) \o f_sys_send_x_common(c)
f_sys_sendto(c) == f_sys_send_e_common(c) \o <<TupleIf(~c.nul)>> \o f_sys_send_x_common(c)
f_sys_recv_common(c) == <<Ret, IF c.ret < 0 THEN NoBuf ELSE UBuf(1, {c.ret})>>
f_sys_recv(c) == f_sys_recv_common(c)
f_sys_recvfrom(c) ==
  f_sys_recv_common(c)
  \o (IF c.ret >= 0 /\ ~c.nul THEN <<CopyFromUser, TupleIf(TRUE)>> ELSE <<TupleIf(FALSE)>>)
f_sys_sendmsg(c) ==
  <<Arg(0), CopyFromUser>> \o parse_readv_writev_bufs(c, snaplen, {"size", "write"})
  \o <<TupleIf(~c.nul), Ret, CopyFromUser>>
  \o parse_readv_writev_bufs(c, snaplen, {"data", "write"})
f_sys_recvmsg(c) ==
  <<Ret, CopyFromUser>> \o parse_readv_writev_bufs(c, c.ret, {"size", "data"})
  \o <<TupleIf(c.ret >= 0 /\ ~c.nul)>>
f_sys_shutdown(c) == <<Arg(0), Arg(1)>>
f_sys_socketpair(c) ==
  <<Ret>>
  \o (IF c.ret < 0 THEN <<Zero, Zero, Zero, Zero>>
      ELSE IF c.req = "no_sock" THEN <<CopyFromUser, Kernel, Kernel, Fail("errno")>>
      ELSE <<CopyFromUser, Kernel, Kernel, Kernel, Kernel>>)
f_sys_setsockopt(c) == <<Ret, Reg(0), Reg(1), Reg(2)>> \o parse_sockopt(c) \o <<Reg(4)>>
f_sys_getsockopt(c) ==
  <<Ret, Reg(0), Reg(1), Reg(2), CopyFromUser>> \o parse_sockopt(c) \o <<Kernel>>

(* fd_to_socktuple asserts that the peer of an IPv6 connection is known;   *)
(* BUG_ON stops the machine otherwise.                                     *)
f_sys_accept_common(c) ==
  <<Ret>>
  \o (IF c.ret >= 0 /\ c.req = "reset_ipv6" THEN <<Fail("panic")>>
      ELSE <<TupleIf(c.ret >= 0)>>)
  \o <<Kernel, Kernel, Kernel>>
f_sys_accept(c) == f_sys_accept_common(c)
f_sys_accept4(c) == <<Zero>> \o f_sys_accept_common(c)

------------------------------------------------------------------------------
(* Everything else.                                                        *)
f_sys_futex(c) == <<Arg(0), Arg(1), Arg(2)>>
f_sys_poll_x_common(c) == <<Ret>> \o poll_parse_fds(c, FALSE)
f_sys_poll(c) == poll_parse_fds(c, TRUE) \o <<Arg(2), Ret>> \o poll_parse_fds(c, FALSE)
f_sys_ppoll(c) ==
  poll_parse_fds(c, TRUE)
  \o (IF c.nul THEN <<Kernel>> ELSE timespec_parse)
  \o (IF c.req = "no_sigmask" THEN <<Arg(3)>> ELSE <<CopyFromUser, Kernel>>)
  \o f_sys_poll_x_common(c)
f_sys_nanosleep(c) == timespec_parse
f_sys_getrlimit_setrlrimit(c) ==
  <<Arg(0), Ret>>
  \o (IF c.ret >= 0 \/ c.ev = "SETRLIMIT" THEN <<CopyFromUser>> ELSE << >>)
  \o <<Kernel, Kernel>>
f_sys_prlimit(c) == <<Arg(0), Arg(1), Ret, Kernel, Kernel, Kernel, Kernel>>
f_sys_mmap(c) == <<Arg(0), Arg(1), Arg(2), Arg(3), Arg(4), Arg(5)>>
f_sys_brk_munmap_mmap(c) ==
  (IF c.ev \in {"MMAP", "MMAP2"} THEN f_sys_mmap(c) ELSE << >>)
  \o <<Ret, Kernel, Kernel, Kernel>>
f_sys_mprotect(c) == <<Arg(0), Arg(1), Arg(2), Ret>>
f_sys_ptrace(c) ==
  <<Arg(0), Arg(1), Ret>>
  \o (IF c.ret < 0 THEN <<Dyn(0, Zero), Dyn(0, Zero)>>
      ELSE parse_ptrace_addr(c) \o parse_ptrace_data(c))
f_sys_getresuid_and_gid(c) ==
  <<Ret, CopyFromUser, Kernel, CopyFromUser, Kernel, CopyFromUser, Kernel>>
f_sys_setns(c) == <<Reg(0), Reg(1)>>
f_sys_unshare(c) == <<Reg(0)>>
f_sys_semget(c) == <<Reg(0), Reg(1), Reg(2)>>
f_sys_semctl(c) == <<Reg(0), Reg(1), Reg(2), IF c.req = "SETVAL" THEN Reg(3) ELSE Zero>>

(* Two operations are recorded, the second one copied if there is one, but *)
(* none at all for an empty list or a NULL pointer.                        *)
f_sys_semop(c) ==
  <<Ret, Reg(2)>>
  \o (IF c.n = 0 \/ c.nul THEN << >>
      ELSE <<CopyFromUser, Kernel, Kernel, Kernel>>
           \o IF c.n = 1 THEN <<Zero, Zero, Zero>> ELSE <<CopyFromUser, Kernel, Kernel, Kernel>>)
f_sys_bpf(c) ==
  IF c.ret >= 0 /\ c.req = "BPF_MAP_CREATE" THEN <<Dyn(0, Ret)>> ELSE <<Dyn(1, Ret)>>
------------------------------------------------------------------------------
(* The filler of an event.                                                 *)
filler_callback(c) ==
  CASE c.ev = "GENERIC" -> f_sys_generic(c)
    [] c.ev = "OPEN" -> f_sys_open(c)
    [] c.ev = "READ" -> f_sys_read(c)
    [] c.ev = "WRITE" -> f_sys_write(c)
    [] c.ev \in {"EXECVE_8", "EXECVE_19"} -> f_sys_execve(c)
    [] c.ev = "BIND" -> f_sys_socket_bind(c)
    [] c.ev = "CONNECT" -> f_sys_connect(c)
    [] c.ev = "SEND" -> f_sys_send(c)
    [] c.ev = "SENDTO" -> f_sys_sendto(c)
    [] c.ev = "RECV" -> f_sys_recv(c)
    [] c.ev = "RECVFROM" -> f_sys_recvfrom(c)
    [] c.ev = "SHUTDOWN" -> f_sys_shutdown(c)
    [] c.ev = "SOCKETPAIR" -> f_sys_socketpair(c)
    [] c.ev = "SETSOCKOPT" -> f_sys_setsockopt(c)
    [] c.ev = "GETSOCKOPT" -> f_sys_getsockopt(c)
    [] c.ev = "SENDMSG" -> f_sys_sendmsg(c)
    [] c.ev = "RECVMSG" -> f_sys_recvmsg(c)
    [] c.ev = "CREAT" -> f_sys_creat(c)
    [] c.ev = "PIPE" -> f_sys_pipe(c)
    [] c.ev = "EVENTFD" -> f_sys_eventfd(c)
    [] c.ev = "FUTEX" -> f_sys_futex(c)
    [] c.ev = "POLL" -> f_sys_poll(c)
    [] c.ev = "LSEEK" -> f_sys_lseek(c)
    [] c.ev = "LLSEEK" -> f_sys_llseek(c)
    [] c.ev = "PREAD" -> f_sys_pread(c)
    [] c.ev = "PWRITE" -> f_sys_pwrite(c)
    [] c.ev = "READV" -> f_sys_readv_preadv(c)
    [] c.ev = "WRITEV" -> f_sys_writev(c)
    [] c.ev = "PREADV" -> f_sys_preadv(c)
    [] c.ev = "PWRITEV" -> f_sys_pwritev(c)
    [] c.ev = "NANOSLEEP" -> f_sys_nanosleep(c)
    [] c.ev \in {"GETRLIMIT", "SETRLIMIT"} -> f_sys_getrlimit_setrlrimit(c)
    [] c.ev = "PRLIMIT" -> f_sys_prlimit(c)
    [] c.ev = "FCNTL" -> f_sys_fcntl(c)
    [] c.ev \in {"BRK_4", "MMAP", "MMAP2", "MUNMAP"} -> f_sys_brk_munmap_mmap(c)
    [] c.ev = "PTRACE" -> f_sys_ptrace(c)
    [] c.ev = "RENAMEAT" -> f_sys_renameat(c)
    [] c.ev = "SYMLINKAT" -> f_sys_symlinkat(c)
    [] c.ev = "SENDFILE" -> f_sys_sendfile(c)
    [] c.ev = "QUOTACTL" -> f_sys_quotactl(c)
    [] c.ev \in {"GETRESUID", "GETRESGID"} -> f_sys_getresuid_and_gid(c)
    [] c.ev \in {"CLONE_20", "FORK_20", "VFORK_20", "CLONE3"} -> f_proc_startupdate(c)
    [] c.ev = "SETNS" -> f_sys_setns(c)
    [] c.ev = "FLOCK" -> f_sys_flock(c)
    [] c.ev = "ACCEPT_5" -> f_sys_accept(c)
    [] c.ev = "ACCEPT4_5" -> f_sys_accept4(c)
    [] c.ev = "SEMOP" -> f_sys_semop(c)
    [] c.ev = "SEMCTL" -> f_sys_semctl(c)
    [] c.ev = "PPOLL" -> f_sys_ppoll(c)
    [] c.ev = "MOUNT" -> f_sys_mount(c)
    [] c.ev = "SEMGET" -> f_sys_semget(c)
    [] c.ev = "ACCESS" -> f_sys_access(c)
    [] c.ev = "UNSHARE" -> f_sys_unshare(c)
    [] c.ev = "BPF" -> f_sys_bpf(c)
    [] c.ev = "UNLINKAT_2" -> f_sys_unlinkat(c)
    [] c.ev = "MKDIRAT" -> f_sys_mkdirat(c)
    [] c.ev = "OPENAT_2" -> f_sys_openat(c)
    [] c.ev = "LINKAT_2" -> f_sys_linkat(c)
    [] c.ev = "FCHMODAT" -> f_sys_fchmodat(c)
    [] c.ev = "CHMOD" -> f_sys_chmod(c)
    [] c.ev = "FCHMOD" -> f_sys_fchmod(c)
    [] c.ev = "RENAMEAT2" -> f_sys_renameat2(c)
    [] c.ev = "OPENAT2" -> f_sys_openat2(c)
    [] c.ev = "MPROTECT" -> f_sys_mprotect(c)
    [] c.ev = "EXECVEAT" -> f_sys_execveat(c)
    [] c.ev = "COPY_FILE_RANGE" -> f_sys_copy_file_range(c)
    [] c.ev = "CLONE_11" -> <<Fail("bug")>>     \* f_sys_procstart is not linked in
    [] OTHER -> f_sys_empty(c)

nod_autofill(ids) == [i \in DOMAIN ids |-> IF ids[i] >= 0 THEN Reg(ids[i]) ELSE Num(ids[i])]

(* The arguments before the first return value or default are filled in,   *)
(* then those of the filler, then the others.                              *)
nod_filler_callback(c) ==
  LET ids == autofill_args[c.ev]
      end_index == CHOOSE i \in 0 .. Len(ids) :
                     /\ \A j \in 1 .. i : ids[j] >= 0
                     /\ i = Len(ids) \/ ids[i + 1] < 0
  IN  nod_autofill(SubSeq(ids, 1, end_index)) \o filler_callback(c)
      \o nod_autofill(SubSeq(ids, end_index + 1, Len(ids)))
=============================================================================
