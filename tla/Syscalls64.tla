---------------------------- MODULE Syscalls64 ----------------------------
(***************************************************************************)
(* The system calls of the 64-bit emulator: which numbers are known and    *)
(* what the handler of each one does, in the words of HostCalls.           *)
(***************************************************************************)
EXTENDS HostCalls

(* The numbers 0 to 145. *)
Numbers0To145 ==
    From(0, <<"io_setup", "io_destroy", "io_submit", "io_cancel", "io_getevents", "setxattr",
        "lsetxattr", "fsetxattr", "getxattr", "lgetxattr", "fgetxattr", "listxattr", "llistxattr",
        "flistxattr", "removexattr", "lremovexattr", "fremovexattr", "getcwd", "lookup_dcookie",
        "eventfd2", "epoll_create1", "epoll_ctl", "epoll_pwait", "dup", "dup3", "fcntl",
        "inotify_init1", "inotify_add_watch", "inotify_rm_watch", "ioctl", "ioprio_set",
        "ioprio_get", "flock", "mknodat", "mkdirat", "unlinkat", "symlinkat", "linkat",
        "renameat", "umount2", "mount", "pivot_root", "nfsservctl", "statfs", "fstatfs",
        "truncate", "ftruncate", "fallocate", "faccessat", "chdir", "fchdir", "chroot", "fchmod",
        "fchmodat", "fchownat", "fchown", "openat", "close", "vhangup", "pipe2", "quotactl",
        "getdents64", "lseek", "read", "write", "readv", "writev", "pread64", "pwrite64",
        "preadv", "pwritev", "sendfile", "pselect6", "ppoll", "signalfd4", "vmsplice", "splice",
        "tee", "readlinkat", "newfstatat", "fstat", "sync", "fsync", "fdatasync",
        "sync_file_range", "timerfd_create", "timerfd_settime", "timerfd_gettime", "utimensat",
        "acct", "capget", "capset", "personality", "exit", "exit_group", "waitid",
        "set_tid_address", "unshare", "futex", "set_robust_list", "get_robust_list", "nanosleep",
        "getitimer", "setitimer", "kexec_load", "init_module", "delete_module", "timer_create",
        "timer_gettime", "timer_getoverrun", "timer_settime", "timer_delete", "clock_settime",
        "clock_gettime", "clock_getres", "clock_nanosleep", "syslog", "ptrace", "sched_setparam",
        "sched_setscheduler", "sched_getscheduler", "sched_getparam", "sched_setaffinity",
        "sched_getaffinity", "sched_yield", "sched_get_priority_max", "sched_get_priority_min",
        "sched_rr_get_interval", "restart_syscall", "kill", "tkill", "tgkill", "sigaltstack",
        "rt_sigsuspend", "rt_sigaction", "rt_sigprocmask", "rt_sigpending", "rt_sigtimedwait",
        "rt_sigqueueinfo", "rt_sigreturn", "setpriority", "getpriority", "reboot", "setregid",
        "setgid", "setreuid">>)

(* The numbers from 146 on. *)
Numbers146To450 ==
    From(146, <<"setuid", "setresuid", "getresuid", "setresgid", "getresgid", "setfsuid",
        "setfsgid", "times", "setpgid", "getpgid", "getsid", "setsid", "getgroups", "setgroups",
        "uname", "sethostname", "setdomainname", "getrlimit", "setrlimit", "getrusage", "umask",
        "prctl", "getcpu", "gettimeofday", "settimeofday", "adjtimex", "getpid", "getppid",
        "getuid", "geteuid", "getgid", "getegid", "gettid", "sysinfo", "mq_open", "mq_unlink",
        "mq_timedsend", "mq_timedreceive", "mq_notify", "mq_getsetattr", "msgget", "msgctl",
        "msgrcv", "msgsnd", "semget", "semctl", "semtimedop", "semop", "shmget", "shmctl",
        "shmat", "shmdt", "socket", "socketpair", "bind", "listen", "accept", "connect",
        "getsockname", "getpeername", "sendto", "recvfrom", "setsockopt", "getsockopt",
        "shutdown", "sendmsg", "recvmsg", "readahead", "brk", "munmap", "mremap", "add_key",
        "request_key", "keyctl", "clone", "execve", "mmap", "fadvise64", "swapon", "swapoff",
        "mprotect", "msync", "mlock", "munlock", "mlockall", "munlockall", "mincore", "madvise",
        "remap_file_pages", "mbind", "get_mempolicy", "set_mempolicy", "migrate_pages",
        "move_pages", "rt_tgsigqueueinfo", "perf_event_open", "accept4", "recvmmsg">>) @@
    From(260, <<"wait4", "prlimit64", "fanotify_init", "fanotify_mark", "name_to_handle_at",
        "open_by_handle_at", "clock_adjtime", "syncfs", "setns", "sendmmsg", "process_vm_readv",
        "process_vm_writev", "kcmp", "finit_module", "sched_setattr", "sched_getattr",
        "renameat2", "seccomp", "getrandom", "memfd_create", "bpf", "execveat", "userfaultfd",
        "membarrier", "mlock2", "copy_file_range", "preadv2", "pwritev2", "pkey_mprotect",
        "pkey_alloc", "pkey_free", "statx", "io_pgetevents", "rseq", "kexec_file_load">>) @@
    From(424, <<"pidfd_send_signal", "io_uring_setup", "io_uring_enter", "io_uring_register",
        "open_tree", "move_mount", "fsopen", "fsconfig", "fsmount", "fspick", "pidfd_open",
        "clone3", "close_range", "openat2", "pidfd_getfd", "faccessat2", "process_madvise",
        "epoll_pwait2", "mount_setattr", "quotactl_fd", "landlock_create_ruleset",
        "landlock_add_rule", "landlock_restrict_self", "memfd_secret", "process_mrelease",
        "futex_waitv", "set_mempolicy_home_node">>)

(* A signal is a probe, is accepted, enters its handler or ends the run      *)
(* (Signals has the handlers; here they only change registers and frames).   *)
Deliver == {<<>>, <<Write("stack"), Does("frames"), Does("registers")>>, <<Stop>>}

(* Asynchronous I/O, attributes, eventfd, epoll, descriptors, ioctl, mkdirat. *)
AsyncAndEvents ==
    [getcwd |-> {<<Denied("ERANGE"), Write("buf")>>},
     eventfd2 |-> {<<Denied("EINVAL"), Opens>>},
     epoll_create1 |-> {<<Opens>>},
     epoll_ctl |-> {<<Given(Read("event")), Asks("watches")>>},
     epoll_pwait |-> {<<Denied("EBADF"), Does("watches")>>, <<Denied("EBADF"), Does("watches"),
         Write("events")>>},
     dup3 |-> {<<Denied("EINVAL"), Asks("descriptors")>>},
     ioctl |-> {<<Asks("device")>>, <<Denied("EBADF"), Read("argp"), Does("device")>>,
         <<Denied("EBADF"), Write("argp")>>, <<Denied("EBADF"), Read("argp"), Asks("device"),
         Write("argp")>>},
     mkdirat |-> {<<Read("path"), Asks("names")>>}] @@
    Each({"dup", "fcntl"}, {<<Asks("descriptors")>>}) @@
    Unimplemented({"io_setup", "io_destroy", "io_submit", "io_cancel", "io_getevents", "setxattr",
        "lsetxattr", "fsetxattr", "getxattr", "lgetxattr", "fgetxattr", "listxattr", "llistxattr",
        "flistxattr", "removexattr", "lremovexattr", "fremovexattr", "lookup_dcookie",
        "inotify_init1", "inotify_add_watch", "inotify_rm_watch", "ioprio_set", "ioprio_get",
        "flock", "mknodat"})

(* Links, renames, mounts, statfs, sizes, modes and owners, openat, close. *)
Names ==
    [unlinkat |-> {<<Read("path"), Asks("names")>>},
     renameat |-> {<<Read("old"), Read("new"), Asks("names")>>},
     statfs |-> {<<Read("path"), Denied("ENOENT"), Write("buf")>>},
     fstatfs |-> {<<Denied("EBADF"), Write("buf")>>},
     truncate |-> {<<Read("path"), Asks("contents")>>},
     ftruncate |-> {<<Denied("EINVAL"), Asks("contents")>>},
     fallocate |-> {<<Denied("EBADF"), Asks("contents")>>},
     openat |-> {<<Read("path"), Asks("descriptors")>>, <<Read("path"), Denied("EEXIST"),
         Does("names"), Asks("descriptors")>>},
     close |-> {<<Asks("descriptors")>>},
     pipe2 |-> {<<Opens, Write("pipefd")>>}] @@
    Each({"faccessat", "fchmodat", "fchownat"}, {<<Read("path"), Denied("ENOENT")>>}) @@
    Each({"fchmod", "fchown"}, {<<Denied("EBADF")>>}) @@
    Unimplemented({"symlinkat", "linkat", "umount2", "mount", "pivot_root", "nfsservctl", "chdir",
        "fchdir", "chroot", "vhangup", "quotactl"})

(* Pipes, directories, positions, reading, writing, select and poll. *)
Streams ==
    [getdents64 |-> {<<Denied("EBADF"), Denied("ENOTDIR"), Does("position")>>, <<Denied("EBADF"),
         Denied("ENOTDIR"), Denied("EINVAL"), Write("dirp"), Does("position")>>},
     lseek |-> {<<Asks("position")>>},
     read |-> {<<Asks("position"), Write("buf")>>},
     write |-> {<<Read("buf"), Asks("contents")>>},
     readv |-> {<<Read("iov"), Asks("position")>>, <<Read("iov"), Asks("position"),
         Write("base")>>},
     writev |-> {<<Read("iov"), Given(Read("base")), Asks("contents")>>},
     pread64 |-> {<<Denied("EINVAL"), Denied("EBADF"), Write("buf")>>},
     pwrite64 |-> {<<Denied("EINVAL"), Read("buf"), Asks("contents")>>},
     pselect6 |-> {<<Given(Read("readfds")), Does("watches"), Given(Write("readfds")),
         Given(Read("writefds")), Given(Write("exceptfds"))>>},
     ppoll |-> {<<>>, <<Read("fds"), Does("watches"), Write("fds")>>}] @@
    Unimplemented({"preadv", "pwritev", "sendfile"})

(* Links and stat, synchronising, timers, exit, futexes, sleeping. *)
StatAndExit ==
    [readlinkat |-> {<<Read("path"), Denied("EINVAL"), Write("buf")>>},
     newfstatat |-> {<<Read("path"), Denied("ENOENT"), Write("statbuf")>>},
     fstat |-> {<<Denied("EBADF"), Write("statbuf")>>},
     sync |-> {<<>>},
     set_tid_address |-> {<<Does("clear_child_tid")>>},
     futex |-> {<<>>, <<Read("uaddr"), Denied("EAGAIN")>>, <<Fails("ENOSYS")>>},
     set_robust_list |-> {<<Does("robust_list")>>},
     get_robust_list |-> {<<Given(Write("head")), Given(Write("len"))>>},
     nanosleep |-> {<<Read("req"), Denied("EINVAL"), Sleep, Given(Write("rem"))>>}] @@
    Each({"fsync", "fdatasync"}, {<<Denied("EBADF")>>}) @@
    Each({"exit", "exit_group"}, {<<Stop>>}) @@
    Unimplemented({"signalfd4", "vmsplice", "splice", "tee", "sync_file_range", "timerfd_create",
        "timerfd_settime", "timerfd_gettime", "utimensat", "acct", "capget", "capset",
        "personality", "waitid", "unshare"})

(* Timers, clocks, scheduling. *)
ClocksAndScheduling ==
    [clock_gettime |-> {<<Clock("ns"), Write("timespec")>>},
     clock_getres |-> {<<Given(Write("res"))>>},
     clock_nanosleep |-> {<<Read("req"), SleepUntil>>, <<Read("req"), Sleep,
         Given(Write("rem"))>>},
     sched_getparam |-> {<<Given(Write("param"))>>},
     sched_setaffinity |-> {<<>>, <<Read("mask"), Does("affinity")>>},
     sched_getaffinity |-> {<<Write("mask")>>}] @@
    Each({"sched_getscheduler", "sched_yield"}, {<<>>}) @@
    Each({"sched_get_priority_max", "sched_get_priority_min"}, {<<Denied("EINVAL")>>}) @@
    Unimplemented({"getitimer", "setitimer", "kexec_load", "init_module", "delete_module",
        "timer_create", "timer_gettime", "timer_getoverrun", "timer_settime", "timer_delete",
        "clock_settime", "syslog", "ptrace", "sched_setparam", "sched_setscheduler",
        "sched_rr_get_interval", "restart_syscall"})

(* Signals, priorities, identities. *)
SignalCalls ==
    [kill |-> After(<<Denied("ESRCH")>>, Deliver),
     tkill |-> {<<Denied("ESRCH")>>} \cup Deliver,
     tgkill |-> Deliver,
     sigaltstack |-> {<<Given(Write("old"))>>, <<Given(Write("old")), Read("new"),
         Does("alt_stack")>>},
     rt_sigaction |-> {<<Given(Write("oldact"))>>, <<Given(Write("oldact")), Read("act"),
         Does("sigactions")>>},
     rt_sigprocmask |-> {<<Given(Write("oldset"))>>, <<Given(Write("oldset")), Read("set"),
         Does("mask")>>},
     rt_sigpending |-> {<<Write("set")>>},
     rt_sigreturn |-> {<<>>, <<Does("frames"), Read("frame"), Does("registers")>>}] @@
    Each({"setpriority", "getpriority"}, {<<>>}) @@
    Unimplemented({"rt_sigsuspend", "rt_sigtimedwait", "rt_sigqueueinfo", "reboot", "setregid",
        "setgid", "setreuid", "setuid", "setresuid", "getresuid", "setresgid", "getresgid"})

(* Times, groups, limits, prctl, getcpu. *)
LimitsAndNames ==
    [times |-> {<<Given(Write("buf")), Clock("1/100 s")>>},
     getgroups |-> {<<>>, <<Denied("EINVAL"), Write("list")>>, <<Denied("EINVAL")>>},
     uname |-> {<<Write("utsname")>>},
     getrlimit |-> {<<Denied("EINVAL"), Write("rlim")>>},
     setrlimit |-> {<<Read("rlim")>>},
     getrusage |-> {<<Denied("EINVAL"), Write("usage")>>},
     umask |-> {<<Does("umask")>>},
     prctl |-> {<<Read("arg2"), Does("thread_name")>>, <<Write("arg2")>>, <<Does("dumpable")>>,
         <<>>, <<Given(Read("arg5"))>>, <<Fails("EINVAL")>>},
     getcpu |-> {<<Given(Write("cpu")), Given(Write("node"))>>},
     gettimeofday |-> {<<Clock("us"), Write("timeval")>>}] @@
    Unimplemented({"setfsuid", "setfsgid", "setpgid", "getpgid", "getsid", "setsid", "setgroups",
        "sethostname", "setdomainname"})

(* Time of day, identities, message queues, semaphores, sockets. *)
IdentityAndQueues ==
    [sysinfo |-> {<<Clock("s"), Write("info")>>},
     socket |-> {<<Asks("descriptors")>>},
     socketpair |-> {<<Asks("descriptors"), Write("sv")>>},
     connect |-> {<<Given(Read("addr")), Asks("links")>>},
     getsockname |-> {<<Given(Write("addrlen"))>>}] @@
    Each({"getpid", "getppid", "getuid", "geteuid", "getgid", "getegid", "gettid"}, {<<>>}) @@
    Each({"bind", "listen"}, {<<Denied("ENOTSOCK")>>}) @@
    Unimplemented({"settimeofday", "adjtimex", "mq_open", "mq_unlink", "mq_timedsend",
        "mq_timedreceive", "mq_notify", "mq_getsetattr", "msgget", "msgctl", "msgrcv", "msgsnd",
        "semget", "semctl", "semtimedop", "semop", "shmget", "shmctl", "shmat", "shmdt",
        "accept"})

(* Sockets, brk, munmap, mremap. *)
Sockets ==
    [getpeername |-> {<<Given(Write("addrlen"))>>},
     sendto |-> {<<Denied("ENOTSOCK"), Read("buf"), Does("streams")>>},
     recvfrom |-> {<<Denied("ENOTSOCK"), Does("streams"), Write("buf")>>},
     getsockopt |-> {<<Denied("ENOTSOCK"), Denied("ENOPROTOOPT"), Given(Write("optval")),
         Given(Write("optlen"))>>},
     sendmsg |-> {<<Denied("ENOTSOCK"), Read("msg"), Read("iov")>>, <<Denied("ENOTSOCK"),
         Read("msg"), Read("iov"), Read("base"), Does("streams"), Given(Read("next")),
         Does("streams")>>},
     recvmsg |-> {<<Denied("ENOTSOCK"), Read("msg"), Read("iov"), Does("streams"),
         Given(Write("base"))>>},
     brk |-> {<<Risks("mappings")>>},
     munmap |-> {<<Try("EINVAL"), Risks("mappings")>>},
     mremap |-> {<<Denied("EINVAL"), Try("ENOMEM")>>, <<Denied("EINVAL"), Try("ENOMEM"),
         Risks("mappings")>>, <<Denied("EINVAL"), Fails("ENOMEM")>>, <<Denied("EINVAL"),
         Try("ENOMEM"), Risks("mappings"), Read("old"), Write("base"), Given(Risks("mappings"))>>}] @@
    Each({"setsockopt", "shutdown"}, {<<Denied("ENOTSOCK")>>}) @@
    Unimplemented({"readahead", "add_key"})

(* Keys, clone, mmap and protection, locking, policies. *)
Mappings ==
    [clone |-> {<<Refuse>>, <<NewThread, Given(Write("ptid")), Given(Write("ctid"))>>},
     mmap |-> {<<Refuse>>, <<Risks("mappings")>>, <<Risks("mappings"), Given(Write("base"))>>},
     mprotect |-> {<<Risks("mappings")>>},
     prlimit64 |-> {<<Denied("EINVAL"), Given(Write("old_limit"))>>}] @@
    Each({"msync", "mlock", "munlock", "mlockall", "munlockall", "madvise"}, {<<>>}) @@
    Unimplemented({"request_key", "keyctl", "execve", "fadvise64", "swapon", "swapoff", "mincore",
        "remap_file_pages", "mbind", "get_mempolicy", "set_mempolicy", "migrate_pages",
        "move_pages", "rt_tgsigqueueinfo", "perf_event_open", "accept4", "recvmmsg", "wait4",
        "fanotify_init", "fanotify_mark", "name_to_handle_at", "open_by_handle_at",
        "clock_adjtime", "syncfs", "setns", "sendmmsg"})

(* Process memory, rename, random bytes, barriers, statx, rseq, mounts. *)
Late ==
    [renameat2 |-> {<<Read("old"), Read("new"), Asks("names")>>},
     getrandom |-> {<<Write("buf")>>},
     statx |-> {<<Read("path"), Denied("ENOENT"), Write("statxbuf")>>},
     rseq |-> {<<>>, <<Given(Write("rseq"))>>}] @@
    Each({"membarrier", "mlock2"}, {<<>>}) @@
    Unimplemented({"process_vm_readv", "process_vm_writev", "kcmp", "finit_module",
        "sched_setattr", "sched_getattr", "seccomp", "memfd_create", "bpf", "execveat",
        "userfaultfd", "copy_file_range", "preadv2", "pwritev2", "pkey_mprotect", "pkey_alloc",
        "pkey_free", "io_pgetevents", "kexec_file_load", "pidfd_send_signal", "io_uring_setup",
        "io_uring_enter", "io_uring_register", "open_tree", "move_mount", "fsopen", "fsconfig",
        "fsmount", "fspick", "pidfd_open", "clone3"})

(* close_range and later. *)
Latest ==
    [close_range |-> {<<Does("descriptors")>>},
     faccessat2 |-> {<<Read("path"), Denied("ENOENT")>>},
     epoll_pwait2 |-> {<<Denied("EBADF"), Does("watches")>>, <<Denied("EBADF"), Does("watches"),
         Write("events")>>}] @@
    Unimplemented({"openat2", "pidfd_getfd", "process_madvise", "mount_setattr", "quotactl_fd",
        "landlock_create_ruleset", "landlock_add_rule", "landlock_restrict_self", "memfd_secret",
        "process_mrelease", "futex_waitv", "set_mempolicy_home_node"})

Numbered == Numbers0To145 @@ Numbers146To450
Handlers ==
    AsyncAndEvents @@ Names @@ Streams @@ StatAndExit @@ ClocksAndScheduling @@ SignalCalls @@
    LimitsAndNames @@ IdentityAndQueues @@ Sockets @@ Mappings @@ Late @@ Latest
=============================================================================
