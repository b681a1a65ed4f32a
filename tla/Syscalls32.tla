---------------------------- MODULE Syscalls32 ----------------------------
(***************************************************************************)
(* The system calls of the 32-bit emulator: which numbers are known and    *)
(* what the handler of each one does, in the words of HostCalls.           *)
(* Many are an older name of another one, and do the same.                 *)
(***************************************************************************)
EXTENDS HostCalls

(* The numbers 0 to 162. *)
Numbers0To162 ==
    From(0, <<"restart_syscall", "exit", "fork", "read", "write", "open", "close">>) @@
    From(8, <<"creat", "link", "unlink", "execve", "chdir">>) @@
    From(14, <<"mknod", "chmod", "lchown">>) @@
    From(19, <<"lseek", "getpid", "mount">>) @@
    From(23, <<"setuid", "getuid">>) @@
    From(26, <<"ptrace">>) @@
    From(29, <<"pause">>) @@
    From(33, <<"access", "nice">>) @@
    From(36, <<"sync", "kill", "rename", "mkdir", "rmdir", "dup", "pipe", "times">>) @@
    From(45, <<"brk", "setgid", "getgid">>) @@
    From(49, <<"geteuid", "getegid", "acct", "umount2">>) @@
    From(54, <<"ioctl", "fcntl">>) @@
    From(57, <<"setpgid">>) @@
    From(60, <<"umask", "chroot", "ustat", "dup2", "getppid", "getpgrp", "setsid", "sigaction">>) @@
    From(70, <<"setreuid", "setregid", "sigsuspend", "sigpending", "sethostname", "setrlimit">>) @@
    From(77, <<"getrusage", "gettimeofday", "settimeofday", "getgroups", "setgroups">>) @@
    From(83, <<"symlink">>) @@
    From(85, <<"readlink", "uselib", "swapon", "reboot">>) @@
    From(91, <<"munmap", "truncate", "ftruncate", "fchmod", "fchown", "getpriority",
        "setpriority">>) @@
    From(99, <<"statfs", "fstatfs">>) @@
    From(103, <<"syslog", "setitimer", "getitimer", "stat", "lstat", "fstat">>) @@
    From(111, <<"vhangup">>) @@
    From(114, <<"wait4", "swapoff", "sysinfo">>) @@
    From(118, <<"fsync", "sigreturn", "clone", "setdomainname", "uname">>) @@
    From(124, <<"adjtimex", "mprotect", "sigprocmask">>) @@
    From(128, <<"init_module", "delete_module">>) @@
    From(131, <<"quotactl", "getpgid", "fchdir", "bdflush", "sysfs", "personality">>) @@
    From(138, <<"setfsuid", "setfsgid", "llseek", "getdents", "newselect", "flock", "msync",
        "readv", "writev", "getsid", "fdatasync", "sysctl", "mlock", "munlock", "mlockall",
        "munlockall", "sched_setparam", "sched_getparam", "sched_setscheduler",
        "sched_getscheduler", "sched_yield", "sched_get_priority_max", "sched_get_priority_min",
        "sched_rr_get_interval", "nanosleep">>)

(* The numbers 163 to 313. *)
Numbers163To313 ==
    From(163, <<"mremap", "setresuid", "getresuid">>) @@
    From(168, <<"poll", "nfsservctl", "setresgid", "getresgid", "prctl", "rt_sigreturn",
        "rt_sigaction", "rt_sigprocmask", "rt_sigpending", "rt_sigtimedwait", "rt_sigqueueinfo",
        "rt_sigsuspend", "pread64", "pwrite64", "chown", "getcwd", "capget", "capset",
        "sigaltstack", "sendfile">>) @@
    From(190, <<"vfork", "ugetrlimit", "mmap2", "truncate64", "ftruncate64", "stat64", "lstat64",
        "fstat64", "lchown", "getuid", "getgid", "geteuid", "getegid", "setreuid", "setregid",
        "getgroups", "setgroups", "fchown", "setresuid", "getresuid", "setresgid", "getresgid",
        "chown", "setuid", "setgid", "setfsuid", "setfsgid", "getdents64", "pivot_root",
        "mincore", "madvise", "fcntl64">>) @@
    From(224, <<"gettid", "readahead", "setxattr", "lsetxattr", "fsetxattr", "getxattr",
        "lgetxattr", "fgetxattr", "listxattr", "llistxattr", "flistxattr", "removexattr",
        "lremovexattr", "fremovexattr", "tkill", "sendfile64", "futex", "sched_setaffinity",
        "sched_getaffinity", "io_setup", "io_destroy", "io_getevents", "io_submit", "io_cancel",
        "exit_group", "lookup_dcookie", "epoll_create", "epoll_ctl", "epoll_wait",
        "remap_file_pages">>) @@
    From(256, <<"set_tid_address", "timer_create", "timer_settime", "timer_gettime",
        "timer_getoverrun", "timer_delete", "clock_settime", "clock_gettime", "clock_getres",
        "clock_nanosleep", "statfs64", "fstatfs64", "tgkill", "utimes", "arm_fadvise64_64",
        "pciconfig_iobase", "pciconfig_read", "pciconfig_write", "mq_open", "mq_unlink",
        "mq_timedsend", "mq_timedreceive", "mq_notify", "mq_getsetattr", "waitid", "socket",
        "bind", "connect", "listen", "accept", "getsockname", "getpeername", "socketpair", "send",
        "sendto", "recv", "recvfrom", "shutdown", "setsockopt", "getsockopt", "sendmsg",
        "recvmsg", "semop", "semget", "semctl", "msgsnd", "msgrcv", "msgget", "msgctl", "shmat",
        "shmdt", "shmget", "shmctl", "add_key", "request_key", "keyctl", "semtimedop",
        "vserver">>)

(* The later numbers and those of ARM. *)
Numbers314To450 ==
    From(314, <<"ioprio_set", "ioprio_get", "inotify_init", "inotify_add_watch",
        "inotify_rm_watch", "mbind", "get_mempolicy", "set_mempolicy", "openat", "mkdirat",
        "mknodat", "fchownat", "futimesat", "fstatat64", "unlinkat", "renameat", "linkat",
        "symlinkat", "readlinkat", "fchmodat", "faccessat", "pselect6", "ppoll", "unshare",
        "set_robust_list", "get_robust_list", "splice", "arm_sync_file_range", "tee", "vmsplice",
        "move_pages", "getcpu", "epoll_pwait", "kexec_load", "utimensat", "signalfd",
        "timerfd_create", "eventfd", "fallocate", "timerfd_settime", "timerfd_gettime",
        "signalfd4", "eventfd2", "epoll_create1", "dup3", "pipe2", "inotify_init1", "preadv",
        "pwritev", "rt_tgsigqueueinfo", "perf_event_open", "recvmmsg", "accept4", "fanotify_init",
        "fanotify_mark", "prlimit64", "name_to_handle_at", "open_by_handle_at", "clock_adjtime",
        "syncfs", "sendmmsg", "setns", "process_vm_readv", "process_vm_writev", "kcmp",
        "finit_module", "sched_setattr", "sched_getattr", "renameat2", "seccomp", "getrandom",
        "memfd_create", "bpf", "execveat", "userfaultfd", "membarrier", "mlock2",
        "copy_file_range", "preadv2", "pwritev2", "pkey_mprotect", "pkey_alloc", "pkey_free",
        "statx", "rseq", "io_pgetevents", "migrate_pages", "kexec_file_load">>) @@
    From(403, <<"clock_gettime64", "clock_settime64", "clock_adjtime64", "clock_getres_time64",
        "clock_nanosleep_time64", "timer_gettime64", "timer_settime64", "timerfd_gettime64",
        "timerfd_settime64", "utimensat_time64", "pselect6_time64", "ppoll_time64">>) @@
    From(416, <<"io_pgetevents_time64", "recvmmsg_time64", "mq_timedsend_time64",
        "mq_timedreceive_time64", "semtimedop_time64", "rt_sigtimedwait_time64", "futex_time64",
        "sched_rr_get_interval_time64", "pidfd_send_signal", "io_uring_setup", "io_uring_enter",
        "io_uring_register", "open_tree", "move_mount", "fsopen", "fsconfig", "fsmount", "fspick",
        "pidfd_open", "clone3", "close_range", "openat2", "pidfd_getfd", "faccessat2",
        "process_madvise", "epoll_pwait2", "mount_setattr", "quotactl_fd",
        "landlock_create_ruleset", "landlock_add_rule", "landlock_restrict_self">>) @@
    From(448, <<"process_mrelease", "futex_waitv", "set_mempolicy_home_node">>) @@
    From(983041, <<"arm_breakpoint", "arm_cacheflush", "arm_usr26", "arm_usr32", "arm_set_tls",
        "arm_get_tls">>)

(* A signal is a probe, is accepted, enters its handler or ends the run      *)
(* (Signals has the handlers; here they only change registers and frames).   *)
Deliver == {<<>>, <<Write("stack"), Does("frames"), Does("registers")>>, <<Stop>>}

(* Only there for old programs: processes, files, signals, modules. *)
OldProcesses ==
    Unimplemented({"fork", "vfork", "mknod", "ustat", "uselib", "bdflush", "sysfs", "sysctl",
        "nice", "pause", "getpgrp", "vserver", "futimesat", "utimes", "pciconfig_iobase",
        "pciconfig_read", "pciconfig_write", "io_setup", "io_destroy", "io_submit", "io_cancel",
        "io_getevents", "setxattr", "lsetxattr", "fsetxattr", "getxattr", "lgetxattr",
        "fgetxattr", "listxattr", "llistxattr", "flistxattr", "removexattr", "lremovexattr",
        "fremovexattr", "lookup_dcookie", "inotify_init1", "inotify_init", "inotify_add_watch",
        "inotify_rm_watch", "ioprio_set", "ioprio_get", "flock", "mknodat", "umount2", "mount",
        "pivot_root", "nfsservctl", "quotactl", "preadv", "pwritev"})

(* Asynchronous I/O, attributes, watches, splicing. *)
AsyncAndWatches ==
    Unimplemented({"arm_sync_file_range", "timerfd_create", "timerfd_settime", "timerfd_gettime",
        "utimensat", "acct", "capget", "capset", "personality", "waitid", "wait4", "unshare",
        "getitimer", "setitimer", "kexec_load", "init_module", "delete_module", "timer_create",
        "timer_gettime", "timer_getoverrun", "timer_settime", "timer_delete", "clock_settime",
        "syslog", "ptrace", "sched_setparam", "sched_setscheduler", "sched_rr_get_interval",
        "reboot", "swapon", "swapoff", "sethostname", "setdomainname", "settimeofday", "adjtimex",
        "setpgid", "getpgid", "getsid", "setsid", "setgroups", "mq_open", "mq_unlink",
        "mq_timedsend", "mq_timedreceive", "mq_notify", "mq_getsetattr", "msgget", "msgctl",
        "msgrcv", "msgsnd"})

(* Timers, modules, scheduling, identities, quotas, queues. *)
TimersAndIdentities ==
    Unimplemented({"semget", "semctl", "semtimedop", "semop", "shmget", "shmctl", "shmat",
        "shmdt", "add_key", "request_key", "keyctl", "readahead", "arm_fadvise64_64", "mincore",
        "remap_file_pages", "mbind", "get_mempolicy", "set_mempolicy", "migrate_pages",
        "move_pages", "rt_tgsigqueueinfo", "perf_event_open", "accept", "accept4", "recvmmsg",
        "sendmmsg", "fanotify_init", "fanotify_mark", "name_to_handle_at", "open_by_handle_at",
        "clock_adjtime", "syncfs", "setns", "process_vm_readv", "process_vm_writev", "kcmp",
        "finit_module", "sched_setattr", "sched_getattr", "seccomp", "memfd_create", "bpf",
        "execveat", "userfaultfd", "copy_file_range", "preadv2", "pwritev2", "pkey_mprotect",
        "pkey_alloc", "pkey_free"})

(* Message queues, semaphores, shared memory, keys, policies, events. *)
QueuesAndKeys ==
    Unimplemented({"io_pgetevents", "kexec_file_load", "pidfd_send_signal", "io_uring_setup",
        "io_uring_enter", "io_uring_register", "open_tree", "move_mount", "fsopen", "fsconfig",
        "fsmount", "fspick", "pidfd_open", "clone3", "openat2", "pidfd_getfd", "process_madvise",
        "mount_setattr", "quotactl_fd", "landlock_create_ruleset", "landlock_add_rule",
        "landlock_restrict_self", "process_mrelease", "futex_waitv", "set_mempolicy_home_node",
        "restart_syscall", "splice", "tee", "vmsplice", "symlinkat", "linkat"})

(* truncate, and the calls that came with a 64-bit time. *)
Clocks64 ==
    [truncate |-> {<<Read("path"), Asks("contents")>>},
     clock_gettime64 |-> {<<Clock("ns"), Write("timespec")>>},
     clock_getres_time64 |-> {<<Given(Write("res"))>>},
     clock_nanosleep_time64 |-> {<<Read("req"), SleepUntil>>, <<Read("req"), Sleep,
         Given(Write("rem"))>>},
     pselect6_time64 |-> {<<Given(Read("readfds")), Does("watches"), Given(Write("readfds")),
         Given(Read("writefds")), Given(Write("exceptfds"))>>},
     ppoll_time64 |-> {<<>>, <<Read("fds"), Does("watches"), Write("fds")>>},
     futex_time64 |-> {<<>>, <<Read("uaddr"), Denied("EAGAIN")>>, <<Fails("ENOSYS")>>}] @@
    Unimplemented({"clock_settime64", "clock_adjtime64", "timer_gettime64", "timer_settime64",
        "timerfd_gettime64", "timerfd_settime64", "utimensat_time64", "io_pgetevents_time64",
        "recvmmsg_time64", "mq_timedsend_time64", "mq_timedreceive_time64", "semtimedop_time64",
        "rt_sigtimedwait_time64", "sched_rr_get_interval_time64"})

(* The working directory, eventfd, epoll, descriptors, names. *)
Events ==
    [getcwd |-> {<<Denied("ERANGE"), Write("buf")>>},
     eventfd2 |-> {<<Denied("EINVAL"), Opens>>},
     epoll_ctl |-> {<<Given(Read("event")), Asks("watches")>>},
     dup3 |-> {<<Denied("EINVAL"), Asks("descriptors")>>},
     dup2 |-> {<<Denied("EBADF")>>, <<Asks("descriptors")>>},
     ioctl |-> {<<Asks("device")>>, <<Denied("EBADF"), Read("argp"), Does("device")>>,
         <<Denied("EBADF"), Write("argp")>>, <<Denied("EBADF"), Read("argp"), Asks("device"),
         Write("argp")>>}] @@
    Each({"eventfd", "epoll_create1", "epoll_create"}, {<<Opens>>}) @@
    Each({"epoll_pwait", "epoll_wait"}, {<<Denied("EBADF"), Does("watches")>>, <<Denied("EBADF"),
        Does("watches"), Write("events")>>}) @@
    Each({"dup", "fcntl", "fcntl64"}, {<<Asks("descriptors")>>}) @@
    Each({"mkdirat", "mkdir", "unlinkat", "unlink", "rmdir"}, {<<Read("path"), Asks("names")>>}) @@
    Each({"renameat", "rename"}, {<<Read("old"), Read("new"), Asks("names")>>}) @@
    Unimplemented({"link"})

(* Mounts, statfs, sizes, access, modes and owners, open, close. *)
Files ==
    [truncate64 |-> {<<Read("path"), Asks("contents")>>},
     fallocate |-> {<<Denied("EBADF"), Asks("contents")>>},
     close |-> {<<Asks("descriptors")>>}] @@
    Each({"statfs", "statfs64"}, {<<Read("path"), Denied("ENOENT"), Write("buf")>>}) @@
    Each({"fstatfs", "fstatfs64"}, {<<Denied("EBADF"), Write("buf")>>}) @@
    Each({"ftruncate", "ftruncate64"}, {<<Denied("EINVAL"), Asks("contents")>>}) @@
    Each({"faccessat", "access", "fchmodat", "chmod", "fchownat", "chown", "lchown"},
        {<<Read("path"), Denied("ENOENT")>>}) @@
    Each({"fchmod", "fchown"}, {<<Denied("EBADF")>>}) @@
    Each({"openat", "open", "creat"}, {<<Read("path"), Asks("descriptors")>>, <<Read("path"),
        Denied("EEXIST"), Does("names"), Asks("descriptors")>>}) @@
    Unimplemented({"symlink", "vhangup"})

(* Pipes, directories, positions, reading and writing. *)
Streams ==
    [lseek |-> {<<Asks("position")>>},
     llseek |-> {<<Asks("position"), Write("result")>>},
     read |-> {<<Asks("position"), Write("buf")>>},
     write |-> {<<Read("buf"), Asks("contents")>>},
     readv |-> {<<Read("iov"), Asks("position")>>, <<Read("iov"), Asks("position"),
         Write("base")>>},
     writev |-> {<<Read("iov"), Given(Read("base")), Asks("contents")>>},
     pread64 |-> {<<Denied("EINVAL"), Denied("EBADF"), Write("buf")>>},
     pwrite64 |-> {<<Denied("EINVAL"), Read("buf"), Asks("contents")>>}] @@
    Each({"pipe2", "pipe"}, {<<Opens, Write("pipefd")>>}) @@
    Each({"getdents64", "getdents"}, {<<Denied("EBADF"), Denied("ENOTDIR"), Does("position")>>,
        <<Denied("EBADF"), Denied("ENOTDIR"), Denied("EINVAL"), Write("dirp"),
        Does("position")>>})

(* select and poll, links and stat, synchronising, exit. *)
Stat ==
    [sync |-> {<<>>}] @@
    Each({"pselect6", "newselect"}, {<<Given(Read("readfds")), Does("watches"),
        Given(Write("readfds")), Given(Read("writefds")), Given(Write("exceptfds"))>>}) @@
    Each({"ppoll", "poll"}, {<<>>, <<Read("fds"), Does("watches"), Write("fds")>>}) @@
    Each({"readlinkat", "readlink"}, {<<Read("path"), Denied("EINVAL"), Write("buf")>>}) @@
    Each({"fstatat64", "stat64", "lstat64", "stat", "lstat"}, {<<Read("path"), Denied("ENOENT"),
        Write("statbuf")>>}) @@
    Each({"fstat64", "fstat"}, {<<Denied("EBADF"), Write("statbuf")>>}) @@
    Each({"fsync", "fdatasync"}, {<<Denied("EBADF")>>}) @@
    Each({"exit", "exit_group"}, {<<Stop>>}) @@
    Unimplemented({"sendfile", "sendfile64", "signalfd4", "signalfd", "chdir", "fchdir",
        "chroot"})

(* Thread ids, futexes, sleeping, clocks, scheduling. *)
Futexes ==
    [set_tid_address |-> {<<Does("clear_child_tid")>>},
     futex |-> {<<>>, <<Read("uaddr"), Denied("EAGAIN")>>, <<Fails("ENOSYS")>>},
     set_robust_list |-> {<<Does("robust_list")>>},
     get_robust_list |-> {<<Given(Write("head")), Given(Write("len"))>>},
     nanosleep |-> {<<Read("req"), Denied("EINVAL"), Sleep, Given(Write("rem"))>>},
     clock_gettime |-> {<<Clock("ns"), Write("timespec")>>},
     clock_getres |-> {<<Given(Write("res"))>>},
     clock_nanosleep |-> {<<Read("req"), SleepUntil>>, <<Read("req"), Sleep,
         Given(Write("rem"))>>},
     sched_getparam |-> {<<Given(Write("param"))>>},
     sched_setaffinity |-> {<<>>, <<Read("mask"), Does("affinity")>>},
     sched_getaffinity |-> {<<Write("mask")>>}] @@
    Each({"sched_getscheduler", "sched_yield"}, {<<>>}) @@
    Each({"sched_get_priority_max", "sched_get_priority_min"}, {<<Denied("EINVAL")>>}) @@
    Unimplemented({"execve"})

(* Signals and priorities. *)
SignalCalls ==
    [kill |-> After(<<Denied("ESRCH")>>, Deliver),
     tkill |-> {<<Denied("ESRCH")>>} \cup Deliver,
     tgkill |-> Deliver,
     sigaltstack |-> {<<Given(Write("old"))>>, <<Given(Write("old")), Read("new"),
         Does("alt_stack")>>}] @@
    Each({"rt_sigaction", "sigaction"}, {<<Given(Write("oldact"))>>, <<Given(Write("oldact")),
        Read("act"), Does("sigactions")>>}) @@
    Each({"rt_sigprocmask", "sigprocmask"}, {<<Given(Write("oldset"))>>, <<Given(Write("oldset")),
        Read("set"), Does("mask")>>}) @@
    Each({"rt_sigpending", "sigpending"}, {<<Write("set")>>}) @@
    Each({"rt_sigreturn", "sigreturn"}, {<<>>, <<Does("frames"), Read("frame"),
        Does("registers")>>}) @@
    Each({"setpriority", "getpriority"}, {<<>>}) @@
    Unimplemented({"rt_sigsuspend", "sigsuspend", "rt_sigtimedwait", "rt_sigqueueinfo",
        "setregid"})

(* Times, groups, limits, prctl, getcpu. *)
LimitsAndIdentity ==
    [times |-> {<<Given(Write("buf")), Clock("1/100 s")>>},
     getgroups |-> {<<>>, <<Denied("EINVAL"), Write("list")>>, <<Denied("EINVAL")>>},
     uname |-> {<<Write("utsname")>>},
     setrlimit |-> {<<Read("rlim")>>},
     getrusage |-> {<<Denied("EINVAL"), Write("usage")>>},
     umask |-> {<<Does("umask")>>},
     prctl |-> {<<Read("arg2"), Does("thread_name")>>, <<Write("arg2")>>, <<Does("dumpable")>>,
         <<>>, <<Given(Read("arg5"))>>, <<Fails("EINVAL")>>},
     getcpu |-> {<<Given(Write("cpu")), Given(Write("node"))>>}] @@
    Each({"getrlimit", "ugetrlimit"}, {<<Denied("EINVAL"), Write("rlim")>>}) @@
    Unimplemented({"setgid", "setreuid", "setuid", "setresuid", "getresuid", "setresgid",
        "getresgid", "setfsuid", "setfsgid"})

(* Time of day, identities, sockets. *)
Sockets ==
    [gettimeofday |-> {<<Clock("us"), Write("timeval")>>},
     sysinfo |-> {<<Clock("s"), Write("info")>>},
     socket |-> {<<Asks("descriptors")>>},
     socketpair |-> {<<Asks("descriptors"), Write("sv")>>},
     connect |-> {<<Given(Read("addr")), Asks("links")>>},
     getsockopt |-> {<<Denied("ENOTSOCK"), Denied("ENOPROTOOPT"), Given(Write("optval")),
         Given(Write("optlen"))>>}] @@
    Each({"getpid", "getppid", "getuid", "geteuid", "getgid", "getegid", "gettid"}, {<<>>}) @@
    Each({"bind", "listen", "setsockopt"}, {<<Denied("ENOTSOCK")>>}) @@
    Each({"getsockname", "getpeername"}, {<<Given(Write("addrlen"))>>}) @@
    Each({"sendto", "send"}, {<<Denied("ENOTSOCK"), Read("buf"), Does("streams")>>}) @@
    Each({"recvfrom", "recv"}, {<<Denied("ENOTSOCK"), Does("streams"), Write("buf")>>})

(* Sockets, brk, mapping and protection, clone. *)
Mappings ==
    [shutdown |-> {<<Denied("ENOTSOCK")>>},
     sendmsg |-> {<<Denied("ENOTSOCK"), Read("msg"), Read("iov")>>, <<Denied("ENOTSOCK"),
         Read("msg"), Read("iov"), Read("base"), Does("streams"), Given(Read("next")),
         Does("streams")>>},
     recvmsg |-> {<<Denied("ENOTSOCK"), Read("msg"), Read("iov"), Does("streams"),
         Given(Write("base"))>>},
     munmap |-> {<<Try("EINVAL"), Risks("mappings")>>},
     mremap |-> {<<Denied("EINVAL"), Try("ENOMEM")>>, <<Denied("EINVAL"), Try("ENOMEM"),
         Risks("mappings")>>, <<Denied("EINVAL"), Fails("ENOMEM")>>, <<Denied("EINVAL"),
         Try("ENOMEM"), Risks("mappings"), Read("old"), Write("base"), Given(Risks("mappings"))>>},
     clone |-> {<<Refuse>>, <<NewThread, Given(Write("ptid")), Given(Write("ctid"))>>},
     mmap2 |-> {<<Refuse>>, <<Risks("mappings")>>, <<Risks("mappings"), Given(Write("base"))>>}] @@
    Each({"brk", "mprotect"}, {<<Risks("mappings")>>}) @@
    Each({"msync", "mlock", "munlock"}, {<<>>})

(* Locking, barriers, renames, limits, statx, and the calls of ARM. *)
Latest ==
    [renameat2 |-> {<<Read("old"), Read("new"), Asks("names")>>},
     getrandom |-> {<<Write("buf")>>},
     prlimit64 |-> {<<Denied("EINVAL"), Given(Write("old_limit"))>>},
     rseq |-> {<<>>, <<Given(Write("rseq"))>>},
     close_range |-> {<<Does("descriptors")>>},
     faccessat2 |-> {<<Read("path"), Denied("ENOENT")>>},
     epoll_pwait2 |-> {<<Denied("EBADF"), Does("watches")>>, <<Denied("EBADF"), Does("watches"),
         Write("events")>>},
     statx |-> {<<Read("path"), Denied("ENOENT"), Write("statxbuf")>>},
     arm_set_tls |-> {<<Does("tls")>>}] @@
    Each({"mlockall", "munlockall", "madvise", "mlock2", "membarrier", "arm_get_tls",
        "arm_cacheflush"}, {<<>>}) @@
    Unimplemented({"arm_breakpoint", "arm_usr26", "arm_usr32"})

Numbered == Numbers0To162 @@ Numbers163To313 @@ Numbers314To450
Handlers ==
    OldProcesses @@ AsyncAndWatches @@ TimersAndIdentities @@ QueuesAndKeys @@ Clocks64 @@ Events @@
    Files @@ Streams @@ Stat @@ Futexes @@ SignalCalls @@ LimitsAndIdentity @@ Sockets @@ Mappings @@ Latest
=============================================================================
