----------------------------- MODULE GuestCalls -----------------------------
(***************************************************************************)
(* A guest that calls the host, over and over: the system calls of         *)
(* Syscalls64 or Syscalls32, the libc functions of LibcHooks64 or          *)
(* LibcHooks32 and the JNI functions of JniCalls; the virtual clock they   *)
(* read and move, the thread ids they give out, and what a call that fails *)
(* half way leaves behind.  A handler runs at once; the trap then hands    *)
(* its answer to the guest or lets its exception end the run.              *)
(***************************************************************************)
EXTENDS HostCalls, Functions, FiniteSetsExt

CONSTANTS
    TidSpace,    \* how many thread ids there are (0x10000 in the code)
    TICK,        \* _TICK_NS: how far a reading moves the clock
    Unit,        \* how long the units are in which the clock is read
    Times,       \* bound: points of time
    Durations,   \* bound: durations a guest may sleep, negative ones too
    MaxClones    \* bound: threads that are created

ASSUME GuestCallsAssumption ==
    /\ TidSpace \in Nat \ {0} /\ MaxClones \in Nat
    /\ Times \subseteq Nat /\ Durations \subseteq Int
    /\ TICK \in Nat \ {0}
    /\ \A u \in DOMAIN Unit : Unit[u] \in Nat \ {0}

S64 == INSTANCE Syscalls64
S32 == INSTANCE Syscalls32
L64 == INSTANCE LibcHooks64
L32 == INSTANCE LibcHooks32
Jni == INSTANCE JniCalls

(* What either emulator answers: the system calls it has a number for, the   *)
(* libc functions it replaces, the functions of the two JNI tables.          *)
Handlers ==
    [w \in {32, 64} |->
        IF w = 64 THEN S64!Handlers @@ L64!Functions @@ Jni!Functions
                  ELSE S32!Handlers @@ L32!Functions @@ Jni!Functions]

Callable ==
    [w \in {32, 64} |->
        Range(Jni!Table) \cup Range(Jni!JavaVMTable) \cup
        IF w = 64 THEN Range(S64!Numbered) \cup L64!Overriding \cup L64!Fallback
                  ELSE Range(S32!Numbered) \cup L32!Overriding \cup L32!Fallback]

(* Every entry of a table has a handler, and every handler is in a table but *)
(* one, which the 32-bit emulator uses under its newer name only.            *)
ASSUME TablesComplete ==
    /\ Callable[64] = DOMAIN Handlers[64]
    /\ Callable[32] = DOMAIN Handlers[32] \ {"getrlimit"}

(* The two emulators treat the calls that both have alike: the same checks,  *)
(* accesses and changes in the same order.                                   *)
ASSUME WidthsAgree ==
    \A name \in Callable[32] \cap Callable[64] : Handlers[32][name] = Handlers[64][name]

(* Every reading is in one of the units.                                     *)
ASSUME UnitsKnown ==
    \A w \in {32, 64} : \A name \in DOMAIN Handlers[w] : \A path \in Handlers[w][name] :
        \A i \in DOMAIN path : path[i].do = "clock" => path[i].what \in DOMAIN Unit

MainTid == 0     \* the thread the process starts with

VARIABLES
    width,       \* 32 or 64: which emulator this is
    strict,      \* whether it raises for calls it does not implement
    running,     \* whether the guest is in a run
    call,        \* what the handler of the present call did, or NoCall
    now,         \* the virtual clock
    nextTid,     \* _next_tid
    due,         \* history: the guest has been told that it is this late
    begun,       \* history: threads created so far
    told         \* history: the thread ids that the guest was told

vars == <<width, strict, running, call, now, nextTid, due, begun, told>>

NoCall == [name |-> "none"]

Init ==
    /\ width \in {32, 64} /\ strict \in BOOLEAN
    /\ running = FALSE /\ call = NoCall
    /\ now = 0 /\ due = 0
    /\ nextTid = MainTid + 1 /\ begun = 0 /\ told = {[tid |-> MainTid, at |-> 0]}

Run ==
    /\ ~running /\ running' = TRUE
    /\ UNCHANGED <<width, strict, call, now, nextTid, due, begun, told>>

(***************************************************************************)
(* The clock: a reading moves it by one tick and tells how many whole      *)
(* units have passed, a sleep moves it by its duration if that is positive,*)
(* a sleep until a time by what is missing.                                *)
(***************************************************************************)
AdvancedByAny(d) == now + d   \* fault: a negative duration sets the clock back

Advanced(d) == now + Max({d, 0})

Shown(t, u) == (t \div Unit[u]) * Unit[u]

(* The units in which the clock is read on the way: none or one.             *)
Readings(path, k, skip) ==
    {path[i].what : i \in {j \in Taken(path, k, skip) : path[j].do = "clock"}}

Steps(path, k, skip) == {path[i].do : i \in Taken(path, k, skip)}

(* The times it may be after the steps, and how late the guest may then take *)
(* it to be: as late as it is told, and after a sleep as late as it knew it  *)
(* to be, and the duration.                                                  *)
Passed(readings, steps) ==
    IF readings # {}
    THEN {[now |-> now + TICK, promised |-> Shown(now + TICK, u)] : u \in readings}
    ELSE IF "sleep" \in steps THEN {[now |-> Advanced(d), promised |-> due + d] : d \in Durations}
    ELSE IF "until" \in steps THEN {[now |-> Advanced(t - now), promised |-> t] : t \in Times}
    ELSE {[now |-> now, promised |-> 0]}

(***************************************************************************)
(* clone: the id is taken before it is written to the guest's pointers, a  *)
(* fault in between loses it.  Only the low bits of the counter are used.  *)
(***************************************************************************)
Tid == nextTid % TidSpace

(* The guest learns the id from the answer, or from a pointer.               *)
Tells(path, k, skip) ==
    k = 0 \/ \E i \in Taken(path, k, skip) : path[i].do = "write"

NextTidIfAnswered(steps, ended) ==   \* fault: only when the call answers
    IF "thread" \in steps /\ ended = "answered" THEN nextTid + 1 ELSE nextTid

NextTid(steps, ended) == IF "thread" \in steps THEN nextTid + 1 ELSE nextTid

(***************************************************************************)
(* dispatch, and the trap that called it.                                  *)
(***************************************************************************)
Goes(name, path, k, skip, time) ==
    LET steps == Steps(path, k, skip)
        ended == Status(path, k, skip)
    IN  /\ time.now \in Times
        /\ "thread" \in steps => begun < MaxClones
        /\ call' = [name |-> name, ended |-> ended, changed |-> Changed(path, k, skip),
                    readings |-> Readings(path, k, skip), promised |-> time.promised]
        /\ now' = time.now
        /\ nextTid' = NextTid(steps, ended)
        /\ begun' = IF "thread" \in steps THEN begun + 1 ELSE begun
        /\ told' = IF "thread" \in steps /\ Tells(path, k, skip)
                   THEN told \cup {[tid |-> Tid, at |-> begun']} ELSE told

Handle(name) ==
    \E path \in Handlers[width][name] : \E k \in Ends(path) : \E skip \in Skips(path, k) :
        \E time \in Passed(Readings(path, k, skip), Steps(path, k, skip)) :
            Goes(name, path, k, skip, time)

Call(name) ==
    /\ running /\ call = NoCall
    /\ Handle(name)
    /\ UNCHANGED <<width, strict, running, due>>

(* A number that is not in the table is like a call that is refused.         *)
UnknownNumber ==
    /\ running /\ call = NoCall
    /\ call' = [name |-> "unknown", ended |-> "refused", changed |-> {}, readings |-> {}, promised |-> 0]
    /\ UNCHANGED <<width, strict, running, now, nextTid, due, begun, told>>

(* The exception of a refused call leaves a strict handler; otherwise it is  *)
(* -ENOSYS.                                                                  *)
EndsRun == call.ended \in {"raised", "stopped"} \/ (call.ended = "refused" /\ strict)

Return ==
    /\ call # NoCall
    /\ call' = NoCall
    /\ running' = ~EndsRun
    /\ due' = IF call.ended = "answered" THEN Max({due, call.promised}) ELSE due
    /\ UNCHANGED <<width, strict, now, nextTid, begun, told>>

Next ==
    \/ Run
    \/ \E name \in Callable[width] : Call(name)
    \/ UnknownNumber
    \/ Return

Spec == Init /\ [][Next]_vars

-----------------------------------------------------------------------------
(* A call that fails, is refused or ends in an exception changes nothing but *)
(* the clock and the counter of thread ids, but for the calls named here,    *)
(* which may leave what they are listed for:                                 *)
(* an answer that cannot be written is lost with the data it held; of        *)
(* descriptors, blocks of the heap and threads nobody learns; mappings and   *)
(* modules stay half done; what Java code did before it raised stays done.   *)
Waits == {"epoll_pwait", "epoll_pwait2", "epoll_wait", "pselect6", "newselect", "ppoll", "poll",
          "pselect6_time64", "ppoll_time64"}
MethodCalls == {"CallMethod", "CallMethodV", "CallMethodA"}
Copies == {"GetArrayElements", "GetPrimitiveArrayCritical", "GetStringChars", "GetStringUTFChars",
           "GetStringCritical"}
Releases == {"ReleaseArrayElements", "ReleasePrimitiveArrayCritical", "ReleaseStringChars",
             "ReleaseStringUTFChars", "ReleaseStringCritical"}

MayStay ==
    [descriptors |-> {"pipe2", "pipe", "socketpair"},
     position |-> {"read", "readv", "llseek"},
     streams |-> {"recvfrom", "recv", "recvmsg", "sendmsg"},
     mappings |-> {"munmap", "mremap", "mmap", "mmap2", "mprotect", "brk", "dl_iterate_phdr"},
     names |-> {"openat", "open", "creat"},
     watches |-> Waits,
     frames |-> {"rt_sigreturn", "sigreturn"},
     device |-> {"ioctl"},
     heap |-> {"calloc", "realloc", "posix_memalign"} \cup Copies,
     buffers |-> Copies \cup Releases,
     modules |-> {"dlopen", "android_dlopen_ext"},
     dl_error |-> {"dlopen", "android_dlopen_ext", "dlsym"},
     strings |-> {"dladdr", "dlerror", "getenv", "dl_iterate_phdr", "__system_property_read_callback"},
     iterations |-> {"dl_iterate_phdr"},
     properties |-> {"__system_property_find", "__system_property_foreach"},
     registers |-> {"__system_property_read_callback"},
     java |-> MethodCalls \cup {"NewObject", "NewObjectV", "NewObjectA", "GetField", "SetField",
                                "ReleaseArrayElements", "ReleasePrimitiveArrayCritical"},
     references |-> MethodCalls,
     art_methods |-> {"GetField"},
     natives |-> {"RegisterNatives"}]

FailuresLeaveNothing ==
    call # NoCall /\ call.ended \notin {"answered", "stopped"} =>
        \A part \in call.changed : part \in DOMAIN MayStay /\ call.name \in MayStay[part]

(* What the guest is told of the time is consistent.  A reading in units     *)
(* that are no longer than a tick is later than what it was told before, than *)
(* every time slept until, and than what it was told before a sleep by at    *)
(* least the duration of the sleep.  One in longer units (times, sysinfo) may *)
(* well be earlier than these, but by less than a unit: it is never earlier  *)
(* than these cut to the same unit.                                          *)
TimeAsTold ==
    call # NoCall =>
        \A u \in call.readings :
            /\ Shown(now, u) >= Shown(due, u)
            /\ Unit[u] <= TICK => Shown(now, u) > due

(* A thread id that the guest has been told, by an answer or through a       *)
(* pointer of a call that then faulted, is told again only when the 16 bits  *)
(* it is cut to have come round.                                             *)
ThreadsDistinct ==
    \A x, y \in told : x.tid = y.tid /\ x.at < y.at => y.at - x.at >= TidSpace
=============================================================================
