------------------------------ MODULE HostCalls ------------------------------
(***************************************************************************)
(* How the handlers of host calls (system calls, libc functions, JNI       *)
(* functions: Python code that runs while the guest waits in an svc) are   *)
(* described.  A handler is a set of paths, one per way through its        *)
(* branches; a path is the sequence of what the handler does, in order:    *)
(* the checks that may answer an error, the guest memory it reads and      *)
(* writes, what it changes.  Which bytes it reads, writes or answers is    *)
(* left out.                                                               *)
(*                                                                         *)
(* A path ends at the first step that fails.  A check and a service that   *)
(* is asked fail with an errno; an access to guest memory fails with an    *)
(* exception of the host, which ends the run of the guest.  Nothing that   *)
(* was changed before is taken back.                                       *)
(***************************************************************************)
EXTENDS Integers, Sequences, FiniteSets, TLC

Step(do, what) == [do |-> do, what |-> what, given |-> FALSE]

Denied(errno) == Step("denied", errno)   \* a check that may answer errno
Fails(errno)  == Step("fails", errno)    \* this path answers errno
Refuse        == Step("refuse", "")      \* raises UnimplementedSyscall
Read(at)      == Step("read", at)        \* reads guest memory at a pointer
Write(at)     == Step("write", at)       \* writes guest memory at a pointer
Asks(part)    == Step("asks", part)      \* changes part, or answers an errno
Does(part)    == Step("does", part)      \* changes part
Risks(part)   == Step("risks", part)     \* changes part, may raise half way
Demands(what) == Step("demands", what)   \* a check that may raise
Crash(why)    == Step("crash", why)      \* raises an exception of the host
Try(errno)    == Step("try", errno)      \* exceptions from here on answer errno
Stop          == Step("stop", "")        \* emu_stop
Opens         == Does("descriptors")
Clock(unit)   == Step("clock", unit)     \* the virtual clock, read in whole units
Sleep         == Step("sleep", "")       \* the clock moves by a duration
SleepUntil    == Step("until", "")       \* the clock moves to a point in time
NewThread     == Step("thread", "")      \* a thread id is taken

(* A step that not every call takes: its pointer may be null.                *)
Given(s) == [s EXCEPT !.given = TRUE]

(* The paths of a handler that goes on as another one after some steps.      *)
After(steps, paths) == {steps \o p : p \in paths}

(* Handlers that do the same, and handlers that only raise.                  *)
Each(names, paths) == [n \in names |-> paths]
Unimplemented(names) == Each(names, {<<Refuse>>})

(* The handlers of consecutive numbers.                                      *)
From(first, names) == [n \in first .. first + Len(names) - 1 |-> names[n - first + 1]]

-----------------------------------------------------------------------------
(* How a path may go: the step that fails (0: none), the steps that are      *)
(* skipped for a null pointer.                                               *)
MayFail  == {"denied", "asks", "read", "write", "risks", "demands", "refuse", "fails", "crash"}
MustFail == {"refuse", "fails", "crash"}

Ends(path) ==
    {k \in DOMAIN path : /\ path[k].do \in MayFail
                         /\ \A i \in 1 .. k - 1 : path[i].do \notin MustFail}
    \cup {k \in {0} : \A i \in DOMAIN path : path[i].do \notin MustFail}

Skips(path, k) == SUBSET {i \in DOMAIN path : path[i].given /\ i # k}

(* The steps that were taken completely.                                     *)
Taken(path, k, skip) ==
    {i \in DOMAIN path \ skip : k = 0 \/ i < k}

(* What the call has changed.                                                *)
Changed(path, k, skip) ==
    {path[i].what : i \in {j \in Taken(path, k, skip) : path[j].do \in {"asks", "does", "risks"}}}
    \cup {path[i].what : i \in {j \in {k} \cap DOMAIN path : path[j].do = "risks"}}

(* How the call ends.                                                        *)
Caught(path, k) == \E i \in 1 .. k - 1 : path[i].do = "try"

Status(path, k, skip) ==
    IF k = 0
    THEN IF \E i \in Taken(path, k, skip) : path[i].do = "stop" THEN "stopped" ELSE "answered"
    ELSE IF path[k].do = "refuse" THEN "refused"
    ELSE IF path[k].do \in {"denied", "asks", "fails"} \/ Caught(path, k) THEN "errno"
    ELSE "raised"
=============================================================================
