------------------------------- MODULE JniRefs -------------------------------
(***************************************************************************)
(* The references of the DalvikVM and the native calls that make and       *)
(* release them.  An object has one handle while any table holds it,       *)
(* shared by its local, global and weak references; handles are never      *)
(* used twice.  Objects are Python objects known by id(): an object the    *)
(* tables have let go of may come back, or another one may get its id.     *)
(*                                                                         *)
(* A run is a call of the host: a native method, with a mark of the local  *)
(* references that is released when it ends, or a plain function such as   *)
(* JNI_OnLoad, without one.  In a run the guest calls JNI functions; a     *)
(* method that is native itself is dispatched inside the same run.         *)
(* Whatever raises ends the run and leaves `frames`, `calls` and `pending` *)
(* as they were.                                                           *)
(***************************************************************************)
EXTENDS Integers, Sequences, SequencesExt, Functions

CONSTANTS
    Obj, NoObj,  \* objects, and None
    MaxRef,      \* bound: the largest handle
    MaxCount,    \* bound: global references to one object
    MaxCalls,    \* bound: native calls on the stack, abandoned ones included
    MaxFrames    \* bound: local frames, abandoned ones included

ASSUME JniRefsAssumption ==
    /\ NoObj \notin Obj
    /\ MaxRef \in Nat /\ MaxCount \in Nat /\ MaxCalls \in Nat /\ MaxFrames \in Nat

VARIABLES
    vm,          \* the tables of the DalvikVM
    frames,      \* _local_frames: the mark each PushLocalFrame took
    calls,       \* _native_calls: the dispatched calls
    pending,     \* _pending_exception
    host,        \* the run: its kind, mark, and what was on the stacks before
    owed,        \* history: global references the guest has not given back
    outside,     \* history: local references made outside native methods
    answer       \* history: what the last step promised to the guest

vars == <<vm, frames, calls, pending, host, owed, outside, answer>>

Ref == 1 .. MaxRef

NoVm == [objects |-> <<>>, handles |-> <<>>, local |-> {}, globals |-> <<>>, weak |-> {}, next |-> 1]
NoRun == [running |-> FALSE, returned |-> FALSE, native |-> FALSE, mark |-> {}, calls |-> 0, frames |-> 0]
Answer(r, o) == [ref |-> r, obj |-> o, kept |-> {}]
NoAnswer == Answer(0, NoObj)

Init ==
    /\ vm = NoVm
    /\ frames = <<>> /\ calls = <<>> /\ pending = NoObj /\ host = NoRun
    /\ owed = [r \in Ref |-> 0] /\ outside = {} /\ answer = NoAnswer

(***************************************************************************)
(* The tables.                                                             *)
(***************************************************************************)
Put(f, x, y) == [z \in DOMAIN f \cup {x} |-> IF z = x THEN y ELSE f[z]]

Without(f, S) == Restrict(f, DOMAIN f \ S)

(* get: None for a reference that means nothing.                             *)
Object(t, r) == IF r \in DOMAIN t.objects THEN t.objects[r] ELSE NoObj

HandleFor(t, o) ==
    IF o \in DOMAIN t.handles THEN t
    ELSE [t EXCEPT !.handles = Put(@, o, t.next), !.objects = Put(@, t.next, o), !.next = @ + 1]

AddLocal(t, o) ==
    LET u == HandleFor(t, o) IN [u EXCEPT !.local = @ \cup {u.handles[o]}]

(* add_local where there may be no object: 0 is the null reference.          *)
AddIfAny(t, o) == IF o = NoObj THEN t ELSE AddLocal(t, o)
Handle(t, o) == IF o = NoObj THEN 0 ELSE t.handles[o]

AddGlobal(t, o) ==
    LET u == HandleFor(t, o)
        r == u.handles[o]
    IN  [u EXCEPT !.globals = Put(@, r, IF r \in DOMAIN @ THEN @[r] + 1 ELSE 1)]

AddWeak(t, o) ==
    LET u == HandleFor(t, o) IN [u EXCEPT !.weak = @ \cup {u.handles[o]}]

(* _forget, for each of the references R: an object no table holds loses its *)
(* handle.  Fault: weak references do not hold it.                           *)
ForgetUnlessStrong(t, R) ==
    LET gone == (R \ (t.local \cup DOMAIN t.globals)) \cap DOMAIN t.objects
    IN  [t EXCEPT !.objects = Without(@, gone), !.handles = Without(@, {t.objects[r] : r \in gone})]

Forget(t, R) ==
    LET gone == (R \ (t.local \cup DOMAIN t.globals \cup t.weak)) \cap DOMAIN t.objects
    IN  [t EXCEPT !.objects = Without(@, gone), !.handles = Without(@, {t.objects[r] : r \in gone})]

DropLocals(t, R) == Forget([t EXCEPT !.local = @ \ R], R)

DropWeak(t, r) == Forget([t EXCEPT !.weak = @ \ {r}], {r})

(* Fault: the first delete_global takes the object away.                     *)
DropGlobalAtOnce(t, r) == Forget([t EXCEPT !.globals = Without(@, {r})], {r})

DropGlobal(t, r) ==
    IF r \in DOMAIN t.globals /\ t.globals[r] > 1
    THEN [t EXCEPT !.globals[r] = @ - 1]
    ELSE Forget([t EXCEPT !.globals = Without(@, {r})], {r})

(* local_release.                                                            *)
Release(t, mark) == DropLocals(t, t.local \ mark)

(* There is a handle left for the object.                                    *)
Room(t, o) == o \in DOMAIN t.handles \cup {NoObj} \/ t.next <= MaxRef

(***************************************************************************)
(* The host.                                                               *)
(***************************************************************************)
(* call_static_native and call_instance_native: the receiver is added before *)
(* the mark, the arguments after it.  One object argument stands for any     *)
(* number; NoObj for a call without one.                                     *)
CallNative(receiver, arg) ==
    /\ ~host.running
    /\ LET called == AddLocal(vm, receiver)
       IN  /\ Room(vm, receiver) /\ Room(called, arg)
           /\ vm' = AddIfAny(called, arg)
           /\ host' = [running |-> TRUE, returned |-> FALSE, native |-> TRUE, mark |-> called.local,
                       calls |-> Len(calls), frames |-> Len(frames)]
           /\ outside' = called.local
    /\ answer' = NoAnswer
    /\ UNCHANGED <<frames, calls, pending, owed>>

(* The same with a wrong number of arguments, or from a callback while a run *)
(* is going on: refused after the receiver was added.  (An argument that     *)
(* cannot be passed, such as None, is refused after the mark, and released.) *)
CallRefused(receiver) ==
    /\ Room(vm, receiver)
    /\ vm' = AddLocal(vm, receiver)
    /\ outside' = IF host.running THEN outside ELSE vm'.local
    /\ answer' = NoAnswer
    /\ UNCHANGED <<frames, calls, pending, host, owed>>

(* emulator.call: JNI_OnLoad, constructors.                                  *)
CallPlain ==
    /\ ~host.running
    /\ host' = [NoRun EXCEPT !.running = TRUE, !.calls = Len(calls), !.frames = Len(frames)]
    /\ answer' = NoAnswer
    /\ UNCHANGED <<vm, frames, calls, pending, owed, outside>>

(* The finally clause.  Fault: nothing is released.                          *)
EndRunKeeping(t) == t
EndRun(t) == IF host.native THEN Release(t, host.mark) ELSE t

Stopped(t, returned) ==
    /\ vm' = t
    /\ host' = [host EXCEPT !.running = FALSE, !.returned = returned]
    /\ outside' = IF host.native THEN outside ELSE t.local
    /\ answer' = NoAnswer
    /\ UNCHANGED <<frames, calls, owed>>

ReturnToHost ==
    /\ host.running /\ Len(calls) = host.calls
    /\ Stopped(EndRun(vm), TRUE)
    /\ pending' = IF host.native THEN NoObj ELSE pending

(* Any exception: a guest fault, FatalError, a raising callback.             *)
Crash ==
    /\ host.running
    /\ Stopped(EndRun(vm), FALSE)
    /\ UNCHANGED pending

(***************************************************************************)
(* The guest: JNI functions.                                               *)
(***************************************************************************)
Function(t) == host.running /\ vm' = t /\ UNCHANGED <<frames, calls, host, outside>>

(* FindClass, New*, Get*Field, Call*Method, NewLocalRef, ...: those that     *)
(* answer a local reference to some object.                                  *)
Obtain(o) ==
    /\ Room(vm, o) /\ Function(AddLocal(vm, o))
    /\ answer' = Answer(vm'.handles[o], o)
    /\ UNCHANGED <<pending, owed>>

(* A caller that deletes a reference itself has no claim to it.              *)
DeleteLocalRef(r) ==
    /\ host.running
    /\ vm' = DropLocals(vm, {r})
    /\ calls' = [k \in DOMAIN calls |-> [calls[k] EXCEPT !.kept = @ \ {r}]]
    /\ answer' = NoAnswer
    /\ UNCHANGED <<frames, host, outside, pending, owed>>

NewGlobalRef(r) ==
    LET o == Object(vm, r)
    IN  /\ o # NoObj /\ owed[r] < MaxCount
        /\ Function(AddGlobal(vm, o))
        /\ owed' = [owed EXCEPT ![r] = @ + 1]
        /\ answer' = Answer(vm'.handles[o], o)
        /\ UNCHANGED pending

DeleteGlobalRef(r) ==
    /\ Function(DropGlobal(vm, r))
    /\ owed' = [owed EXCEPT ![r] = IF @ > 0 THEN @ - 1 ELSE 0]
    /\ answer' = NoAnswer
    /\ UNCHANGED pending

NewWeakGlobalRef(r) ==
    /\ Object(vm, r) # NoObj
    /\ Function(AddWeak(vm, Object(vm, r)))
    /\ answer' = Answer(r, Object(vm, r))
    /\ UNCHANGED <<pending, owed>>

DeleteWeakGlobalRef(r) ==
    /\ Function(DropWeak(vm, r))
    /\ answer' = NoAnswer
    /\ UNCHANGED <<pending, owed>>

(* Throw, ThrowNew, ExceptionClear, and functions that fail: Throw of a      *)
(* reference that means nothing clears.                                      *)
Throw(o) ==
    /\ Function(vm)
    /\ pending' = o /\ answer' = NoAnswer
    /\ UNCHANGED owed

ExceptionOccurred == pending # NoObj /\ Obtain(pending)

PushLocalFrame ==
    /\ host.running /\ Len(frames) < MaxFrames
    /\ frames' = Append(frames, vm.local)
    /\ answer' = NoAnswer
    /\ UNCHANGED <<vm, calls, host, outside, pending, owed>>

(* What the function that runs found on the stack of frames: it pops those   *)
(* above.  It need not: a return leaves them, and the caller pops them.      *)
FramesBefore == IF Len(calls) > host.calls THEN Last(calls).frames ELSE host.frames

PopLocalFrame(r) ==
    /\ host.running /\ Len(frames) > FramesBefore
    /\ LET o == Object(vm, r)
           left == Release(vm, Last(frames))
       IN  /\ Room(left, o)
           /\ vm' = AddIfAny(left, o)
           /\ answer' = Answer(Handle(vm', o), o)
    /\ frames' = Front(frames)
    /\ UNCHANGED <<calls, host, outside, pending, owed>>

(***************************************************************************)
(* _dispatch_native and _native_return.  `class` is the class of a static  *)
(* method, added after the mark; an instance is passed as it is.           *)
(***************************************************************************)
Dispatch(class, arg) ==
    /\ host.running /\ Len(calls) < MaxCalls
    /\ LET called == AddIfAny(vm, class)
       IN  /\ Room(vm, class) /\ Room(called, arg)
           /\ vm' = AddIfAny(called, arg)
    /\ calls' = Append(calls, [mark |-> vm.local, frames |-> Len(frames), kept |-> vm.local])
    /\ answer' = NoAnswer
    /\ UNCHANGED <<frames, host, outside, pending, owed>>

(* A null argument raises in the middle, after the receiver was added.       *)
DispatchFails(class) ==
    /\ host.running /\ Room(vm, class)
    /\ Stopped(EndRun(AddIfAny(vm, class)), FALSE)
    /\ UNCHANGED pending

(* A result that is an object is resolved before the release and added after *)
(* it; r is 0 for any other result (the type is known since the dispatch).   *)
(* Fault: it is resolved after.                                              *)
ResolvedLate(t, mark, r) == Object(Release(t, mark), r)
Resolved(t, mark, r) == Object(t, r)

(* Fault: the oldest call is taken.                                          *)
OldestCall == Head(calls)
Returning == Last(calls)

NativeReturn(r) ==
    /\ host.running /\ Len(calls) > host.calls
    /\ LET o == Resolved(vm, Returning.mark, r)
           left == Release(vm, Returning.mark)
       IN  /\ Room(left, o)
           /\ vm' = AddIfAny(left, o)
           /\ answer' = [Answer(Handle(vm', o), Object(vm, r)) EXCEPT !.kept = Last(calls).kept]
    /\ calls' = Front(calls)
    /\ UNCHANGED <<frames, host, outside, pending, owed>>

Next ==
    \/ \E o \in Obj, arg \in Obj \cup {NoObj} : CallNative(o, arg)
    \/ CallPlain \/ ReturnToHost \/ Crash \/ ExceptionOccurred \/ PushLocalFrame
    \/ \E o \in Obj : CallRefused(o) \/ Obtain(o)
    \/ \E o \in Obj \cup {NoObj} : Throw(o) \/ DispatchFails(o)
    \/ \E class, arg \in Obj \cup {NoObj} : Dispatch(class, arg)
    \/ \E r \in Ref :
          \/ DeleteLocalRef(r) \/ NewGlobalRef(r) \/ DeleteGlobalRef(r)
          \/ NewWeakGlobalRef(r) \/ DeleteWeakGlobalRef(r)
    \/ \E r \in Ref \cup {0} : PopLocalFrame(r) \/ NativeReturn(r)

Spec == Init /\ [][Next]_vars

-----------------------------------------------------------------------------
Held == vm.local \cup DOMAIN vm.globals \cup vm.weak

(* A reference means an object exactly while a table holds it, and the       *)
(* object knows its one handle: nothing is forgotten early by one of the     *)
(* three tables, and no stale id() leads a new object to an old handle.      *)
KnownIffHeld ==
    /\ DOMAIN vm.objects = Held
    /\ \A r \in DOMAIN vm.objects :
          vm.objects[r] \in DOMAIN vm.handles /\ vm.handles[vm.objects[r]] = r
    /\ \A o \in DOMAIN vm.handles :
          vm.handles[o] \in DOMAIN vm.objects /\ vm.objects[vm.handles[o]] = o

(* A global reference stays valid until it was deleted as often as it was    *)
(* made, whatever becomes of the local and weak ones of the same handle.     *)
GlobalsHeld == \A r \in Ref : owed[r] > 0 => r \in DOMAIN vm.objects /\ r \in DOMAIN vm.globals

(* While dispatched calls run, return, leave frames behind and crash, their  *)
(* callers lose no local reference they have not deleted: not meanwhile, and *)
(* not when the call returns.                                                *)
CallersKeepLocals ==
    host.running =>
        /\ \A k \in (host.calls + 1) .. Len(calls) : calls[k].kept \subseteq vm.local
        /\ answer.kept \subseteq vm.local

(* Once a native method has ended, returned or crashed, what was local       *)
(* inside it is gone; when it returned, so is its exception.                 *)
NothingLeftBehind ==
    ~host.running =>
        /\ vm.local \subseteq outside
        /\ host.native /\ host.returned => pending = NoObj

(* A reference the guest was just given means the object it was given for;   *)
(* a result survives the release of the call or frame it was made in.        *)
AnswersAreValid == answer.obj # NoObj => answer.ref \in Held /\ Object(vm, answer.ref) = answer.obj
=============================================================================
