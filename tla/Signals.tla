------------------------------- MODULE Signals -------------------------------
(***************************************************************************)
(* Signals the guest sends to itself (kill, tkill, tgkill), in a run that  *)
(* the host started with call().  A handler is entered inside the syscall: *)
(* the registers are saved below the stack pointer of the interrupted code *)
(* and the address of the save is pushed on _signal_frames.  It returns by *)
(* the sigreturn trampoline or by the syscall; either pops a frame.        *)
(* Handlers nest; a crash, an exit or a longjmp leaves their frames behind, *)
(* also for the next run.                                                  *)
(*                                                                         *)
(* Stack addresses are in units of a frame, and the stack grows down.  The *)
(* mask is kept by the code but never consulted, and left out here.  The   *)
(* guest is assumed to return from a handler only when it is in one, and   *)
(* to leave by longjmp all handlers or none.                               *)
(***************************************************************************)
EXTENDS Integers, Sequences, SequencesExt

CONSTANTS
    Sig, Fatal,      \* signals, and those that stop the run unless handled
    Point, Entry,    \* program points, and the first one of handlers
    Zero,            \* what registers hold that is no signal: 0
    STACK,           \* frames the stack has room for
    MaxFrames        \* bound: frames on the list, abandoned ones included

ASSUME SignalsAssumption ==
    /\ Fatal \subseteq Sig /\ Zero \notin Sig
    /\ Entry \in Point
    /\ STACK \in Nat /\ MaxFrames \in Nat

VARIABLES
    handled,         \* _sigactions: the signals with a handler
    slot,            \* _sigreturn_slot was allocated
    frames,          \* _signal_frames
    memory,          \* the frames on the stack
    cpu,             \* the registers
    running,         \* a run is on
    interrupted,     \* history: what the handlers of this run interrupted
    resumed,         \* history: the registers the last step was to bring back
    entered          \* history: the signal whose handler it entered

vars == <<handled, slot, frames, memory, cpu, running, interrupted, resumed, entered>>
guest == <<handled, slot, frames, memory>>

Address == 0 .. STACK - 1

(* r0 stands for the register of the first argument and of the answer.       *)
Context == [pc : Point, sp : 0 .. STACK, r0 : Sig \cup {Zero}]
Registers(pc, sp, r0) == [pc |-> pc, sp |-> sp, r0 |-> r0]
Started == Registers(Entry, STACK, Zero)

None == <<>>

Init ==
    /\ handled = {} /\ slot = FALSE
    /\ frames = <<>> /\ memory = [a \in Address |-> Started]
    /\ cpu = Started /\ running = FALSE
    /\ interrupted = <<>> /\ resumed = None /\ entered = Zero

Quiet == resumed' = None /\ entered' = Zero

(* dispatch answers 0 for handlers that return None, too.                    *)
Answered(regs) == [regs EXCEPT !.r0 = Zero]

(* Where the registers are saved.  Fault: on an alternate stack, from its    *)
(* top each time.                                                            *)
AlternateTop(sp) == STACK - 1
Top(sp) == sp - 1

-----------------------------------------------------------------------------
Call ==
    /\ ~running
    /\ running' = TRUE /\ cpu' = Started
    /\ UNCHANGED <<guest, interrupted>> /\ Quiet

(* The function returns, or a crash, exit or exit_group ends the run.        *)
End ==
    /\ running
    /\ running' = FALSE /\ interrupted' = <<>> /\ cpu' = Started
    /\ UNCHANGED guest /\ Quiet

(* Code runs on; what it pushes stays below what it was entered with.        *)
Base == IF interrupted = <<>> THEN STACK ELSE Top(Last(interrupted).sp)

Work ==
    /\ running
    /\ \E pc \in Point, sp \in 0 .. Base, r0 \in Sig \cup {Zero} : cpu' = Registers(pc, sp, r0)
    /\ UNCHANGED <<guest, running, interrupted>> /\ Quiet

(* longjmp out of all handlers.                                              *)
LongJump ==
    /\ running /\ interrupted # <<>>
    /\ \E pc \in Point, sp \in 0 .. STACK : cpu' = Registers(pc, sp, Zero)
    /\ interrupted' = <<>>
    /\ UNCHANGED <<guest, running>> /\ Quiet

RtSigaction(sig) ==
    /\ running
    /\ handled' \in {handled \cup {sig}, handled \ {sig}}
    /\ cpu' = Answered(cpu)
    /\ UNCHANGED <<slot, frames, memory, running, interrupted>> /\ Quiet

-----------------------------------------------------------------------------
(* _enter_signal_handler, with the answer 0 to kill among what is saved.     *)
EnterHandler(sig) ==
    LET saved == Registers(cpu.pc, cpu.sp, Zero)
        top == Top(cpu.sp)
    IN  /\ top \in Address
        /\ slot' = TRUE
        /\ memory' = [memory EXCEPT ![top] = saved]
        /\ frames' = Append(frames, top)
        /\ cpu' = Answered(Registers(Entry, top, sig))
        /\ interrupted' = Append(interrupted, saved)
        /\ resumed' = None /\ entered' = sig
        /\ UNCHANGED <<handled, running>>

(* The trampoline page is full, or the stack ends before the frame does: the *)
(* exception ends the run.                                                   *)
EnterFails ==
    /\ \/ ~slot /\ UNCHANGED slot
       \/ Top(cpu.sp) \notin Address /\ slot' = TRUE
    /\ running' = FALSE /\ interrupted' = <<>> /\ cpu' = Started
    /\ UNCHANGED <<handled, frames, memory>> /\ Quiet

Handled(sig) ==
    /\ running /\ sig \in handled /\ Len(frames) < MaxFrames
    /\ EnterHandler(sig) \/ EnterFails

NotHandled(sig) ==
    /\ running /\ sig \notin handled
    /\ IF sig \in Fatal
       THEN running' = FALSE /\ interrupted' = <<>> /\ cpu' = Started
       ELSE cpu' = Answered(cpu) /\ UNCHANGED <<running, interrupted>>
    /\ UNCHANGED guest /\ Quiet

(* Fault: the oldest frame goes.                                             *)
OldestFrame == Head(frames)
Frame == Last(frames)

Return ==
    /\ running /\ interrupted # <<>>
    /\ frames' = Front(frames)
    /\ interrupted' = Front(interrupted)
    /\ resumed' = Last(interrupted) /\ entered' = Zero
    /\ UNCHANGED <<handled, slot, memory, running>>

(* By the trampoline the handler was given to return to.                     *)
SigreturnSlot == Return /\ cpu' = memory[Frame]

(* By the restorer, with a syscall.                                          *)
RtSigreturn == Return /\ cpu' = Answered(memory[Frame])

Next ==
    \/ Call \/ End \/ Work \/ LongJump
    \/ \E sig \in Sig : RtSigaction(sig) \/ Handled(sig) \/ NotHandled(sig)
    \/ SigreturnSlot \/ RtSigreturn

Spec == Init /\ [][Next]_vars

-----------------------------------------------------------------------------
TypeOK ==
    /\ handled \subseteq Sig /\ slot \in BOOLEAN /\ running \in BOOLEAN
    /\ frames \in Seq(Address) /\ memory \in [Address -> Context]
    /\ cpu \in Context /\ interrupted \in Seq(Context)

(* The code a handler interrupted goes on with the registers it had, and the *)
(* answer 0 to its kill, whichever way the handler returns: not with those   *)
(* of another handler it is nested in, nor of one that a crash or a longjmp, *)
(* in this run or before, left on the list.                                  *)
ResumesInterrupted == resumed # None => cpu = resumed

(* A handler is entered with its signal as the first argument: that is what  *)
(* _enter_signal_handler writes, and _deliver_signal returns None, which the *)
(* trap takes as no answer to write over it.                                 *)
HandlerGetsSignal == entered # Zero => cpu.r0 = entered
=============================================================================
