----------------------------- MODULE CallTracer -----------------------------
(***************************************************************************)
(* call_trace: a code hook that sees every instruction of the traced code  *)
(* before it is executed.  A call is opened with the stack pointer it was  *)
(* made at, a return completes the newest open call, and calls made below  *)
(* the present stack pointer are reported without a return value.  The     *)
(* tracer does not see code outside its range, nor where a return goes.    *)
(*                                                                         *)
(* The guest is that of Iterations.  Its stack grows by one word with each *)
(* function, so that the code of the function at depth d runs with the     *)
(* stack pointer at d; a callback is entered with that of its caller.      *)
(***************************************************************************)
EXTENDS Iterations, FiniteSetsExt

CONSTANTS MaxOpen   \* _MAX_OPEN, 4096 in the code

ASSUME CallTracerAssumption == MaxOpen \in Nat \ {0}

VARIABLES
    wide,        \* 64-bit: ret leaves the function's frame before it, pop {pc} does not
    tracing,     \* "before" | "on" | "removed"
    open,        \* _open: calls, and the stack pointers they were made at
    stopped,     \* _stopped
    owed,        \* history: calls in traced code, less those reported or pushed out by _MAX_OPEN
    mixed,       \* history: a call was reported with the return value of another
    muddled      \* history: see Blurs and FlushRaises

tvars == <<wide, tracing, open, stopped, owed, mixed, muddled>>
cvars == <<ivars, tvars>>

CInit ==
    /\ IInit
    /\ wide \in BOOLEAN /\ tracing = "before"
    /\ open = <<>> /\ stopped = FALSE
    /\ owed = 0 /\ mixed = FALSE /\ muddled = FALSE

Depth == Len(stack)

(***************************************************************************)
(* _evict: the calls on top of the list that were made deeper than the     *)
(* stack pointer is now.                                                   *)
(***************************************************************************)
(* Fault: the calls made at this very stack pointer are evicted, too.        *)
KeptBelow(sp) == Max({0} \cup {i \in DOMAIN open : open[i].sp < sp})

Kept(sp) == Max({0} \cup {i \in DOMAIN open : open[i].sp <= sp})

Evicted(sp) == SubSeq(open, Kept(sp) + 1, Len(open))

Remaining(sp) == SubSeq(open, 1, Kept(sp))

(* _emit: the callback may answer STOP_TRACING to any of the reports; the    *)
(* step that makes them goes on.                                             *)
Emitting(count) ==
    \/ UNCHANGED stopped
    \/ count > 0 /\ stopped' = TRUE

Active == tracing = "on" /\ ~stopped /\ Top.traced

(***************************************************************************)
(* step(): at a call, at a return, at any other instruction.               *)
(***************************************************************************)
(* Fault: the oldest call is forgotten one too early. *)
CutEarly(calls) == IF Len(calls) >= MaxOpen THEN Tail(calls) ELSE calls

Cut(calls) == IF Len(calls) > MaxOpen THEN Tail(calls) ELSE calls

AtCall(me) ==
    IF Active
    THEN LET event == [call |-> me, sp |-> Depth]
             calls == Append(Remaining(Depth), event)
         IN  /\ open' = Cut(calls)
             /\ owed' = owed + 1 - Len(Evicted(Depth)) - (IF Len(calls) > MaxOpen THEN 1 ELSE 0)
             /\ Emitting(Len(Evicted(Depth)))
             /\ UNCHANGED <<wide, tracing, mixed>>
    ELSE UNCHANGED <<wide, tracing, open, stopped, owed, mixed>>

(* The run goes on, or ends with calls open.                                 *)
AtAbort == muddled' = (muddled \/ (stack' = <<>> /\ ~wide /\ open' # <<>>))

(* The stack pointer at the return: that of the caller, but for pop {pc}.    *)
ReturnSp(pops) == IF pops THEN Depth ELSE Depth - 1

(* _complete: the newest open call gets the value.                           *)
Completed(sp) == IF Remaining(sp) = <<>> THEN <<>> ELSE <<Last(Remaining(sp))>>

(* The calls left open when some were evicted and the newest was completed.  *)
(* Fault: the eviction is left out.                                          *)
StillOpenUnevicted(sp) == IF open = <<>> THEN <<>> ELSE Front(open)

StillOpen(sp) == IF Remaining(sp) = <<>> THEN <<>> ELSE Front(Remaining(sp))

(* A return that the newest open call need not be the match of: that of a    *)
(* function which code outside the range has called, and pop {pc} in one     *)
(* that has called such code or was jumped back to.  With pop {pc} the calls *)
(* that a crash left open can also be taken for calls of the next run.       *)
Blurs(pops) ==
    \/ Depth > 1 /\ (IsCallback(Top) \/ ~stack[Depth - 1].traced)
    \/ pops /\ Top.left

AtReturn ==
    IF Active
    THEN \E pops \in {FALSE} \cup {~wide} :
         LET sp == ReturnSp(pops)
         IN  /\ open' = StillOpen(sp)
             /\ owed' = owed - Len(Evicted(sp)) - Len(Completed(sp))
             /\ Emitting(Len(Evicted(sp)) + Len(Completed(sp)))
             /\ muddled' = (muddled \/ Blurs(pops))
             /\ mixed' = (mixed \/ \E event \in ToSet(Completed(sp)) : ~muddled' /\ event.call # Top.me)
             /\ UNCHANGED <<wide, tracing>>
    ELSE UNCHANGED tvars

Work ==
    /\ InGuest /\ Active
    /\ Evicted(Depth) # <<>>
    /\ open' = Remaining(Depth)
    /\ owed' = owed - Len(Evicted(Depth))
    /\ Emitting(Len(Evicted(Depth)))
    /\ UNCHANGED <<ivars, wide, tracing, mixed, muddled>>

(***************************************************************************)
(* call_trace, and unhook of its handle: flush reports what is open until  *)
(* a callback stops it.  Either may happen in a hook while the guest runs. *)
(***************************************************************************)
Trace ==
    /\ tracing = "before" /\ tracing' = "on"
    /\ UNCHANGED <<ivars, wide, open, stopped, owed, mixed, muddled>>

(* Fault: unhook forgets what is open. *)
FlushQuietly ==
    /\ tracing = "on" /\ tracing' = "removed"
    /\ open' = <<>>
    /\ UNCHANGED <<ivars, wide, stopped, owed, mixed, muddled>>

Flush ==
    /\ tracing = "on" /\ tracing' = "removed"
    /\ \E keep \in 0 .. Len(open) :
          /\ stopped => keep = Len(open)
          /\ open' = SubSeq(open, 1, keep)
          /\ owed' = owed - (Len(open) - keep)
          /\ IF keep = 0 THEN Emitting(Len(open)) ELSE stopped' = TRUE
    /\ stopped \/ stopped' \/ open' = <<>>
    /\ UNCHANGED <<ivars, wide, mixed, muddled>>

(***************************************************************************)
(* A callback raises, or returns what no callback may: of the reports that *)
(* were due, n were made, and the callback of the last of them raised.     *)
(* What is due after it stays on the list.                                 *)
(***************************************************************************)
Reported(n) ==
    /\ open' = SubSeq(open, 1, Len(open) - n)
    /\ owed' = owed - n

(* step() ends the run, before the instruction is executed.                  *)
EvictionRaises ==
    \E n \in 1 .. Len(Evicted(Depth)) :
        Reported(n) /\ Emitting(n - 1) /\ AtAbort /\ UNCHANGED mixed

CompletionRaises(pops) ==
    LET sp  == ReturnSp(pops)
        due == Len(Evicted(sp)) + Len(Completed(sp))
    IN  \E n \in 1 .. due :
          /\ Reported(n) /\ Emitting(n - 1)
          /\ muddled' = (muddled \/ Blurs(pops) \/ (~wide /\ open' # <<>>))
          /\ mixed' = (mixed \/ (n = due /\ ~muddled /\ ~Blurs(pops) /\
                                 \E event \in ToSet(Completed(sp)) : event.call # Top.me))

StepRaises ==
    /\ Crash /\ Active
    /\ EvictionRaises \/ \E pops \in {FALSE} \cup {~wide} : CompletionRaises(pops)
    /\ UNCHANGED <<wide, tracing>>

(* flush() leaves the trace as it is, with fewer calls.  In a hook it ends   *)
(* the run, unless the hook catches the exception: then calls that have not  *)
(* returned are off the list, and their returns complete others.             *)
FlushRaises ==
    /\ tracing = "on" /\ ~stopped
    /\ Crash \/ UNCHANGED ivars
    /\ \E n \in 1 .. Len(open) : Reported(n)
    /\ muddled' = (muddled \/ stack' # <<>> \/ (~wide /\ open' # <<>>))
    /\ UNCHANGED <<wide, tracing, stopped, mixed>>

(* A step of the guest that the tracer does not see.                         *)
Goes(step) ==
    /\ step
    /\ UNCHANGED <<wide, tracing, open, stopped, owed, mixed>>
    /\ AtAbort

CNext ==
    \/ \E traced \in BOOLEAN :
          \/ Run(traced) /\ UNCHANGED tvars
          \/ Call(traced) /\ AtCall(<<made + 1, 0, 0>>) /\ AtAbort
          \/ BeginFails(traced) /\ AtCall(<<0, begun + 1, 0>>) /\ AtAbort
          \/ \E k \in Kinds : Begin(k, traced) /\ AtCall(<<0, begun + 1, 0>>) /\ AtAbort
    \/ \E d \in 1 .. MaxDepth : LongJump(d) /\ AtCall(<<made + 1, 0, 0>>) /\ AtAbort
    \/ Return /\ AtReturn
    \/ Goes(Crash \/ Advance \/ End)
    \/ Work \/ Trace \/ Flush \/ StepRaises \/ FlushRaises

CFairness == WF_cvars(Return /\ AtReturn) /\ WF_cvars(Goes(Advance \/ End))

CSpec == CInit /\ [][CNext]_cvars /\ CFairness

-----------------------------------------------------------------------------
(* The return value of a report is that of the call it reports, as long as   *)
(* no function was entered from code outside the range, and on 32-bit none   *)
(* left by pop {pc} after it had called such code and no run has crashed     *)
(* with calls open, and no unhook raised in a run that went on.  Jumps,      *)
(* iterations, the limit on open calls, a trace that begins or ends in the   *)
(* middle of a run, reports that end a run, and crashes on 64-bit do not mix *)
(* values up.                                                                *)
ValuesMatch == ~mixed

(* Every call in traced code is open, or was reported once (if to a callback *)
(* that raised), or was pushed out by the limit; nothing is open when the    *)
(* trace is removed, unless the callback had stopped it.                     *)
CallsAccounted ==
    /\ owed = Len(open)
    /\ tracing = "removed" /\ ~stopped => open = <<>>
=============================================================================
