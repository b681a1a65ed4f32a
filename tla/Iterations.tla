----------------------------- MODULE Iterations -----------------------------
(***************************************************************************)
(* dl_iterate_phdr and __system_property_foreach: libc functions of the    *)
(* host that call the guest back once for every item.  The host does not   *)
(* call the callback; it enters it with a trampoline for return address    *)
(* and leaves the trap, and what it needs to go on waits on a stack of     *)
(* iterations of its kind.  The trampoline knows its kind only: it goes on *)
(* with the iteration on top of the stack.                                 *)
(*                                                                         *)
(* The guest is its stack of live functions, outermost first.  It calls,   *)
(* returns, jumps out of functions with longjmp, crashes, and begins       *)
(* iterations in the callbacks of others.  The stacks of the host outlive  *)
(* its runs.                                                               *)
(***************************************************************************)
EXTENDS Integers, Sequences, SequencesExt, FiniteSets

CONSTANTS
    Items,       \* how many modules or properties there are
    MaxDepth,    \* bound: guest functions that are live at once
    MaxCalls,    \* bound: calls between guest functions, jumps and iterations
    MaxBegun     \* bound: iterations

ASSUME IterationsAssumption == {Items, MaxDepth, MaxCalls, MaxBegun} \subseteq Nat \ {0}

Kinds == {"phdr", "property"}

VARIABLES
    stack,       \* the live functions of the guest; empty when it does not run
    trap,        \* the callback that has just returned to its trampoline, or NoTrap
    iterations,  \* _phdr_iterations and _prop_foreach_iterations, by kind
    records,     \* what is written in the records of _phdr_info_pool
    made,        \* history: calls so far
    begun,       \* history: iterations so far
    orphaned     \* history: in this run an iteration was jumped out of inside another that goes on

ivars == <<stack, trap, iterations, records, made, begun, orphaned>>

NoTrap == [kind |-> "none"]

(* A function: who it is, whether it lies in the traced code, whether it has *)
(* called code that does not or was jumped back to, and for a callback the   *)
(* iteration that it belongs to.                                             *)
Function(me, traced) == [me |-> me, traced |-> traced, left |-> FALSE, kind |-> "none", of |-> 0, info |-> 0]
CallbackOf(k, it) ==
    [me |-> <<0, it.id, it.index>>, traced |-> it.callback, left |-> FALSE,
     kind |-> k, of |-> it.id, info |-> it.info]
IsCallback(f) == f.of # 0

Outermost == <<0, 0, 0>>

Left(s) == [s EXCEPT ![Len(s)].left = TRUE]

IInit ==
    /\ stack = <<>> /\ trap = NoTrap
    /\ iterations = [k \in Kinds |-> <<>>]
    /\ records = [r \in 1 .. MaxBegun |-> Outermost]
    /\ made = 0 /\ begun = 0 /\ orphaned = FALSE

InGuest == stack # <<>> /\ trap = NoTrap
Top     == Last(stack)

(***************************************************************************)
(* The guest.                                                              *)
(***************************************************************************)
Run(traced) ==
    /\ stack = <<>>
    /\ stack' = <<Function(Outermost, traced)>>
    /\ orphaned' = FALSE
    /\ UNCHANGED <<trap, iterations, records, made, begun>>

Call(traced) ==
    /\ InGuest /\ Len(stack) < MaxDepth /\ made + begun < MaxCalls
    /\ made' = made + 1
    /\ stack' = Append(IF traced THEN stack ELSE Left(stack), Function(<<made + 1, 0, 0>>, traced))
    /\ UNCHANGED <<trap, iterations, records, begun, orphaned>>

(* The outermost function returns to the host, a callback to its trampoline. *)
Return ==
    /\ InGuest
    /\ stack' = Front(stack)
    /\ IF IsCallback(Top)
       THEN \E stop \in BOOLEAN : trap' = [kind |-> Top.kind, of |-> Top.of, stop |-> stop]
       ELSE UNCHANGED trap
    /\ UNCHANGED <<iterations, records, made, begun, orphaned>>

(* An exception of the host, or of the engine, ends the run.                 *)
Abort == stack' = <<>> /\ trap' = NoTrap

Crash ==
    /\ InGuest /\ Abort
    /\ UNCHANGED <<iterations, records, made, begun, orphaned>>

Live(s) == {s[i].of : i \in DOMAIN s} \ {0}

(* longjmp to the function at depth d.                                       *)
Orphans(d) ==
    \E i \in 1 .. d, j \in d + 1 .. Len(stack) :
        IsCallback(stack[i]) /\ IsCallback(stack[j]) /\ stack[i].kind = stack[j].kind

LongJump(d) ==
    /\ InGuest /\ d < Len(stack) /\ made + begun < MaxCalls
    /\ made' = made + 1
    /\ stack' = Left(SubSeq(stack, 1, d))
    /\ orphaned' = (orphaned \/ Orphans(d))
    /\ UNCHANGED <<trap, iterations, records, begun>>

(***************************************************************************)
(* _dl_iterate_invoke and _prop_foreach_invoke.  For a module, a record is *)
(* filled in that the callback gets a pointer to; for a property, the      *)
(* callback gets its prop_info.                                            *)
(***************************************************************************)
Invoke(s, k, it) ==
    /\ stack' = Append(s, CallbackOf(k, it))
    /\ trap' = NoTrap
    /\ records' = IF k = "phdr" THEN [records EXCEPT ![it.info] = <<0, it.id, it.index>>] ELSE records

(* Fault: every iteration uses the first record. *)
OneInfo(k) == 1

(* Every depth has a record of its own.                                      *)
Info(k) == Len(iterations[k]) + 1

(* _dl_iterate_phdr, _system_property_foreach.                               *)
New(k, traced) ==
    [id |-> begun + 1, index |-> 1, callback |-> traced, savedLr |-> Top.me, info |-> Info(k)]

MayBegin(k) ==
    /\ InGuest /\ Len(stack) < MaxDepth
    /\ begun < MaxBegun /\ made + begun < MaxCalls

Begin(k, traced) ==
    /\ MayBegin(k)
    /\ begun' = begun + 1
    /\ iterations' = [iterations EXCEPT ![k] = Append(@, New(k, traced))]
    /\ Invoke(Left(stack), k, New(k, traced))
    /\ UNCHANGED <<made, orphaned>>

(* The name of the module or the record cannot be written.                   *)
BeginFails(traced) ==
    /\ MayBegin("phdr")
    /\ begun' = begun + 1
    /\ iterations' = [iterations EXCEPT !["phdr"] = Append(@, New("phdr", traced))]
    /\ Abort
    /\ UNCHANGED <<records, made, orphaned>>

(***************************************************************************)
(* _dl_iterate_step, _prop_foreach_step: the trap of the trampolines.      *)
(***************************************************************************)
Current == Last(iterations[trap.kind])

Over == Current.index = Items \/ (trap.kind = "phdr" /\ trap.stop)

(* Fault: the next item is the same. *)
Stuck(it) == it

Advanced(it) == [it EXCEPT !.index = @ + 1]

Advance ==
    /\ trap # NoTrap /\ ~Over
    /\ LET it == Advanced(Current)
       IN  /\ iterations' = [iterations EXCEPT ![trap.kind] = Append(Front(@), it)]
           /\ Invoke(stack, trap.kind, it)
    /\ UNCHANGED <<made, begun, orphaned>>

(* Fault: an iteration that its callback stops stays on the stack. *)
PoppedAtEnd(s) == IF Current.index = Items THEN Front(s) ELSE s

Popped(s) == Front(s)

(* The guest goes on in the function that began the iteration, if that is    *)
(* the one that is live; otherwise it is lost in code that has returned.     *)
End ==
    /\ trap # NoTrap /\ Over
    /\ iterations' = [iterations EXCEPT ![trap.kind] = Popped(@)]
    /\ IF Top.me = Current.savedLr THEN trap' = NoTrap /\ UNCHANGED stack ELSE Abort
    /\ UNCHANGED <<records, made, begun, orphaned>>

INext ==
    \/ \E traced \in BOOLEAN : Run(traced) \/ Call(traced) \/ BeginFails(traced)
    \/ \E k \in Kinds, traced \in BOOLEAN : Begin(k, traced)
    \/ \E d \in 1 .. MaxDepth : LongJump(d)
    \/ Return \/ Crash \/ Advance \/ End

(* Guest functions return, and the trap answers at once.                     *)
IFairness == WF_ivars(Return) /\ WF_ivars(Advance) /\ WF_ivars(End)

ISpec == IInit /\ [][INext]_ivars /\ IFairness

-----------------------------------------------------------------------------
(* The trampoline goes on with the iteration whose callback has returned,    *)
(* though iterations nest, are stopped early, and are left on the stacks of  *)
(* the host by crashes and jumps; except after an iteration was jumped out   *)
(* of inside the callback of another one of its kind.                        *)
StepsContinueTheirOwn ==
    trap # NoTrap /\ ~orphaned => iterations[trap.kind] # <<>> /\ Current.id = trap.of

(* A callback finds its own module in the record it was given as long as it  *)
(* runs, whatever iterations it begins itself.                               *)
RecordsStand ==
    \A i \in DOMAIN stack :
        IsCallback(stack[i]) /\ stack[i].kind = "phdr" => records[stack[i].info] = stack[i].me

(* Nested iterations keep apart, in both ways.                               *)
IterationsApart == StepsContinueTheirOwn /\ RecordsStand

(* Every iteration ends: the callbacks have all returned, or were jumped out *)
(* of, or the run has ended.                                                 *)
IterationsEnd == \A n \in 1 .. MaxBegun : (n \in Live(stack)) ~> (n \notin Live(stack) /\ trap = NoTrap)
=============================================================================
