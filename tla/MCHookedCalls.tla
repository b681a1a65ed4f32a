---------------------------- MODULE MCHookedCalls ----------------------------
(* HookedCalls: two functions deep, three registrations, two modules that    *)
(* import the symbol, and a trampoline page of seven slots: two hooks with a *)
(* post_call take eight, so it fills up in the middle of an installation,    *)
(* and slots freed by one hook serve the next.  The guest calls through the  *)
(* first.                                                                    *)
(*                                                                           *)
(* And GotHooks without a guest that calls, where hooks select modules, and  *)
(* import slots are lost.                                                    *)
EXTENDS HookedCalls, FiniteSetsExt, TLC
TwoGots == <<"libA", "libB">>
OneGot == <<"got">>

CONSTANTS MaxStale \* bound: entries in all of saved_lr
AnyHook == Permutations(Hooks)

VARIABLE alone       \* the registry is explored by itself

HooksInit == HInit /\ alone \in BOOLEAN

(* Every hook was refused, or lost with its import slots.                    *)
NoneLeft == Unused \cup active = {} /\ UNCHANGED vars

HooksNext ==
    /\ \/ ~alone /\ HNext
       \/ alone /\ (Next \/ NoneLeft) /\ UNCHANGED <<fresh, dropped, machine>>
    /\ UNCHANGED alone

HooksSpec == HooksInit /\ [][HooksNext]_<<hvars, alone>>

(* Without a guest it does not matter which slot serves whom: what each      *)
(* trampoline that can be reached is for, how many there are for what, and   *)
(* whether the invariants hold.                                              *)
For(imm) == IF Allocated(reg.trap, imm) THEN reg.trap.slots[imm] ELSE NoHandler

UpToSlots ==
    <<where, [reg EXCEPT !.trap = <<>>, !.tramp = <<>>, !.after = <<>>, !.got = <<>>],
      [x \in Handlers |-> Cardinality({imm \in Slot : For(imm) = x})],
      [g \in Gots |-> <<For(reg.got[g]), [h \in Chained(reg, g) |->
                                             <<For(reg.tramp[h][g]), For(reg.after[h][g])>>]>>],
      [h \in Handled(ENTRY) |-> For(reg.after[h][ENTRY])],
      SlotsOwned, EntriesAgree>>

(* at and lr are not looked at while the guest runs a function.              *)
Looked ==
    IF alone THEN UpToSlots
    ELSE <<registered, savedLr, mode, entry, frames, calls, done, past, fault,
           IF mode = "guest" THEN <<>> ELSE <<at, lr>> >>

FewStale == MapThenSumSet(LAMBDA h : Len(savedLr[h]), Hooks) <= MaxStale
=============================================================================
