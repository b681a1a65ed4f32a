------------------------------- MODULE SvcTrap -------------------------------
(***************************************************************************)
(* The page of guest-callable trampolines.  Slot imm holds "svc #imm; ret" *)
(* and the handler that the trap calls; a freed slot is pushed on a stack  *)
(* and the next allocation reuses it, so a stale guest address may come to *)
(* name another handler.  The table is a value [slots, free], so that one  *)
(* call of a client can allocate or free several slots; a slot's address   *)
(* is its number.                                                          *)
(***************************************************************************)
EXTENDS Integers, Sequences, SequencesExt

CONSTANTS
    Handlers,    \* the host functions that trampolines call
    NoHandler,   \* the content of a freed slot
    MAX_SLOTS    \* _MAX_SLOTS: what fits the page

Slot  == 1 .. MAX_SLOTS
Table == [slots : Seq(Handlers \cup {NoHandler}), free : Seq(Slot)]

EmptyTable == [slots |-> <<>>, free |-> <<>>]

(* alloc_slot raises MissingSlot when the page is full. *)
(* Fault: one slot more than the page holds. *)
CanAllocOneMore(t) == t.free # <<>> \/ Len(t.slots) <= MAX_SLOTS

CanAlloc(t) == t.free # <<>> \/ Len(t.slots) < MAX_SLOTS
NewSlot(t)  == IF t.free # <<>> THEN Last(t.free) ELSE Len(t.slots) + 1

Alloc(t, handler) ==
    IF t.free # <<>>
    THEN [slots |-> [t.slots EXCEPT ![Last(t.free)] = handler], free |-> Front(t.free)]
    ELSE [slots |-> Append(t.slots, handler), free |-> t.free]

(* free_slot raises MissingSlot for a slot that holds no handler.            *)
Allocated(t, imm) == imm \in DOMAIN t.slots /\ t.slots[imm] # NoHandler

Release(t, imm) ==
    [slots |-> [t.slots EXCEPT ![imm] = NoHandler], free |-> Append(t.free, imm)]

(* The table is sound when the stack of free slots lists exactly the slots   *)
(* without a handler, each of them once.                                     *)
SoundTable(t) ==
    /\ Len(t.slots) <= MAX_SLOTS
    /\ \A imm \in DOMAIN t.slots : t.slots[imm] = NoHandler <=> \E i \in DOMAIN t.free : t.free[i] = imm
    /\ \A i \in DOMAIN t.free : t.free[i] \in DOMAIN t.slots
    /\ \A i, j \in DOMAIN t.free : t.free[i] = t.free[j] => i = j
=============================================================================
