------------------------------ MODULE GotHooks ------------------------------
(***************************************************************************)
(* HookManager.hook_symbol: import slots (GOT entries) rewritten to lead   *)
(* to trampolines.  Hooks of one import slot form a chain, newest last;    *)
(* the GOT entry leads to the newest one, each hook to the one before it,  *)
(* the oldest to the original function.                                    *)
(*                                                                         *)
(* HookManager.replace: hooks on the entry of the original function, run   *)
(* in the order of their installation by one code hook of the engine.      *)
(* Both kinds take their trampolines from one page.                        *)
(*                                                                         *)
(* A registry is a value, so that operations compose: hook_symbol installs *)
(* in every module that imports the symbol and that the caller selected,   *)
(* and when one installation fails, it removes the ones it made.  An       *)
(* installation fails when the page of trampolines is full and when the    *)
(* GOT entry cannot be read or written; a removal, when it cannot be       *)
(* written.  It cannot once the page of the import slot was unmapped.      *)
(*                                                                         *)
(* The page of trampolines stays mapped, an import slot whose page is gone *)
(* does not come back, and the engine removes the hooks it is told to.     *)
(***************************************************************************)
EXTENDS Integers, Sequences, SequencesExt, FiniteSets

CONSTANTS
    Hooks,       \* the hooks that callers register
    GotSeq,      \* the GOT entries that import the symbol, in module order
    NoHandler,   \* the content of a freed trampoline
    MAX_SLOTS    \* what fits the page of trampolines

Gots     == ToSet(GotSeq)
ENTRY    == "entry"    \* the place of the hooks on the function's entry
On(h, g)    == [kind |-> "on", hook |-> h, got |-> g]
After(h, g) == [kind |-> "after", hook |-> h, got |-> g]
Handlers == [kind : {"on", "after"}, hook : Hooks, got : Gots \cup {ENTRY}]

INSTANCE SvcTrap

ASSUME GotHooksAssumption ==
    /\ MAX_SLOTS \in Nat
    /\ GotSeq \in Seq(Gots)
    /\ ENTRY \notin Gots
    /\ NoHandler \notin Handlers
    /\ \A i, j \in DOMAIN GotSeq : GotSeq[i] = GotSeq[j] => i = j

ORIGINAL == 0    \* the address of the original function
NONE     == 0    \* no trampoline

EmptyRegistry ==
    [trap  |-> EmptyTable,
     chain |-> [g \in Gots |-> <<>>],
     tramp |-> [h \in Hooks |-> [g \in Gots |-> NONE]],
     after |-> [h \in Hooks |-> [g \in Gots \cup {ENTRY} |-> NONE]],
     got   |-> [g \in Gots |-> ORIGINAL],
     filed |-> {},         \* the keys of _got_hooks
     lost  |-> {},         \* the import slots whose page is gone
     breaks  |-> <<>>,     \* the callbacks on the entry
     stuck   |-> {},       \* those of them whose registration was refused
     watched |-> FALSE]    \* _code_hook is installed

(***************************************************************************)
(* _install_got.  The first hook of a slot reads the GOT entry.  Then the  *)
(* trampoline for the return is allocated, then the one for the call, then *)
(* the GOT entry is rewritten.                                             *)
(***************************************************************************)
AfterSlot(r, post) == IF post THEN NewSlot(r.trap) ELSE NONE

TrapWithAfter(r, h, g, post) == IF post THEN Alloc(r.trap, After(h, g)) ELSE r.trap

HasRoom(r, h, g, post) ==
    /\ post => CanAlloc(r.trap)
    /\ CanAlloc(TrapWithAfter(r, h, g, post))

CanInstall(r, h, g, post) == g \notin r.lost /\ HasRoom(r, h, g, post)

InstallGot(r, h, g, post) ==
    LET t     == TrapWithAfter(r, h, g, post)
        entry == NewSlot(t)
    IN  [r EXCEPT !.trap        = Alloc(t, On(h, g)),
                  !.chain[g]    = Append(@, h),
                  !.tramp[h][g] = entry,
                  !.after[h][g] = AfterSlot(r, post),
                  !.got[g]      = entry,
                  !.filed       = @ \cup {g}]

(***************************************************************************)
(* An installation that fails.  Nothing was done when the GOT entry cannot *)
(* be read.  Else the hook is taken off the chain, which is forgotten if   *)
(* it is empty, and the trampoline for the return is freed; the one for    *)
(* the call is not, if it was the rewriting that failed.                   *)
(***************************************************************************)
Reached(r, g) == g \notin r.lost \/ g \in r.filed

Forgotten(r, g) == IF r.chain[g] = <<>> THEN r.filed \ {g} ELSE r.filed

(* Fault: the trampoline for the return is not given back. *)
FreeNone(t, back) == t

FreeAfter(t, back) == IF back = NONE THEN t ELSE Release(t, back)

FailInstall(r, h, g, post) ==
    LET t     == TrapWithAfter(r, h, g, post)
        taken == IF HasRoom(r, h, g, post) THEN Alloc(t, On(h, g)) ELSE t
    IN  IF ~Reached(r, g) THEN r
        ELSE [r EXCEPT !.trap  = IF post => CanAlloc(@) THEN FreeAfter(taken, AfterSlot(r, post)) ELSE @,
                       !.filed = Forgotten(r, g)]

(***************************************************************************)
(* remove(): off the chain, the GOT entry to the newest hook that is left, *)
(* both trampolines freed, an empty chain forgotten.  When the GOT entry   *)
(* cannot be written the rest is not done, and the handle stays active.    *)
(***************************************************************************)
Newest(r, g) == IF r.chain[g] = <<>> THEN ORIGINAL ELSE r.tramp[Last(r.chain[g])][g]

Unchain(r, h, g) == [r EXCEPT !.chain[g] = RemoveFirst(@, h)]

(* Fault: only the trampoline for the call is freed. *)
FreeEntry(t, entry, back) == Release(t, entry)

FreeBoth(t, entry, back) == FreeAfter(Release(t, entry), back)

Leading(u, h, g, target) ==
    [u EXCEPT !.got[g] = target,
              !.trap   = FreeBoth(@, u.tramp[h][g], u.after[h][g]),
              !.filed  = Forgotten(u, g)]

(* Fault: the GOT entry is put back to what it was before this hook. *)
RemoveGotRestoring(r, h, g) ==
    LET i == CHOOSE j \in DOMAIN r.chain[g] : r.chain[g][j] = h
        u == Unchain(r, h, g)
    IN  IF g \in r.lost THEN u
        ELSE Leading(u, h, g, IF i = 1 THEN ORIGINAL ELSE r.tramp[r.chain[g][i - 1]][g])

(* Fault: the GOT entry is left as it is. *)
RemoveGotKeepingEntry(r, h, g) ==
    LET u == Unchain(r, h, g) IN IF g \in r.lost THEN u ELSE Leading(u, h, g, r.got[g])

RemoveGot(r, h, g) ==
    LET u == Unchain(r, h, g) IN IF g \in r.lost THEN u ELSE Leading(u, h, g, Newest(u, g))

(***************************************************************************)
(* hook_symbol over the selected modules S, and the combined handle, which *)
(* removes in the reverse order, whatever fails.                           *)
(***************************************************************************)
Undo(r, h, n, S) ==
    LET undone[k \in 0 .. n] ==
            IF k = 0 THEN r
            ELSE IF GotSeq[n - k + 1] \in S THEN RemoveGot(undone[k - 1], h, GotSeq[n - k + 1])
            ELSE undone[k - 1]
    IN  undone[n]

InstallNext(acc, h, k, S, post) ==
    IF ~acc.ok \/ GotSeq[k] \notin S THEN acc
    ELSE IF CanInstall(acc.reg, h, GotSeq[k], post)
    THEN [ok |-> TRUE, reg |-> InstallGot(acc.reg, h, GotSeq[k], post)]
    ELSE [ok |-> FALSE, reg |-> Undo(FailInstall(acc.reg, h, GotSeq[k], post), h, k - 1, S)]

InstallAll(r, h, S, post) ==
    LET acc[k \in 0 .. Len(GotSeq)] ==
            IF k = 0 THEN [ok |-> TRUE, reg |-> r] ELSE InstallNext(acc[k - 1], h, k, S, post)
    IN  acc[Len(GotSeq)]

(***************************************************************************)
(* replace: a trampoline for the return if there is a post_call, then the  *)
(* callback is put last on the list of the address, and the code hook is   *)
(* added if there is none (hook_address).  When the engine refuses it, the *)
(* trampoline is freed and the callback stays on the list.                 *)
(***************************************************************************)
CanReplace(r, post) == post => CanAlloc(r.trap)

AddEntry(r, h, post) ==
    [r EXCEPT !.trap            = TrapWithAfter(r, h, ENTRY, post),
              !.after[h][ENTRY] = AfterSlot(r, post),
              !.breaks          = Append(@, h),
              !.watched         = TRUE]

RefuseEntry(r, h, post, watched) ==
    [AddEntry(r, h, post) EXCEPT !.trap    = FreeAfter(@, AfterSlot(r, post)),
                                 !.stuck   = @ \cup {h},
                                 !.watched = watched]

RemoveEntry(r, h) ==
    LET left == RemoveFirst(r.breaks, h)
    IN  [r EXCEPT !.breaks  = left,
                  !.trap    = FreeAfter(@, r.after[h][ENTRY]),
                  !.watched = @ /\ left # <<>>]

VARIABLES
    reg,         \* the registry: SvcTrap's table, _got_hooks, the GOT and _breakpoints
    where        \* of each hook, the places where its handle is active

vars == <<reg, where>>

active    == {h \in Hooks : where[h] # {}}
Replacing == ToSet(reg.breaks)
Unused    == Hooks \ (active \cup Replacing)

Init == reg = EmptyRegistry /\ where = [h \in Hooks |-> {}]

(* hook_symbol with the import slots S in the modules that module_name       *)
(* matches; without one it raises before it does anything.                   *)
Install(h, S, post) ==
    LET res == InstallAll(reg, h, S, post)
    IN  /\ h \in Unused
        /\ S # {}
        /\ reg' = res.reg
        /\ where' = IF res.ok THEN [where EXCEPT ![h] = S] ELSE where

Replace(h, post) ==
    /\ h \in Unused
    /\ \/ /\ CanReplace(reg, post)
          /\ reg' = AddEntry(reg, h, post)
          /\ where' = [where EXCEPT ![h] = {ENTRY}]
       \/ ~CanReplace(reg, post) /\ UNCHANGED vars

(* hook_add raises, or flush_tb after it.                                    *)
ReplaceRefused(h, post) ==
    /\ h \in Unused
    /\ CanReplace(reg, post) /\ ~reg.watched
    /\ \E watched \in BOOLEAN : reg' = RefuseEntry(reg, h, post, watched)
    /\ UNCHANGED where

(* The handle keeps the places at which the removal failed.  There the hook  *)
(* is off the chain: unhooking again fails, too, and does nothing.           *)
Unhook(h) ==
    /\ h \in active
    /\ \/ ENTRY \in where[h] /\ reg' = RemoveEntry(reg, h)
       \/ ENTRY \notin where[h] /\ reg' = Undo(reg, h, Len(GotSeq), where[h])
    /\ where' = [where EXCEPT ![h] = @ \cap reg.lost]

(* The guest unmaps the page of an import slot.                              *)
Unmap(g) ==
    /\ g \notin reg.lost
    /\ reg' = [reg EXCEPT !.lost = @ \cup {g}]
    /\ UNCHANGED where

Next ==
    \/ \E h \in Hooks, post \in BOOLEAN :
          \/ \E S \in SUBSET Gots : Install(h, S, post)
          \/ Replace(h, post) \/ ReplaceRefused(h, post)
    \/ \E h \in Hooks : Unhook(h)
    \/ \E g \in Gots : Unmap(g)

Spec == Init /\ [][Next]_vars

-----------------------------------------------------------------------------
Registry ==
    [trap : Table, chain : [Gots -> Seq(Hooks)], tramp : [Hooks -> [Gots -> Slot \cup {NONE}]],
     after : [Hooks -> [Gots \cup {ENTRY} -> Slot \cup {NONE}]], got : [Gots -> Slot \cup {ORIGINAL}],
     filed : SUBSET Gots, lost : SUBSET Gots,
     breaks : Seq(Hooks), stuck : SUBSET Hooks, watched : BOOLEAN]

TypeOK == reg \in Registry /\ where \in [Hooks -> SUBSET (Gots \cup {ENTRY})]

Chained(r, g) == ToSet(r.chain[g])

Holds(r, imm, handler) == imm \in DOMAIN r.trap.slots /\ r.trap.slots[imm] = handler

OwnsReturn(r, h, g) == r.after[h][g] # NONE => Holds(r, r.after[h][g], After(h, g))

Owned(r, g) ==
    \A h \in Chained(r, g) : Holds(r, r.tramp[h][g], On(h, g)) /\ OwnsReturn(r, h, g)

Accounted(r) ==
    \A imm \in DOMAIN r.trap.slots : r.trap.slots[imm] # NoHandler =>
        \/ \E g \in Gots : \E h \in Chained(r, g) : imm \in {r.tramp[h][g], r.after[h][g]}
        \/ \E h \in ToSet(r.breaks) \ r.stuck : imm = r.after[h][ENTRY]
        \/ r.trap.slots[imm].got \in r.lost

(* Every hook that is installed has its own trampolines, and the stack of    *)
(* free slots lists the ones that are not allocated once: no order of        *)
(* installations, failures and removals frees one twice or leaves a hook     *)
(* without its handler.  Nor is one allocated and of no hook, but for those  *)
(* of import slots whose page is gone: there a failed installation leaves    *)
(* the trampoline for the call, and a failed removal leaves both.            *)
SlotsOwned ==
    /\ SoundTable(reg.trap)
    /\ \A g \in Gots : Owned(reg, g)
    /\ \A h \in Replacing \ reg.stuck : OwnsReturn(reg, h, ENTRY)
    /\ Accounted(reg)

(* Every GOT entry leads to the newest hook that is still installed there,   *)
(* and to the original function once all hooks are gone.                     *)
GotLeadsToNewest == \A g \in Gots \ reg.lost : reg.got[g] = Newest(reg, g)

Handled(p) == {h \in Hooks : p \in where[h]}

(* A hook is on the chains of the modules it was asked for, and of no other, *)
(* also when the page of trampolines fills up half way through hook_symbol,  *)
(* or a GOT entry cannot be written; only where it cannot, a handle may be   *)
(* active without its hook.                                                  *)
ModulesAgree ==
    \A g \in Gots :
        /\ Chained(reg, g) \subseteq Handled(g)
        /\ Handled(g) \subseteq Chained(reg, g) \/ g \in reg.lost
        /\ Len(reg.chain[g]) = Cardinality(Chained(reg, g))

(* A hook on the entry is on the list, and the engine watches for it, until  *)
(* it is removed; the others on the list are those that were refused.        *)
EntryAgrees ==
    /\ Replacing = Handled(ENTRY) \cup reg.stuck /\ Handled(ENTRY) \cap reg.stuck = {}
    /\ Len(reg.breaks) = Cardinality(Replacing)
    /\ Handled(ENTRY) # {} => reg.watched

(* What the handles say is what a call meets.                                *)
EntriesAgree == GotLeadsToNewest /\ ModulesAgree /\ EntryAgrees

(* A hook_symbol or replace that fails leaves the chains, the GOT and all    *)
(* trampolines as they were, also those of the modules in which it had       *)
(* succeeded, but for a trampoline for the call of an import slot whose page *)
(* is gone, and for a callback on the entry that the engine refused.         *)
LeavesNothing ==
    /\ reg'.chain = reg.chain /\ reg'.got = reg.got
    /\ reg'.breaks # reg.breaks => \E h \in reg'.stuck : reg'.breaks = Append(reg.breaks, h)
    /\ \A i \in Slot :
          /\ Allocated(reg.trap, i) => Holds(reg', i, reg.trap.slots[i])
          /\ Allocated(reg'.trap, i) /\ ~Allocated(reg.trap, i) =>
                \E h \in Hooks, g \in reg.lost : Holds(reg', i, On(h, g))

FailureLeavesNothing ==
    [][where' = where => LeavesNothing \/ \E h \in Hooks : Unhook(h)]_vars
=============================================================================
