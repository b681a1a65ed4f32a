--------------------------- MODULE HookedLinking ---------------------------
(* Hooks on import slots while libraries are still being loaded.  hook_symbol *)
(* remembers what each matching slot held and points it at a trampoline;      *)
(* unhooking writes that back.  One hook per symbol at a time (GotHooks has   *)
(* the chains), and enough trampolines.                                       *)
EXTENDS Linking

CONSTANTS Trampoline

VARIABLES original   \* _got_hooks: what each hooked slot held when it was hooked

hlvars == <<lvars, original>>

ImportSlots(s) == {x \in DOMAIN got : x[2] = s}

HLInit == LInit /\ original = <<>>

(* hook_symbol: every slot of a registered library that imports s.           *)
Hook(s) ==
    /\ MayLoad
    /\ ImportSlots(s) # {} /\ ImportSlots(s) \cap DOMAIN original = {}
    /\ original' = [x \in DOMAIN original \cup ImportSlots(s) |->
                       IF x \in DOMAIN original THEN original[x] ELSE got[x]]
    /\ got' = [x \in DOMAIN got |-> IF x[2] = s THEN Trampoline ELSE got[x]]
    /\ UNCHANGED <<disk, modules, provider, isWeak, supplied, deferred, loads, listed, starts, clean, nested>>

Unhook(s) ==
    /\ MayLoad
    /\ ImportSlots(s) \cap DOMAIN original # {}
    /\ got' = [x \in DOMAIN got |->
                  IF x[2] = s /\ x \in DOMAIN original THEN original[x] ELSE got[x]]
    /\ original' = [x \in {y \in DOMAIN original : y[2] # s} |-> original[x]]
    /\ UNCHANGED <<disk, modules, provider, isWeak, supplied, deferred, loads, listed, starts, clean, nested>>

HLNext ==
    \/ LNext /\ UNCHANGED original
    \/ \E s \in Syms : Hook(s) \/ Unhook(s)

HLSpec == HLInit /\ [][HLNext]_hlvars

-----------------------------------------------------------------------------
(* hook_symbol's "Intercept matching import slots in modules loaded at        *)
(* installation time": an import slot that was hooked holds the hook's        *)
(* trampoline until it is unhooked, whatever is loaded in the meantime.       *)
SlotsStayHooked == \A x \in DOMAIN original : got[x] = Trampoline
=============================================================================
