---------------------------- MODULE HookedCalls ----------------------------
(***************************************************************************)
(* A guest that calls a hooked import while its hooks run, call each other *)
(* and are installed and removed.  It calls through the first of the GOTs; *)
(* it is its frames (the return address each live function has saved), its *)
(* LR and the address it is about to jump to.  A hook that calls the       *)
(* original sends the return through its second trampoline and keeps the   *)
(* real return address in saved_lr, a stack that outlives the run.  Hooks  *)
(* on the entry of the original (replace) do the same with one trampoline; *)
(* all of them run, in the order of their installation, before it begins.  *)
(*                                                                         *)
(* Every hook is registered at most once: a new registration is a new one. *)
(***************************************************************************)
EXTENDS GotHooks

CONSTANTS MaxDepth   \* bound: guest functions that are live at once

G == GotSeq[1]

ASSUME HookedCallsAssumption == GotSeq # <<>> /\ MaxDepth \in Nat

(* Addresses: trampolines are their slot numbers, the original function is   *)
(* ORIGINAL, the return site in the function at depth d is Site(d).          *)
Site(d) == -d

VARIABLES
    fresh,       \* hooks not registered yet
    dropped,     \* hooks whose chain emptied, and was forgotten, since
    savedLr,     \* saved_lr of each hook
    mode,        \* idle | guest | jump | on | entry | after
    todo,        \* the handlers on the entry that are still to run
    pc,          \* where the guest goes after them
    at,          \* the address jumped to, or the hook whose callback runs
    lr,          \* the guest's LR
    frames,      \* the return address saved by each live guest function
    calls,       \* history: the calls through the GOT that have not returned
    done,        \* history: the last one that returned
    torn,        \* history: a hook was removed during this run
    skewed,      \* history: see Skews
    fault        \* what ended the last run early

registered == <<reg, where, fresh, dropped>>
entry   == <<todo, pc>>
past    == <<torn, skewed>>
machine == <<savedLr, mode, entry, at, lr, frames, calls, done, past, fault>>
hvars   == <<registered, machine>>

NoCall == [chain |-> <<>>, ons |-> <<>>, skip |-> FALSE,
           breaks |-> <<>>, ins |-> <<>>, skips |-> {}, bodies |-> 0, afters |-> <<>>]

HInit ==
    /\ Init
    /\ fresh = Hooks /\ dropped = {}
    /\ savedLr = [h \in Hooks |-> <<>>]
    /\ mode = "idle" /\ todo = <<>> /\ pc = 0 /\ at = 0 /\ lr = 0 /\ frames = <<>>
    /\ calls = <<>> /\ done = NoCall /\ torn = FALSE /\ skewed = FALSE /\ fault = "none"

(* A guest address, and a jump to it.                                        *)
Jump(a) == mode' = "jump" /\ at' = a

(* Any exception that leaves a handler ends the run; saved_lr stays.         *)
Abort(why) ==
    /\ mode' = "idle" /\ todo' = <<>> /\ pc' = 0 /\ at' = 0 /\ lr' = 0 /\ frames' = <<>>
    /\ calls' = <<>> /\ fault' = why

(* The history of a run stops at the first removal of a hook, or skew.       *)
Untold         == torn \/ skewed
Outstanding(c) == IF Untold THEN calls ELSE [calls EXCEPT ![Len(calls)] = c]
Current        == IF Untold THEN NoCall ELSE Last(calls)

(***************************************************************************)
(* The guest.                                                              *)
(***************************************************************************)
Run ==
    /\ mode = "idle"
    /\ mode' = "guest" /\ frames' = <<0>> /\ torn' = FALSE /\ skewed' = FALSE
    /\ fault' = "none" /\ done' = NoCall
    /\ UNCHANGED <<registered, savedLr, entry, at, lr, calls>>

GuestCall ==
    /\ mode = "guest"
    /\ Len(frames) < MaxDepth
    /\ lr' = Site(Len(frames))
    /\ Jump(reg.got[G]) /\ done' = NoCall
    /\ calls' = IF Untold THEN calls ELSE Append(calls, [NoCall EXCEPT !.chain = reg.chain[G]])
    /\ UNCHANGED <<registered, savedLr, entry, frames, past, fault>>

EnterBody ==
    /\ mode' = "guest" /\ frames' = Append(frames, lr)
    /\ calls' = Outstanding([Current EXCEPT !.bodies = @ + 1])

EnterOriginal ==
    /\ mode = "jump" /\ at = ORIGINAL /\ reg.breaks = <<>>
    /\ EnterBody
    /\ UNCHANGED <<registered, savedLr, entry, at, lr, done, past, fault>>

GuestReturn ==
    /\ mode = "guest"
    /\ Len(frames) > 1
    /\ lr' = Last(frames) /\ Jump(Last(frames)) /\ frames' = Front(frames) /\ done' = NoCall
    /\ UNCHANGED <<registered, savedLr, entry, calls, past, fault>>

Resume ==
    /\ mode = "jump" /\ at < 0
    /\ mode' = "guest" /\ done' = Current /\ calls' = IF Untold THEN calls ELSE Front(calls)
    /\ UNCHANGED <<registered, savedLr, entry, at, lr, frames, past, fault>>

FinishRun ==
    /\ mode = "guest"
    /\ Len(frames) = 1
    /\ mode' = "idle" /\ frames' = <<>> /\ at' = 0 /\ lr' = 0 /\ done' = NoCall
    /\ UNCHANGED <<registered, savedLr, entry, calls, past, fault>>

(***************************************************************************)
(* _on_interrupt: the trap of a trampoline.                                *)
(***************************************************************************)
(* The return address after_handler takes off saved_lr: the last pushed.     *)
(* Fault: the first pushed.                                                  *)
OldestLr(h) == Head(savedLr[h])

SavedLr(h) == Last(savedLr[h])

Handler == reg.trap.slots[at]

TrapFreed ==
    /\ mode = "jump" /\ at > 0
    /\ ~Allocated(reg.trap, at)
    /\ Abort("missing slot")
    /\ UNCHANGED <<registered, savedLr, done, past>>

TrapOn ==
    /\ mode = "jump" /\ at > 0
    /\ Allocated(reg.trap, at) /\ Handler.kind = "on"
    /\ mode' = "on" /\ at' = Handler.hook
    /\ calls' = Outstanding([Current EXCEPT !.ons = Append(@, Handler.hook)])
    /\ UNCHANGED <<registered, savedLr, entry, lr, frames, done, past, fault>>

(* after_handler takes the return address off saved_lr before the callback   *)
(* runs; lr carries it, as the finally clause restores it in every case.     *)
TrapAfter ==
    /\ mode = "jump" /\ at > 0
    /\ Allocated(reg.trap, at) /\ Handler.kind = "after"
    /\ LET h == Handler.hook
       IN  IF savedLr[h] = <<>>
           THEN Abort("no saved lr") /\ UNCHANGED savedLr
           ELSE /\ mode' = "after" /\ at' = h
                /\ lr' = SavedLr(h)
                /\ savedLr' = [savedLr EXCEPT ![h] = Front(@)]
                /\ calls' = Outstanding([Current EXCEPT !.afters = Append(@, h)])
                /\ UNCHANGED <<entry, frames, fault>>
    /\ UNCHANGED <<registered, done, past>>

(***************************************************************************)
(* What on_handler does with the verdict of its callback.  The chain it was *)
(* installed in is searched by value: a hook installed since in the        *)
(* trampolines of one that was removed is equal to it.  A chain that       *)
(* empties is forgotten, and the next installation starts another.         *)
(***************************************************************************)
SameHook(h, k) == reg.tramp[h][G] = reg.tramp[k][G] /\ reg.after[h][G] = reg.after[k][G]

Places(h) == {i \in DOMAIN reg.chain[G] : SameHook(reg.chain[G][i], h) /\ h \notin dropped}

(* Fault: a hook that is not the oldest skips the ones before it. *)
OlderIgnored(i) == ORIGINAL

Older(i) == IF i = 1 THEN ORIGINAL ELSE reg.tramp[reg.chain[G][i - 1]][G]

OnCallsOriginal ==
    /\ mode = "on"
    /\ LET post == reg.after[at][G] # NONE
           back == IF post THEN reg.after[at][G] ELSE lr
       IN  /\ savedLr' = IF post THEN [savedLr EXCEPT ![at] = Append(@, lr)] ELSE savedLr
           /\ IF Places(at) = {}
              THEN Abort("not in chain")
              ELSE /\ lr' = back
                   /\ Jump(Older(CHOOSE i \in Places(at) : \A j \in Places(at) : i <= j))
                   /\ UNCHANGED <<entry, frames, calls, fault>>
    /\ UNCHANGED <<registered, done, past>>

OnSkips ==
    /\ mode = "on"
    /\ Jump(lr)
    /\ calls' = Outstanding([Current EXCEPT !.skip = TRUE])
    /\ UNCHANGED <<registered, savedLr, entry, lr, frames, done, past, fault>>

(***************************************************************************)
(* The code hook on the entry of the original: every handler that was on   *)
(* the list when it began runs, also after one has set the PC to skip the  *)
(* call, and those that are removed meanwhile.                             *)
(***************************************************************************)
ReachEntry ==
    /\ mode = "jump" /\ at = ORIGINAL /\ reg.breaks # <<>>
    /\ mode' = "entry" /\ todo' = reg.breaks /\ pc' = ORIGINAL
    /\ calls' = Outstanding([Current EXCEPT !.breaks = reg.breaks])
    /\ UNCHANGED <<registered, savedLr, at, lr, frames, done, past, fault>>

OnEntry == mode = "entry" /\ todo # <<>>

EntryCallsOriginal ==
    /\ OnEntry
    /\ LET h    == Head(todo)
           post == reg.after[h][ENTRY] # NONE
       IN  /\ savedLr' = IF post THEN [savedLr EXCEPT ![h] = Append(@, lr)] ELSE savedLr
           /\ lr' = IF post THEN reg.after[h][ENTRY] ELSE lr
           /\ calls' = Outstanding([Current EXCEPT !.ins = Append(@, h)])
    /\ todo' = Tail(todo)
    /\ UNCHANGED <<registered, mode, pc, at, frames, done, past, fault>>

EntrySkips ==
    /\ OnEntry
    /\ pc' = lr
    /\ calls' = Outstanding([Current EXCEPT !.ins = Append(@, Head(todo)), !.skips = @ \cup {Head(todo)}])
    /\ todo' = Tail(todo)
    /\ UNCHANGED <<registered, savedLr, mode, at, lr, frames, done, past, fault>>

(* The call is skipped, but a later handler has pushed a return address for  *)
(* a post_call that the guest will not come to.                              *)
Skews == pc \notin {ORIGINAL, lr}

EntryDone ==
    /\ mode = "entry" /\ todo = <<>>
    /\ \/ pc = ORIGINAL /\ EnterBody /\ UNCHANGED <<at, skewed>>
       \/ pc # ORIGINAL /\ ~Skews /\ Jump(pc) /\ UNCHANGED <<frames, calls, skewed>>
       \/ Skews /\ Jump(pc) /\ skewed' = TRUE /\ calls' = <<>> /\ UNCHANGED frames
    /\ pc' = 0
    /\ UNCHANGED <<registered, savedLr, todo, lr, done, torn, fault>>

AfterReturns ==
    /\ mode = "after"
    /\ Jump(lr)
    /\ UNCHANGED <<registered, savedLr, entry, lr, frames, calls, done, past, fault>>

CallbackRaises ==
    /\ mode \in {"on", "after"} \/ OnEntry
    /\ Abort("raised")
    /\ UNCHANGED <<registered, savedLr, done, past>>

(***************************************************************************)
(* Hooks are installed and removed between runs and inside callbacks.      *)
(***************************************************************************)
HostRuns == mode \in {"idle", "on", "after"} \/ OnEntry

InstallHook(h, post) ==
    /\ HostRuns /\ h \in fresh
    /\ Install(h, Gots, post) \/ Replace(h, post)
    /\ fresh' = IF h \in active' THEN fresh \ {h} ELSE fresh
    /\ UNCHANGED <<dropped, machine>>

RemoveHook(h) ==
    /\ HostRuns
    /\ Unhook(h)
    /\ dropped' = IF reg'.chain[G] = <<>> THEN Hooks \ fresh ELSE dropped
    /\ torn' = (torn \/ mode # "idle")
    /\ calls' = <<>> /\ done' = NoCall
    /\ UNCHANGED <<fresh, savedLr, mode, entry, at, lr, frames, skewed, fault>>

HNext ==
    \/ Run \/ GuestCall \/ EnterOriginal \/ GuestReturn \/ Resume \/ FinishRun
    \/ TrapFreed \/ TrapOn \/ TrapAfter
    \/ ReachEntry \/ EntryCallsOriginal \/ EntrySkips \/ EntryDone
    \/ OnCallsOriginal \/ OnSkips \/ AfterReturns \/ CallbackRaises
    \/ \E h \in Hooks, post \in BOOLEAN : InstallHook(h, post)
    \/ \E h \in Hooks : RemoveHook(h)

HSpec == HInit /\ [][HNext]_hvars

-----------------------------------------------------------------------------
HTypeOK ==
    /\ TypeOK
    /\ fresh \subseteq Hooks /\ dropped \subseteq Hooks
    /\ savedLr \in [Hooks -> Seq(Int)]
    /\ mode \in {"idle", "guest", "jump", "on", "entry", "after"}
    /\ todo \in Seq(Hooks) /\ pc \in Int
    /\ at \in Int \cup Hooks
    /\ lr \in Int
    /\ frames \in Seq(Int)
    /\ torn \in BOOLEAN /\ skewed \in BOOLEAN

(* A jump to a return site is a return into the function that made the call: *)
(* hooks that come, go, raise or skip never send the guest back to another   *)
(* frame, whatever saved_lr still holds from runs that ended early; but for  *)
(* runs in which a hook on the entry skipped a call that a later one         *)
(* expected to return.                                                       *)
ReturnsToCaller == mode = "jump" /\ at < 0 /\ ~skewed => at = Site(Len(frames))

(* When no hook is removed during a run, and none skips as above, the run    *)
(* ends early only because a callback raised.                                *)
FaultOnlyIfTorn == fault \notin {"none", "raised"} => torn \/ skewed

(* The elements of s that are in S, in their order.                          *)
Only(s, S) ==
    LET f[i \in 0 .. Len(s)] ==
            IF i = 0 THEN <<>> ELSE IF s[i] \in S THEN Append(f[i - 1], s[i]) ELSE f[i - 1]
    IN  f[Len(s)]

(* The hooks with a post_call, of which those that called on leave it noted  *)
(* for the return, the last of them on top.                                  *)
WithPost(g) == {h \in Hooks : reg.after[h][g] # NONE}
Called(c)   == IF c.skip THEN Front(c.ons) ELSE c.ons
Entered(c)  == Only(c.ins, Hooks \ c.skips)
Noted(c)    == Only(Called(c), WithPost(G)) \o Only(Entered(c), WithPost(ENTRY))

(* A call that returned ran the hooks on the import that were installed when *)
(* it was made, from the newest on, and stopped at the first that skipped;   *)
(* then all the hooks on the entry, from the oldest on; then the original    *)
(* once, if none of them skipped; and then the post_calls of the hooks that  *)
(* called on, the last of these hooks first.                                 *)
CallsCompose ==
    done # NoCall =>
        /\ IsPrefix(done.ons, Reverse(done.chain))
        /\ done.skip \/ done.ons = Reverse(done.chain)
        /\ done.ins = done.breaks
        /\ done.skip => done.breaks = <<>>
        /\ done.bodies = (IF done.skip \/ done.skips # {} THEN 0 ELSE 1)
        /\ done.afters = Reverse(Noted(done))

(* "None and ReplacementAction.CALL_ORIGINAL run the original function."     *)
CallOriginalIsHonoured == fault # "not in chain"
=============================================================================
