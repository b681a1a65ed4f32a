------------------------------- MODULE Linking -------------------------------
(***************************************************************************)
(* ElfLoader and the emulator's start of a library.  load() maps a file,   *)
(* registers it and its exports, loads what it needs, one library inside   *)
(* the other, then fills its import slots; an import whose symbol nobody   *)
(* exports yet is left poisoned and retried when the outermost load ends.  *)
(* Loading runs between two guest instructions when the guest calls        *)
(* dlopen; ifunc resolvers and constructors are guest code, and run when   *)
(* the host asks for them, unless they crash.                              *)
(*                                                                         *)
(* A library has one file, whose name is its soname, and one import slot   *)
(* per symbol it imports.                                                  *)
(***************************************************************************)
EXTENDS Integers, Sequences, SequencesExt, FiniteSets

CONSTANTS
    Libs,        \* names of libraries
    Syms,        \* names of symbols
    Disks,       \* what the files can be: see Disk
    Nobody,      \* no provider of a symbol
    Poison,      \* the address that faults when it is used
    Host         \* the provider of a symbol that the host supplies

(* A file system: the libraries that exist, what each needs, exports (weakly *)
(* or not) and imports, which carry a relocation the loader rejects, which   *)
(* have ifuncs, and which come with the application.                         *)
Disk == [files : SUBSET Libs, needs : [Libs -> Seq(Libs)],
         strong : [Libs -> SUBSET Syms], weak : [Libs -> SUBSET Syms],
         imports : [Libs -> SUBSET Syms],
         rejected : SUBSET Libs, ifunc : SUBSET Libs, app : SUBSET Libs]

ASSUME LinkingAssumption ==
    /\ Disks \subseteq Disk
    /\ {Nobody, Poison, Host} \cap Libs = {}
    /\ Nobody # Poison /\ Poison # Host /\ Host # Nobody

VARIABLES
    disk,
    modules,     \* modules: the libraries that are registered
    provider,    \* _exports: who provides a symbol
    isWeak,      \* _weak
    supplied,    \* _data_symbols
    got,         \* the import slots filled in, by library and symbol
    deferred,    \* deferred_relocs: the slots that wait for a provider
    loads,       \* the calls of _load in progress, innermost last
    listed,      \* the libraries in the link_map of LinkerDebug, which debuggers of the guest read
    irelative,   \* pending_irelative, one entry per library
    pendingInit, \* pending_init
    phase,       \* idle | ifuncs | constructors: what run_pending_init is at
    running,     \* the library whose constructors run, or Nobody
    applied,     \* history: libraries whose ifuncs are resolved
    ran,         \* history: libraries in the order their constructors began
    clean,       \* history: the last outermost load returned, and nothing was supplied since
    nested       \* history: a constructor loaded a library

tables  == <<modules, provider, isWeak, supplied, got, deferred, loads, listed>>
starts  == <<irelative, pendingInit, phase, running, applied, ran>>
lvars   == <<disk, tables, starts, clean, nested>>

Slots == Libs \X Syms

LInit ==
    /\ disk \in Disks
    /\ modules = {} /\ supplied = {} /\ deferred = {} /\ applied = {}
    /\ provider = [s \in Syms |-> Nobody] /\ isWeak = [s \in Syms |-> FALSE]
    /\ got = <<>> /\ loads = <<>> /\ listed = {}
    /\ irelative = <<>> /\ pendingInit = <<>> /\ ran = <<>>
    /\ phase = "idle" /\ running = Nobody
    /\ clean = TRUE /\ nested = FALSE

(***************************************************************************)
(* _register_exports: the first provider of a symbol stays, except that a  *)
(* strong one replaces a weak one.  A scanned library exports nothing.     *)
(***************************************************************************)
Takes(l, s) ==
    \/ s \in disk.strong[l] /\ (provider[s] = Nobody \/ isWeak[s])
    \/ s \in disk.weak[l] \ disk.strong[l] /\ provider[s] = Nobody

RegisterExports(l, scan) ==
    /\ provider' = [s \in Syms |-> IF ~scan /\ Takes(l, s) THEN l ELSE provider[s]]
    /\ isWeak' = [s \in Syms |-> IF ~scan /\ Takes(l, s) THEN s \notin disk.strong[l] ELSE isWeak[s]]

(* Fault: what a dependency needs is not loaded with it.                     *)
EnterWithoutDeeper(l, outer, dependency, scan) ==
    /\ modules' = modules \cup {l}
    /\ RegisterExports(l, scan)
    /\ loads' = Append(outer, [lib |-> l, todo |-> IF dependency THEN <<>> ELSE disk.needs[l],
                               dependency |-> dependency, scan |-> scan])

(* _load up to its dependencies: mapped, registered, exports known.          *)
Enter(l, outer, dependency, scan) ==
    /\ modules' = modules \cup {l}
    /\ RegisterExports(l, scan)
    /\ loads' = Append(outer, [lib |-> l, todo |-> disk.needs[l], dependency |-> dependency, scan |-> scan])

(* load() of a library that is not registered; one that is, is returned.     *)
MayLoad == loads = <<>> /\ (phase = "idle" \/ running # Nobody)

(* Fault: a registered library is loaded again.                              *)
LoadAgain(l, scan) ==
    /\ MayLoad
    /\ l \in disk.files
    /\ Enter(l, <<>>, FALSE, scan)
    /\ clean' = FALSE
    /\ nested' = (nested \/ running # Nobody)
    /\ UNCHANGED <<disk, supplied, got, deferred, listed, starts>>

Load(l, scan) ==
    /\ MayLoad
    /\ l \in disk.files \ modules
    /\ Enter(l, <<>>, FALSE, scan)
    /\ clean' = FALSE
    /\ nested' = (nested \/ running # Nobody)
    /\ UNCHANGED <<disk, supplied, got, deferred, listed, starts>>

Inner == Last(loads)

(* Fault: a library that is being loaded is waited for.                      *)
LoadNeededWaiting ==
    /\ loads # <<>> /\ Inner.todo # <<>>
    /\ LET d     == Head(Inner.todo)
           outer == IF \E i \in DOMAIN loads : loads[i].lib = d
                    THEN loads ELSE [loads EXCEPT ![Len(loads)].todo = Tail(@)]
       IN  IF d \in disk.files \ modules
           THEN Enter(d, outer, TRUE, FALSE)
           ELSE loads' = outer /\ UNCHANGED <<modules, provider, isWeak>>
    /\ UNCHANGED <<disk, supplied, got, deferred, listed, starts, clean, nested>>

(* The next needed library: loaded inside, unless it is registered already,  *)
(* possibly by a load that is still going on, or has no file.                *)
LoadNeeded ==
    /\ loads # <<>> /\ Inner.todo # <<>>
    /\ LET d     == Head(Inner.todo)
           outer == [loads EXCEPT ![Len(loads)].todo = Tail(@)]
       IN  IF d \in disk.files \ modules
           THEN Enter(d, outer, TRUE, FALSE)
           ELSE loads' = outer /\ UNCHANGED <<modules, provider, isWeak>>
    /\ UNCHANGED <<disk, supplied, got, deferred, listed, starts, clean, nested>>

(***************************************************************************)
(* _resolve and _apply_relocations.                                        *)
(***************************************************************************)
Resolve(s) == IF provider[s] # Nobody THEN provider[s] ELSE IF s \in supplied THEN Host ELSE Nobody

Filled(s) == IF Resolve(s) = Nobody THEN Poison ELSE Resolve(s)

(* The import slots `some` of library l, filled or poisoned and deferred.    *)
Bound(l, some) ==
    [x \in DOMAIN got \cup ({l} \X some) |-> IF x \in {l} \X some THEN Filled(x[2]) ELSE got[x]]

Deferred(l, some) == deferred \cup {x \in {l} \X some : Resolve(x[2]) = Nobody}

(* resolve_pending_symbols over the slots g and the deferred ones d.         *)
Settled(g, d) == [x \in DOMAIN g |-> IF x \in d THEN Filled(x[2]) ELSE g[x]]

(* Fault: a deferred slot is retried once.                                   *)
WaitingNoMore(d) == {}

Waiting(d) == {x \in d : Resolve(x[2]) = Nobody}

Queued(f) == ~f.scan /\ (~f.dependency \/ f.lib \in disk.app)

(* Fault: only the libraries that were started, or will be, are listed.      *)
RebuiltOfStarted == modules \cap (ToSet(ran) \cup ToSet(pendingInit))

(* LinkerDebug.rebuild, of as many libraries as its pool holds.              *)
Rebuilt == modules

(* The rest of _load; the outermost load then retries the deferred slots and *)
(* has the link_map made anew.                                               *)
Finish ==
    /\ loads # <<>> /\ Inner.todo = <<>> /\ Inner.lib \notin disk.rejected
    /\ LET l == Inner.lib
           g == Bound(l, disk.imports[l])
           d == Deferred(l, disk.imports[l])
           outermost == Len(loads) = 1
       IN  /\ got' = IF outermost THEN Settled(g, d) ELSE g
           /\ deferred' = IF outermost THEN Waiting(d) ELSE d
           /\ listed' = IF outermost THEN Rebuilt ELSE listed
           /\ clean' = outermost
           /\ irelative' = IF l \in disk.ifunc THEN Append(irelative, l) ELSE irelative
           /\ pendingInit' = IF Queued(Inner) THEN Append(pendingInit, l) ELSE pendingInit
    /\ loads' = Front(loads)
    /\ UNCHANGED <<disk, modules, provider, isWeak, supplied, phase, running, applied, ran, nested>>

(* A relocation is rejected after some slots have been filled, and the       *)
(* ifuncs perhaps queued.  The library                                       *)
(* stays registered; whoever needed it goes on without, and the outermost    *)
(* caller gets the exception before the deferred slots are retried and the   *)
(* link_map is made anew.                                                    *)
Reject ==
    /\ loads # <<>> /\ Inner.todo = <<>> /\ Inner.lib \in disk.rejected
    /\ \E some \in SUBSET disk.imports[Inner.lib] :
          /\ got' = Bound(Inner.lib, some)
          /\ deferred' = Deferred(Inner.lib, some)
    /\ irelative' \in {irelative} \cup {Append(irelative, l) : l \in disk.ifunc \cap {Inner.lib}}
    /\ loads' = Front(loads)
    /\ UNCHANGED <<disk, modules, provider, isWeak, supplied, listed, pendingInit, phase, running, applied, ran, clean, nested>>

(* add_data_symbol and create_virtual_module: deferred slots stay deferred.  *)
Supply(s) ==
    /\ MayLoad
    /\ supplied' = supplied \cup {s}
    /\ clean' = FALSE
    /\ UNCHANGED <<disk, modules, provider, isWeak, got, deferred, loads, listed, starts, nested>>

(***************************************************************************)
(* run_pending_init: the ifuncs first, then the constructors of one        *)
(* library after the other.  An entry is taken off its queue before its    *)
(* guest code runs; a crash ends the whole call.                           *)
(***************************************************************************)
Between == loads = <<>> /\ running = Nobody

RunPendingInit ==
    /\ Between /\ phase = "idle"
    /\ phase' = "ifuncs"
    /\ UNCHANGED <<disk, tables, irelative, pendingInit, running, applied, ran, clean, nested>>

ResolveIfunc ==
    /\ Between /\ phase = "ifuncs" /\ irelative # <<>>
    /\ irelative' = Tail(irelative)
    /\ \/ applied' = applied \cup {Head(irelative)} /\ UNCHANGED phase
       \/ phase' = "idle" /\ UNCHANGED applied
    /\ UNCHANGED <<disk, tables, pendingInit, running, ran, clean, nested>>

(* Fault: constructors begin before every ifunc is resolved.                 *)
BeginConstructorsEarly ==
    /\ Between /\ phase = "ifuncs"
    /\ phase' = "constructors"
    /\ UNCHANGED <<disk, tables, irelative, pendingInit, running, applied, ran, clean, nested>>

BeginConstructors ==
    /\ Between /\ phase = "ifuncs" /\ irelative = <<>>
    /\ phase' = "constructors"
    /\ UNCHANGED <<disk, tables, irelative, pendingInit, running, applied, ran, clean, nested>>

Construct ==
    /\ Between /\ phase = "constructors" /\ pendingInit # <<>>
    /\ running' = Head(pendingInit)
    /\ pendingInit' = Tail(pendingInit)
    /\ ran' = Append(ran, Head(pendingInit))
    /\ UNCHANGED <<disk, tables, irelative, phase, applied, clean, nested>>

Constructed ==
    /\ running # Nobody /\ loads = <<>>
    /\ running' = Nobody
    /\ phase' \in {phase, "idle"}
    /\ UNCHANGED <<disk, tables, irelative, pendingInit, applied, ran, clean, nested>>

AllConstructed ==
    /\ Between /\ phase = "constructors" /\ pendingInit = <<>>
    /\ phase' = "idle"
    /\ UNCHANGED <<disk, tables, irelative, pendingInit, running, applied, ran, clean, nested>>

LNext ==
    \/ \E l \in Libs, scan \in BOOLEAN : Load(l, scan)
    \/ LoadNeeded \/ Finish \/ Reject
    \/ \E s \in Syms : Supply(s)
    \/ RunPendingInit \/ ResolveIfunc \/ BeginConstructors
    \/ Construct \/ Constructed \/ AllConstructed

(* The loader runs to its end, and constructors and ifunc resolvers return   *)
(* or crash; nobody has to load, supply or start anything.                   *)
LFairness ==
    /\ WF_lvars(LoadNeeded \/ Finish \/ Reject)
    /\ WF_lvars(ResolveIfunc \/ BeginConstructors \/ Construct \/ AllConstructed)
    /\ WF_lvars(Constructed)

LSpec == LInit /\ [][LNext]_lvars /\ LFairness

-----------------------------------------------------------------------------
(* When the last outermost load has returned, and was not rejected, and      *)
(* nothing was supplied since, no import slot is left poisoned although some *)
(* registered library, or the host, provides its symbol, and the link_map    *)
(* lists what is registered: whatever the order, the cycles and the failures *)
(* of the loads before and inside it.                                        *)
LoadsSettle ==
    clean /\ loads = <<>> =>
        /\ \A x \in DOMAIN got : got[x] = Poison => Resolve(x[2]) = Nobody
        /\ \A x \in DOMAIN got : got[x] = Poison <=> x \in deferred
        /\ listed = modules

(* Constructors run once, and never those of a library whose load failed or  *)
(* whose import slots are not all filled in.                                 *)
Starts == ran \o pendingInit

StartedOnce ==
    /\ \A i, j \in DOMAIN Starts : Starts[i] = Starts[j] => i = j
    /\ \A i \in DOMAIN Starts :
          /\ Starts[i] \notin disk.rejected
          /\ \A s \in disk.imports[Starts[i]] : <<Starts[i], s>> \in DOMAIN got

(* A library's constructors run after those of every library that has a file *)
(* and that it needs without being needed by it in turn, and of all that such*)
(* a library needs; in whatever order they were asked for.  Nothing is said  *)
(* of what a library needs only through one that needs it: in the ring a, b  *)
(* with c needed by a alone, b is complete before c is loaded.               *)
Found(l) == ToSet(disk.needs[l]) \cap disk.files

Needs(l, d) ==
    \A S \in SUBSET Libs :
        Found(l) \subseteq S /\ (\A x \in S : Found(x) \subseteq S) => d \in S

Precedes(d, l) == \E e \in Found(l) : ~Needs(e, l) /\ (d = e \/ Needs(e, d))

NeededFirst ==
    \A i, j \in DOMAIN Starts : Precedes(Starts[j], Starts[i]) => j < i

(* As long as no constructor has loaded a library, a library's ifuncs are    *)
(* resolved, or have crashed, before its constructors run.                   *)
IfuncsFirst ==
    ~nested => \A i \in DOMAIN ran : ran[i] \notin ToSet(irelative)

(* Libraries are started once, complete, after what they need, and after     *)
(* their ifuncs (the three definitions above).                               *)
StartsInOrder == StartedOnce /\ NeededFirst /\ IfuncsFirst

(* A load ends, though libraries need each other, and so does a call of      *)
(* run_pending_init, though its constructors load libraries that queue more. *)
CallsEnd ==
    /\ loads # <<>> ~> loads = <<>>
    /\ phase # "idle" ~> phase = "idle"
=============================================================================
