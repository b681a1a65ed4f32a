# Emulite: a verification project

Emulite runs Android native libraries outside Android: Unicorn executes the
guest code, and Python stands in for the kernel, the dynamic linker, the Java
VM and the parts of libc that need them. These modules model its own logic,
TLC checks them on small instances, and TLAPS proves what matters most for
every value of the constants. Everything is translated from the code under
`src/src/emulite`; `PROJECT.json` maps each definition to its lines.

## 1. Inventory

The emulator is single-threaded. What makes it hard is not threads but
*re-entry and order*: guest code runs inside `emu_start`, its traps call
Python handlers, handlers allocate memory, load libraries, install and remove
hooks, and any exception unwinds the whole run and leaves the Python state
where it was.

| component | state | operations | hard behaviour | what makes it correct |
|---|---|---|---|---|
| guest memory (`memory/memory_manager.py`) | region list; heap, mmap, library and poison cursors; the page table of the engine | map, protect, unmap, mmap, brk, reserve_lib; mremap in the syscall handlers | list and page table are two copies; a map fails after a cursor moved; holes, regions that straddle an arena | both copies agree, regions are disjoint, a hole is free, cursors stay in their arenas |
| heap allocator (`memory/heap_allocator.py`) | live sizes, free blocks, cursor | malloc, calloc, realloc, free, memalign | merging with both neighbours, lowering the cursor, alignment gaps, the end of the arena | the arena is tiled, free blocks never touch, NULL only when nothing fits |
| svc trap page (`hooks/svc_trap.py`) | slot table, free slots | alloc_slot, free_slot, trap | slots are reused at once; the page is finite | every slot has one owner |
| hooks (`hooks/hook_manager.py`, `hook_handle.py`) | chain per import slot, breakpoints, saved_lr of each hook | hook_symbol, unhook, replace, break_at, code/memory hooks, traces | removal from the middle of a chain or inside a callback; failure half-way, for a full page, an import slot that cannot be read or written, an engine that refuses; recursion through a hook | the slot leads to the newest hook; calls return to their caller; a failure leaves nothing behind but what is named |
| call tracer, tracer, unwinder, disassembler (`hooks/`) | stack of open calls | on call, on return, flush | returns that never come, or that the tracer does not see; tracing that begins and ends in the middle of a run; callbacks that raise | every call is reported once, with its own return value |
| loader (`loader/elf_loader.py`) | modules, exports, data symbols, deferred slots, pending ifuncs and constructors | load, scan, add_data_symbol, create_virtual_module, resolve_pending_symbols | loads inside loads, cycles, missing and rejected libraries, weak symbols, loads from constructors | slots are bound when a load returns; each library starts once, after what it needs |
| emulator (`android_emulator*.py`) | _executing, _closed | call, JNI calls, run_pending_init, close | nesting, crashes, pending exceptions | one run at a time; every path restores |
| linker debug image (`android/linker_debug.py`) | a picture of the loaded libraries in guest memory | rebuild | loads that are rejected | equals the loader's list when a load returns |
| Java references (`android/dalvik_vm.py`) | objects, handles, local/global/weak tables, member ids | add, delete, mark, release | one handle per object shared by all tables | an object lives while a table holds it |
| JNI (`android/jni/`) | pending exception, frames, element buffers | ~230 JNI functions | frames and exceptions across crashes | frames balance; exceptions are delivered once |
| file system (`android/android_file_system.py`) | descriptors, overlay, made and deleted names, providers, sockets | open, close, dup, dup_to, fcntl, pipe, socketpair, epoll, unlink, rename, mkdir, ... | descriptor reuse; last close; overlay over host files | a handle is open exactly while a descriptor refers to it |
| file handles (`android/io/`) | pipe buffers and ends, eventfd counters, peers, epoll interest | read, write, poll, control | half-closed ends, epoll of closed files | ends are counted; epoll reports only what is there |
| syscalls (`android/arm64`, `android/arm32`) | signal actions and frames, thread ids | one handler per syscall: 306 numbers on 64 bits, 409 on 32 | a guest pointer that faults after the effect; handlers that nest; the same call twice, once per architecture | a failure leaves nothing but what is listed; a handler resumes what it interrupted |
| libc hooks (same directories) | dl errors, stacks of iterations | dlopen, dlsym, malloc family, dl_iterate_phdr, property functions | functions that call the guest back once per item, nested, left by longjmp or a crash | a callback's return goes on with its own iteration; iterations end |
| virtual clock (`android/virtual_clock.py`) | elapsed time | read, in whole units, sleep, sleep until | negative durations, times in the past, units longer than a tick | no reading is earlier than what was told or slept to, cut to the same unit |
| device and property area (`android_device.py`, `bionic_property_area.py`) | properties, their records in guest memory | set, merge, find, foreach | records go stale, and fill the area up | find and read answer what get answers |
| profile, cformat, structs, log | values | - | - | - |

Interactions: handlers of the trap page call everything else; the loader and
the heap allocate through guest memory; hooks write import slots the loader
fills in; the file system is called by the syscall handlers; `dlopen` makes the
loader run in the middle of a guest call, and the emulator runs what the loader
queued.

## 2. Plan

Done, in the order in which it was built, the most important behaviour first:

1. Guest memory, with an abstract address space it implements, and proofs.
2. Heap allocator, with an abstract heap, and proofs.
3. Trap page; hook chains and hooks on the entry of a function; calls through both.
4. Loader and start of libraries; hooks on slots that are still deferred; loads end.
5. Descriptors and handles: pipes, sockets, eventfds, epoll, dup and close.
6. Execution and JNI references: nesting, crashes, local frames, global counts, and proofs.
7. Signals and the return from them, with a proof.
8. Names in the file system: overlay, deleted, made directories, host.
9. The call layer: every system call, libc function and JNI function of both
   architectures, by the order of its checks, accesses and effects; clock and thread ids.
10. Functions that call the guest back, and the call tracer that watches.
11. Properties and their records; the copies of elements that JNI lends.

12. Proofs about iterations and the tracer, lent copies, clock and thread ids, the loader,
descriptors and epoll, the hooks, their trampolines and the calls through them, properties and names; the refinements of
the address space, the heap and the names.

Left, of the code: descriptions of open files over which dup and close of `FdTable` are one-line steps; positions and directory listings; `ArtMethod` ids.

Abstract specifications: `AddressSpace`, `AbstractHeap` and `AbstractNames`.

## 3. Modules

| module | models | state |
|---|---|---|
| `AddressSpace` | what a process may expect of its address space: pages that map, change and vanish | one function from pages to mappings |
| `GuestMemory` | `MemoryManager` and the syscalls' `mremap` over the engine's page table | `regions`, `backend`, `heap`, `heapEnd`, `mmapCursor`, `libCursor` |
| `AbstractHeap` | what malloc promises: live blocks that never overlap | `live` |
| `HeapAllocator` | `HeapAllocator` | `live` (`_sizes`), `free` (`_free`), `cursor` |
| `MemoryProofs` | theorems about `GuestMemory` and `HeapAllocator` | |
| `SvcTrap` | the slot table of `SvcTrap`, as operators on a table | |
| `GotHooks` | `hook_symbol`, its selection of modules, its rollback and `HookHandle`s, over every import slot of a symbol; `replace`, `hook_address` on the entry of the function; import slots that are unmapped, callbacks that are refused | `reg` (chains, slots, import entries, breakpoints, trap table), `where` (the places where a handle is active) |
| `HookedCalls` | a guest that calls one hooked function through an import, with callbacks that skip, raise, install and remove; extends `GotHooks` | the guest's frames, LR, PC and target; `savedLr`; what hooks on the entry have still `todo`; a history of each call |
| `Linking` | `ElfLoader.load`, `run_pending_init`, and what the linker debug image lists | `modules`, `provider`/`isWeak` (`_exports`, `_weak`), `got`, `deferred`, `loads` (the recursion), `listed` (link_map), queues, `running` |
| `HooksProofs` | theorems about `GotHooks` and `HookedCalls` | |
| `HookedLinking` | `Linking` with hooks on import slots | adds `original` |
| `FdTable` | descriptors and handles of the file system, epoll sets included | `fds` (`_fds`), `files` (the handles, with pipe, counter, peer or interest set), `pipes` |
| `FilesProofs` | theorems about `FdTable` | |
| `AbstractNames` | what a process may expect of file names: a call changes or moves what one name shows | `shown` |
| `VfsNames` | paths of the file system, from the host's files, the overlay and deletions, and the handles that share their contents | `names` (`_overlay`, `_made_dirs`, `_deleted`), `contents` (of each bytearray), `open` (`_fds`), history `gone` |
| `NamesProofs` | theorems about `VfsNames` and `Linking` | |
| `JniRefs` | the reference tables of `DalvikVM`, native and plain runs, JNI functions that make or release references, local frames, dispatched native methods | `vm` (the tables), `frames` (`_local_frames`), `calls` (`_native_calls`), `pending`, `host` (the run) and histories `owed`, `outside`, `answer` |
| `JniRefsProofs` | theorems about `JniRefs` and `ElementBuffers` | |
| `Signals` | signals the guest sends itself, their handlers and the return from them | `handled` (`_sigactions`), `slot`, `frames` (`_signal_frames`), `memory` (the saved registers), `cpu`, `running`, histories `interrupted`, `resumed`, `entered` |
| `SignalsProofs` | a theorem about `Signals` | |
| `HostCalls` | a notation for handlers: the paths through one, each the sequence of its checks, accesses to guest memory and changes, and where it may fail | |
| `Syscalls64`, `Syscalls32` | the numbers and handlers of the system calls | tables in that notation |
| `LibcHooks64`, `LibcHooks32` | the libc functions that are overridden or stood in for | tables in that notation |
| `JniCalls` | the JNIEnv and JavaVM tables | tables in that notation |
| `GuestCalls` | a guest that makes any of these calls, the trap and the dispatch that answer or end its run, the virtual clock with its tick and the units it is read in, and the thread ids | `width`, `strict`, `running`, `call`, `now`, `nextTid`, histories of what the guest was told |
| `GuestCallsProofs` | theorems about `GuestCalls` and `DeviceProperties` | |
| `DeviceProperties` | the properties of a device and the records that `find` writes for them | `properties`, `records`, `byName`, `end` (`_cursor`), history `outdated` |
| `ElementBuffers` | the copies of array elements and characters that JNI lends | `arrayPtrs`, `stringPtrs`, `blocks` of the heap, `handleOf`, histories `held`, `lost` |
| `Iterations` | `dl_iterate_phdr` and `__system_property_foreach`, in a guest whose functions call, return, jump out and crash | `stack` of the guest, `trap`, `iterations`, `records` |
| `CallTracer` | `call_trace`; extends `Iterations` | `open`, `tracing`, `stopped`, histories |
| `CallTracerProofs` | theorems about `Iterations` and `CallTracer` | |
| `MC*` | instances for TLC | |

The page table in `GuestMemory` (`backend`) is what the engine does when
`UnicornBackend` calls it: a map over a mapped page fails, a protect or unmap
over an unmapped one fails, and a failure changes nothing.

`HookedCalls` abstracts the guest to what hooks can tell apart. Addresses are
trampolines, the original function and one return site per live function; a
live function is the return address it saved. `frames` grows when the original
is entered and shrinks when it returns. A run that ends early keeps `savedLr`,
as the Python closure does. At the entry of the original the handlers that are
registered on the address run one after the other (`ReachEntry` to
`EntryDone`), all of them, also after one has set the program counter.

`GotHooks` by itself (`Spec`) has hooks on any selection of the importing modules, as
`module_name` makes it, and three ways in which an operation fails: the page of
trampolines is full; an import slot cannot be read or written, because
the guest has unmapped its page (`Unmap`, `lost`); the engine refuses the code hook
(`ReplaceRefused`). `_install_got` frees the trampoline for the return and not
the one for the call when its last step, the write, raises; a removal whose write raises has
taken the hook off its chain and frees neither; its handle stays active. The model does the
same, and the properties name what then stays. Assumed is that the page of trampolines stays
mapped, that an import slot that is gone does not come back (a guest that maps its page again finds
zeros there), and that the engine removes the hooks it is told to. Guests that call
(`HSpec`) are explored and proved about with hooks in all importing modules and only a full page
to make an operation fail: `HNext` has no `Unmap` and no `ReplaceRefused`.

A handler of `GuestCalls` is a set of paths, one per way through its branches,
and runs in one step: `Handle` picks a path, the step at which it fails, if
any, and which of its null pointers are null. A check and a part that is asked fail with an errno; an
access to guest memory raises an exception of the host, which ends the run.
What was done before that stays. Which part of the state is changed is kept by name
(`descriptors`, `heap`, ...); what it becomes is in the module of that part.
Calls that differ in a type or a constant only have one entry. A reading of the clock is
told in whole units: nanoseconds (`clock_gettime`), microseconds (`gettimeofday`), hundredths of a second (`times`) or
seconds (`sysinfo`). The clock begins at 0; the device's uptime, which is added before a unit is cut, is a positive whole number of
seconds (`android_device.py:44`), so that all units are cut at the same places and `times` never answers the 1 it has instead of
a 0. The realtime clock has another offset, which need not be whole microseconds; the model has one clock, and a
reading of either is compared with what was told of the same time. TLC also
evaluates three assumptions about the tables: `TablesComplete` (each number has
a handler, and each handler a number), `WidthsAgree` (the two architectures
treat the calls they share alike) and `UnitsKnown` (each reading is in one of the units).

`Iterations` and `CallTracer` share a guest: a stack of live functions, each of
which lies in the traced code or not. The trampoline that a callback returns to
knows the kind of its iteration only. The tracer sees a call, a return or an instruction of
the traced code before it is executed (`AtCall`, `AtReturn`, `Work`), and nothing else. A callback that
raises, or returns what none may, ends the step after the report that it was given: the run ends (`StepRaises`), or
an unhook does (`FlushRaises`), which leaves the trace on and can be tried again.

`Linking` runs one step of the loader at a time, the guest step that called
dlopen included, and `listed` is what the last rebuild of the link_map saw: `MayLoad` says that a load begins either from the host or from
a running constructor, never inside the loader. `resolve_override` and
`resolve_fallback` (constant tables of the libc hooks) are left out: a symbol
they know never waits. A weak undefined symbol is 0 and a strong one a poison
address; the model calls both `Poison`.

In `FdTable` a write or read is one step on the handle, with its
effect and the part of its answer that other descriptors can see. The
instance has no standard streams (`FIRST` is 0 there and 3 in the code): they are handles
that nothing but close can disturb.

In `VfsNames` a path is normalised and belongs to no provider, device or link,
which other tables answer before these are asked. What a file contains is one
of a few values: the host's, written, or nothing. Positions and `O_APPEND` decide
where a write goes, never which buffer, and are left out. Refused calls change nothing and are
no actions, but for `O_CREAT`, which brings back a deleted name before the call can fail
(`OpenDirectory`).

In `Signals` the registers are a program point, the stack pointer in units of a
frame, and one register that is both the first argument and the answer. The
handler of a signal is entered from the syscall that sends it, so the saved
register is the 0 that kill answers. The two architectures differ in register
names only. The signal mask is left out, because nothing in the code asks it: a
blocked signal is delivered at once. The guest is assumed to return from a handler only while
in one, and to leave either all handlers by longjmp or none: as sigreturn
takes the newest frame, leaving only the inner one would make the outer one
return to the wrong place.

In `DeviceProperties` a property has one of a few values of known length (the one
that is computed here is made of a single other), and
the values of `build.prop` are like those that are set at once; lengths and
alignments are those of the code, so that a record of 91 bytes and one of 92 take
the two branches of `_write_info`. `ElementBuffers` knows of an array only whether
it has a handle, and that it gets another one when it is known again; how that
comes about is `JniRefs`.

In `JniRefs` an object is what Python's `id()` tells apart. `Obtain` stands for every
JNI function that answers a local reference to some object; what the object
is, is left to the guest's choice. One assumption is made about the guest: a
function pops only the local frames pushed since it was entered
(`PopLocalFrame`), as JNI asks. It may leave frames behind, delete any
reference at any time, and fail at any step. `kept` of a dispatched call is a
history: the local references its caller had and did not delete itself.

## 4. Runs

| run | question | bounds and why they are enough |
|---|---|---|
| `memory` | do list, page table and cursors agree after every sequence of operations, and answer as one address space? is the arena tiled and coalesced, and does it implement a heap? | seven pages in four arenas, requests within one page and of two: regions can be cut in the middle, at either end, straddle an arena and fill it, and failures happen at every step; seven cells of heap, alignments of half a cell to four: all splits and merges, both neighbours at once, a chain up to the cursor, exhaustion |
| `hooked_calls` | do calls return to their caller and run every hook once, and what does a failed installation leave? | three hooks on the entry or on two import slots, two functions deep below the run, seven trampolines: fewer than two hooks with a post_call need, so the page fills up in every step of an installation; three stale return addresses: recursion through a hook during a hook, reuse of a trampoline that is still live. And the registry alone, with the same hooks on any selection of the two modules, import slots that are lost before, between and after the installations, and refused callbacks |
| `hooked_calls_original` | does CALL_ORIGINAL run the original? | one import slot; see findings |
| `linking` | are slots bound and listed and libraries started in order, and do loads end? | three libraries, two symbols (one weak and strong), six graphs, among them cycles of two and of three and a library that only one of a cycle needs, a missing and a rejected library, application and system libraries |
| `linking_hooked` | does a hook stay installed? | two libraries, one symbol; see findings |
| `fd_table` | are ends counted, peers paired, and readiness truthful under dup and reuse? | three descriptors and three handles: two ends or peers and a set that watches them, or two sets that watch each other and a third handle; at most two entries in all sets |
| `jni_refs` | do references live as long as they should under nesting, frames and crashes? | two objects, two handles, two dispatched calls, one frame: an object can be forgotten and known again while another call is below |
| `vfs_names` | do host files, overlay and open handles behave as one set of names? | a directory, a file in it and another one, two descriptors, three references: rename over an open file, promotion under two handles |
| `signals` | do handlers resume what they interrupted? | two signals, four frames, of which crashes and jumps may leave any number behind |
| `signals_argument` | does a handler get its signal? | same instance; see findings |
| `guest_calls` | what does a call leave that fails anywhere? are times and thread ids consistent? do find and get agree? are lent copies freed? | all calls of both tables; six points in time, a tick of two of them, units shorter than, as long as and longer than a tick; a negative and a positive duration; two thread ids for two threads; two properties, one computed of the other, and an area for five records; two arrays, three blocks, three handles |
| `callbacks_traced` | do callbacks go on where they were and end, and does the tracer pair calls and returns? | two items, three functions deep, three calls, two iterations: one inside the other, of the same kind or not, jumped out of or stopped; a list of open calls that two calls fill |

The longest, `jni_refs`, `memory` and `hooked_calls`, take two to three
minutes; `hooked_calls` has 1.8 million states, the others up to 600,000.

Two runs join components that share no state. `memory` explores `GuestMemory`
and `HeapAllocator`, and `guest_calls` explores `GuestCalls`,
`DeviceProperties` and `ElementBuffers`, each component while the others are as
they began: neither reads what another changes, so that no more
can happen when they are interleaved.

Some runs are cut by a CONSTRAINT and seen through a VIEW. `FewRegions`, `FewStale`,
`FewEntries`, `FewGlobals` and `FewRefs` keep regions, stale return addresses, epoll
entries, global and weak references, and overlay names with open descriptors,
few at a time; what is generated beyond them is still checked, and only its
successors are not. The views identify states that differ in what is never
looked at again. `Looked`: the target and LR of a guest that runs a function, which its
next call or return sets anew; and, of a registry without a guest, which number a trampoline
has (`UpToSlots`): no operation compares numbers of trampolines, and the invariants are part of the view. `InUse`: the contents of a handle without
descriptor. `Distinct`: references in a mark that mean nothing any more
(handles are not used twice), entries of the stacks a crash abandoned (only
their number matters), which exception is pending, and the last answer beyond
whether it was right. `View` of `vfs_names`: which buffer has which number.
`jni_refs` and `hooked_calls` also identify states that swap the objects or
the hooks, which nothing orders. No run with a liveness property has a
constraint, a view or a symmetry.

Fairness. The emulator does nothing by itself, and nobody promises another call
of it. What is promised is the end of what was begun. `LFairness`: the loader
is a recursion of the host that runs on to its return, and an ifunc
resolver or a constructor returns or crashes; `CallsEnd` then says that loads
and `run_pending_init` end, whatever libraries need and load each other.
`IFairness` (and `CFairness`, the same with the tracer): functions of the guest
return, and a trap is answered at once; `IterationsEnd` then says that every iteration ends.
That is fair to assume only of a guest that does not loop; one that does
is ended by the instruction count of its run, if the host gave one.

Findings. (1) A callback that unhooks its own hook and then returns
`CALL_ORIGINAL` ends the run with a `ValueError` (`hook_manager.py:193`) where
the docstring promises the original function. (2) A hook installed while an
import is unresolved is lost when a later load provides the symbol: the loader
writes the provider over the trampoline (`elf_loader.py:329`). When such a hook is
removed, the poison address is written back. The docstring quoted speaks of slots "at installation
time" and the README of the repository of hooks that stay until they are unhooked.

(3) Every signal handler is entered with 0 as its argument: `dispatch` makes an answer of 0 out of the
missing one of `_deliver_signal`, and the trap writes it over the signal
(`android_syscall_handler64.py:96`, and line 97 of the 32-bit one). `siginfo` holds the right number. No sentence of the
documentation promises the argument; it is the code that sets it (line 1158), in vain.

Observed while modelling, and kept as the code has it: a library whose relocation is
rejected stays registered, and a second load returns it as if it were whole
(`elf_loader.py:108,150`); a library loaded first as a system dependency or as a
scan never runs its constructors, also when it is loaded explicitly later; ifuncs of a
library loaded by a constructor are not resolved before its own constructors run.
A native method that crashes, or a plain call, leaves its pending exception to
the next native method that returns (`android_emulator.py:521`); a null object
argument of a method that is itself native ends the run with a `TypeError`
(`android_emulator.py:537`); the receiver of a native method is added before
the mark and stays (`android_emulator.py:496`); global references are counted but weak ones
are not (`dalvik_vm.py:113`); as an object has one handle, deleting a local
reference inside a call deletes the caller's (`dalvik_vm.py:121`).
Of names: `open` with `O_CREAT` of a name that was unlinked brings back what the host
has under it instead of an empty file (`android_file_system.py:117`), also
when the call then fails; a rename onto a directory makes a name that is both;
a read-only handle on a host file is a copy that later writes do not
reach; and `deleted` hides a directory of the host, not the files in it.

Of hooks on an entry: all handlers of an address run, also those after the one
that set the program counter to skip the call. If a later one has a post_call,
it pushes a return address that the next return takes, and the run goes astray
(`hook_manager.py:53`); the properties of `hooked_calls` hold but for such runs (`Skews`).
A `replace` callback that unhooks itself and goes on with a post_call sends the return to a
trampoline that is free again. Of import slots: an installation whose write raises frees the trampoline for the
return and keeps the one for the call (`hook_manager.py:203`); a removal whose write raises keeps both, and its hook is off the chain while the
handle stays active (line 216); and a `replace` whose code hook the engine refuses leaves its callback on the list of the
address, where it runs as soon as another one is installed there (line 254).
Of memory: the search for a hole looks at the mappings that begin in the arena only. When one with MAP_FIXED reaches over the
arena's foot from below, the foot is taken for a hole, and each `mmap` that fits it is tried there and fails, although other pages are
free (`memory_manager.py:132`); `CursorsMoveOn` says that nothing else gets stuck.
Of times: `times` and `sysinfo` cut the time to their units, so what they tell may be earlier than what a finer clock told, or than the end
of a sleep; `TimeAsTold` compares whole units.
Of loading: after a rejected load the link_map is not rebuilt, so that a debugger of the guest
does not see the library, while `dl_iterate_phdr` lists it (`elf_loader.py:121`);
`LoadsSettle` speaks of the time after an outermost load that returned.
Of callbacks: an iteration that is jumped out of inside the callback of another of its kind stays
on the stack, and the outer one's trampoline goes on with it (`orphaned`); `dl_iterate_phdr` pushes its
iteration before the writes that may fail.
Of the tracer: `call_event.py:9` says that the return value is None when the matching return was outside the
traced range. The newest open call gets the value of a return
that is not its own when a callback was entered from code outside the range, when
32-bit code that had called such code returns by `pop {pc}`, or after a 32-bit run crashed with calls
open (`Blurs`); and a callback that answered STOP_TRACING still gets the other events of the same step.
Of calls: registers reach the handlers as unsigned numbers, so checks for negative
lengths and offsets never apply, and `lseek` with a negative offset puts the
position 2^64 further; `rt_sigaction`, `rt_sigprocmask` and `sigaltstack` write
the old value before they read the new one, which may be the same place;
`PR_GET_NAME` may write 17 bytes; `fallocate` may shrink a file; `clone` uses up a thread
id when a pointer faults; a mapping of a file stays when its contents cannot be written;
`posix_memalign` stores NULL and answers 0 when the heap is full; the 32-bit handler `getrlimit`
has no number of its own.
Of properties: a computed one (fingerprint, display id) that was found keeps its
record when what it is made of is set (`outdated`); every change and find of a property uses
up some of the area, until a find raises `MemoryError`; and `build.prop` of the root file system is merged over a
device that the user has given (`android_emulator64.py:58`). A device that two emulators share has its
area bound to the later one; the model has one emulator.
Of copies: an array all of whose references were deleted, and that is known
again under another handle, cannot be given its elements back
(`jni_env.py:365`); a copy whose `isCopy` pointer faults is never freed.

## 5. Proofs

`MemoryProofs`, first part. The assumptions are those of `GuestMemory`: the arenas
follow each other in page-aligned order. The invariant is `TypeOK` with
`RegionsDisjoint`, `RegionsMatchBackend` and `CursorsInBounds`; `RegionsDisjoint` alone is
inductive only with types, because every operation is a carve (which can only
shrink regions) followed by adding pieces of what was carved. Each operation
is a composition of the same few steps, so the lemmas speak about `Carve`,
`Record`, `Reprotected` and `UnmapOverlap`, and one lemma per action combines
them. `HoleIsFree` follows from the agreement of list and page table, and
`CursorsMoveOn` from it: a request that collides was placed at the cursor, not in a
hole, and the cursor has then moved on; or in the one hole that is not free, at the foot of the arena, which a mapping
from below it reaches over (`WedgedOnlyByStraddler`). `MemoryImplementsAddressSpace` looks at the region list page by page: as regions are
disjoint, `Carve` and `Record` change what is seen of the pages they name and of no
other, so that each action is one step of `AddressSpace`.

`SignalsProofs`. The invariant `IInv` adds `Nested` to the types: the frames of the
handlers that run are the last ones of the list, each holds what its handler
interrupted and lies just below that code's stack pointer, and whatever runs
now stays below all of them. `ResumesInterrupted` alone says nothing of frames that were not popped yet;
`Nested` says that entering another handler neither overwrites them nor comes between.

`MemoryProofs`, second part, over `HeapSpec`. The assumption is that the arena and the alignment are
whole units. `Tiled` is inductive with `Coalesced`: lowering the cursor past a
free block keeps the tiling only if no second block touches it, and the merge of two
neighbours stays apart from the rest only because the arena is tiled.
`WholeWhenEmpty` follows from both: with nothing live, a free block would have
to touch the cursor. `NullOnlyWhenFull` needs both again: with the blocks disjoint and
coalesced, room is either one free block or the rest of the arena.
`AllocatorImplementsHeap` shows that each action takes or gives back one block and
leaves the others of `live` alone.

`JniRefsProofs`. The only assumption is that `NoObj` is no object and the
bounds are naturals: the theorems hold for any number of objects, handles,
nested calls and frames. `KnownIffHeld` and `AnswersAreValid` follow from `Sound`: the
tables are functions, handles and objects are inverse to each other, every
handle is below the next one, and the known references are the held ones. Each operator on
the tables keeps `Sound`; `ForgetSound` is the lemma behind every release: it mends a
table in which only the given references have lost their last holder.
`CallersKeepLocals` is not inductive. A return releases to the mark of the
latest call and a pop to the mark of the latest frame, so the invariant
`Nested` says that those marks hold what every call *below* keeps: marks of
later calls do, and so does every frame pushed above a call; frames are never
popped below the call that runs. `GlobalsHeld` needs `Owes` (the count in the tables is
what the guest has not given back), and `NothingLeftBehind` needs `Released` (the mark of a native
run is what was local outside).

`ElementBuffers`, also proved about there, needs of a handle on file that it is an old one and no other array's
(`Filed`): without that an array known again could be taken for the one that was copied.

`CallTracerProofs`. For any number of items, functions and iterations, and any
limit on open calls. `IterationsInv`: the iterations of a kind are numbered by their places, the
callbacks that live have rising places, and, as long as no iteration was jumped out of inside
another, each finds its own iteration at its place (`Nested`), with
none above it that was given up. `IterationsApart` speaks of the moment of a trap
only; `Nested` is what the calls and returns in between carry along.
`TracerInv` relates the list of open calls to the guest's stack: the newest open call
from a depth or above is the one that is live there (`CallersMatch`), and on 32-bit a
function that is not marked has no other (`CallsDone`), so that a
return pops the right one. Both hold until something blurs the calls
(`Blurs`); `ValuesMatch` has the same exceptions, and two more of reports that no return caused: on 32-bit, those after a
run that ended with calls open, and those after an unhook whose report raised. `CallsAccounted` has none: a call is taken off
the list before the callback hears of it, so that one that raises has been told of it.

`GuestCallsProofs`. `CallsInv`: what the guest was promised of the time has passed, and thread ids are
the low bits of a counter. A reading is later than all that passed before, so that when it is cut to whole units it is not
earlier than any of that cut to the same unit. The clock's theorem holds for any set of times, any tick and units of any length; a counter that
wraps is why `ThreadsDistinct` bounds the distance of equal ids instead of denying them.
`PropertiesInv`, for any names, any values of any length and an area of any size: records lie one
behind the other below the cursor (`AreaSound`), and a name that is filed is filed under a record
of its own which, unless it is outdated, has the value that get answers (`AreaTrue`).
`foreach` interns name after name, a function defined by recursion: a least step whose area
is not sound would follow one that is. The lemma that carries it, `RecordFits`, says that whatever
the alignments do, a record begins behind its node and ends before the next.

`HooksProofs`. For any number of hooks and importing modules, any page
of trampolines, any selection of modules for each hook, and import slots that are lost at any time. The invariant is
`HandlesInv`. A trampoline is allocated for a place (a hook, an import slot, a direction) when the hook is installed there
and has noted this trampoline, and for no other place but in slots that were lost (`Exact`). Chains have no hook twice, a handle
is active where its hook is on the chain, and a slot that is not lost leads to the newest (`Sound`). This holds between operations
only. Inside `hook_symbol` a hook is installed in the first of the selected modules and not in the others: `Level`
says in how many, one installation moves it up, one removal down, and `Undo` takes
it down to none from wherever it is. Both loops are functions defined by recursion, followed by the least number
for which the level would be wrong. `FailureLeavesNothing` follows because a registry
that is down again has the chains it began with, and the trampolines in use are the installed ones, and, of lost slots, those
of which a failure leaves one more. A guest
that runs has hooks in all modules and loses no slot (`Whole`), which makes of `HandlesInv` the sharper `RegistryInv`
that the calls need; it changes the registry by the same operations, so all three theorems carry over to `HookedCalls`
(which adds that some module imports the symbol).

`HooksProofs`, second part, on the calls. For any depth of calls and any callbacks. `ReturnsToCaller` speaks
of a moment, a jump to a return site, and saved_lr of what happened long before it, in this run or
in others that ended early. The invariant `CallsInv` joins them. `Aimed` says where the guest may be: it jumps
to its LR, to the original or to the first trampoline of an installed hook, and a callback's hook is
installed unless one was removed in this run. `Trailed` says that a run has a *trail*: the return addresses that
hooks have noted and not taken back, in order, each with its hook, the depth of the call, what LR was and
the trampoline that took its place. Depths rise along the trail and each address is the trampoline
before it or the call's own return site (`Nested`); so a live function returns through the last
trampoline noted for it, or to its caller's return site if there is none (`Follows`). saved_lr of each hook is
what was stale when the run began, and on top of it exactly its part of the trail (`Saved`): what a run
that ended early left behind is never taken again, because takings and notings of a run match. They match because
a trampoline on the trail is that of the hook that noted it (`Owners`). A removal breaks this: the
trampoline can be allocated again, to a hook registered in a callback. That hook has then nothing older
on its own saved_lr (`Unused` for one whose callback is running), so that `after_handler` finds it empty and
ends the run, and does not send the guest to another call's caller. The proof has two exceptions, those
of the properties: runs with a skew (`Skews`) have no trail, and `FaultOnlyIfTorn` gives up at a removal.

`HooksProofs`, third part, `CallsCompose`. The property looks at a call that has returned; the invariant
`ComposeInv` says of every call on its way what it has done and what it has still to do. The
second comes from the trail: `Part` of a depth is the hooks whose second trampolines the call there
must still pass. `Underway` has one case for each place where the innermost call can be. Among the hooks on its import
(`Calling`, `Deciding`) it met the newest of the chain as it was when the call was made, and jumps to the next
one (`NextOf`): the chain has only grown since (`Starts`). On the entry (`Entering`) the hooks met and those still
in `todo` are together those that were on the entry when it came there. On the way back (`Returning`) the hooks that called on are those of
`Part`, and then those whose post_calls ran, last first (`Back`). So a hook that calls on is put at the end of `Part`,
and a post_call takes it from there; when `Part` is empty and the guest is at the call's own return site, `Back` is
`CallsCompose`. The calls outside the innermost one are all in `Back`, at whatever depth, and no step but
theirs changes that: a hook installed meanwhile is one that no call has met (`Known`), so it is in no `Part`, and
what was noted of a call stays noted (`Unaltered`). The hooks with a post_call among those noted are selected by `Only`, a
function defined by recursion; that two such selections agree is shown by the least number for which they would not
(`FilterAgrees`). As the property does, the invariant claims nothing of runs with a removal or a skew (`Untold`).

`FilesProofs`. For any number of descriptors and handles. `FilesInv`: the ends of a pipe are unique in their
kind and the pipe counts the one that is not closed (`EndsGood`); the sockets
of a pair belong to each other for good, are linked while both are open, and the one left has been
told (`SocketsGood`); and a handle is closed exactly when no descriptor refers to it
(`ClosedGood`). The properties count descriptors, the code keeps counts and flags of
its own; the invariant joins the two. `close_range` takes a function that is defined
by recursion: its values are shown sound by the least number for which one would not be. What
epoll sets answer about each other is a least fixpoint: a set can be read exactly
when one of its entries is ready, because otherwise the fixpoint without it would be smaller.

`NamesProofs`. For any finite set of paths, any of which may lie below others, any host files and
directories, and any number of descriptors. `NamesInv`: every name in the overlay has a buffer of its
own (`Overlaid`), a handle has the buffer of the name it is found under and of no other (`Held`), and
what is gone is marked as deleted and not in the overlay (`Marked`). That a new buffer can always be
had is proved, not assumed: there are more of them than names and descriptors. Each call but rename
leaves all names but one as they are (`Kept`), from which the refinement follows: one name changes,
or what one shows moves to another. The attempt to prove it showed what it rests on:
`NothingBelowFiles`, that no call names a path below a regular file of the rootfs. `open` with
`O_CREAT` does not look at the parent, and `_is_dir` takes every path with something below it in the
overlay for a directory; creating `f/x` makes the host's file `f` a directory until `f/x` is removed, which
TLC confirms with an instance that has such a path. The two invariants hold without this hypothesis.

`NamesProofs`, second part, on `Linking`. For any set of libraries, disks and symbols. `LinkingInv`: loads in progress are nested
like the needs that caused them, what precedes a complete library is complete
(`Ordered`), exactly the deferred slots of complete libraries are poisoned
(`Bindings`), and only complete libraries are queued or started, in order
(`Started`). The proof attempt found the first statement of `NeededFirst` too strong:
it asked for everything that a library needs, however indirectly. In the ring of `a`
and `b` with `c` needed by `a` alone, `b` is complete, and started, before `c` is loaded;
that graph is now in the instance, and `Precedes` says what holds.

Model-checked only:

- liveness, `CallsEnd` and `IterationsEnd`, which rests on fairness;
- `FailuresLeaveNothing`: it speaks of constant tables of some 700 paths, which TLC evaluates one by one.

## 6. Not modelled

`PROJECT.json` lists every component with the reason. In short:

- What Unicorn does: execution, registers, the memory and code hooks and the breakpoints that
  only forward to it. Its page table is part of `GuestMemory`.
- Data: the contents of memory and files, positions in files, the layouts of C structures,
  formatted text, modified UTF-8, relocation arithmetic, the values of a profile.
- The Java framework classes, which compute values of the host's; `JniCalls` has what
  a call of one may do to the guest and how it fails.
- What only reads: the unwinder, the disassembler, the tracer of instructions, logging.
- The set-up of an emulator, which runs once, and `close`.
- Two handlers of different emulators at once: emulators share no state, but for a
  device that is given to both.
