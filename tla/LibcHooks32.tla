----------------------------- MODULE LibcHooks32 ----------------------------
(***************************************************************************)
(* The libc functions that the 32-bit emulator answers itself, in the words *)
(* of HostCalls.  Linking replaces the overriding ones wherever they are   *)
(* imported, the others only where no library defines them.  A function    *)
(* answers the errno NULL when it finds or gets nothing.                   *)
(***************************************************************************)
EXTENDS HostCalls

Overriding ==
    {"malloc", "calloc", "realloc", "free", "memalign", "posix_memalign", "aligned_alloc",
     "malloc_usable_size", "dlopen", "android_dlopen_ext", "dlsym", "dladdr", "dlclose", "dlerror",
     "dl_iterate_phdr", "__android_log_print", "__android_log_write", "__android_log_vprint",
     "__android_log_buf_write", "__android_log_buf_print", "__android_log_is_loggable",
     "__android_log_assert", "getauxval", "getenv", "__system_property_get",
     "__system_property_find", "__system_property_read", "__system_property_read_callback",
     "__system_property_foreach", "__cxa_atexit", "__cxa_finalize", "__register_atfork",
     "__stack_chk_fail", "__errno", "abort"}

Fallback == {"snprintf", "sprintf", "vsnprintf", "vsprintf", "printf", "fprintf", "puts"}

(* A C string kept on the heap for good: a full heap raises.                 *)
Interned == Risks("strings")

(* The heap: HeapAllocator has what it does with the blocks.                 *)
Allocation ==
    [calloc |-> {<<Asks("heap"), Write("block")>>},
     realloc |-> {<<Demands("ValueError"), Asks("heap"), Read("old"), Write("block"), Does("heap")>>,
                  <<Asks("heap")>>, <<Demands("ValueError"), Does("heap")>>},
     free |-> {<<>>, <<Demands("ValueError"), Does("heap")>>},
     memalign |-> {<<Demands("ValueError"), Asks("heap")>>},
     posix_memalign |-> {<<Denied("EINVAL"), Write("memptr")>>,
                         <<Denied("EINVAL"), Does("heap"), Write("memptr")>>},
     aligned_alloc |-> {<<Denied("NULL"), Asks("heap")>>},
     malloc_usable_size |-> {<<Demands("ValueError")>>}] @@
    Each({"malloc"}, {<<Asks("heap")>>})

(* Libraries and symbols.  Linking has what loading does.                    *)
Libraries ==
    [dlsym |-> {<<Read("name"), Crash("NotImplementedError")>>, <<Read("name")>>,
                <<Read("name"), Does("dl_error"), Fails("NULL")>>},
     dladdr |-> {<<>>, <<Interned, Given(Interned), Write("info")>>}] @@
    Each({"dlopen", "android_dlopen_ext"},
        {<<>>, <<Read("name"), Risks("modules")>>,
         <<Read("name"), Given(Does("modules")), Does("dl_error"), Fails("NULL")>>})

(* Iterations call the guest back: Iterations has how they go on.            *)
Iterating ==
    [dl_iterate_phdr |-> {<<>>, <<Risks("mappings"), Does("iterations"), Interned, Write("info"),
                                  Does("registers")>>}] @@
    Each({"__system_property_foreach"},
        {<<>>, <<Risks("properties")>>, <<Risks("properties"), Does("iterations"), Does("registers")>>})

(* Errors of the linker, the environment, properties.                        *)
Environment ==
    [dlclose |-> {<<>>},
     dlerror |-> {<<>>, <<Interned, Does("dl_error")>>},
     getauxval |-> {<<>>},
     getenv |-> {<<Read("name")>>, <<Read("name"), Interned>>}] @@
    Each({"__system_property_get"}, {<<Read("name"), Write("value")>>}) @@
    Each({"__system_property_find"}, {<<Read("name")>>, <<Read("name"), Risks("properties")>>}) @@
    Each({"__system_property_read"},
        {<<>>, <<Read("info"), Given(Write("name")), Given(Write("value"))>>}) @@
    Each({"__system_property_read_callback"},
        {<<>>, <<Read("info")>>,
         <<Read("info"), Does("registers"), Interned, Interned, Does("registers")>>})

(* A format, its arguments, and what %n writes.                              *)
Formatted == <<Read("fmt"), Given(Read("args")), Given(Write("count"))>>

(* The log: without a format there is no message.                            *)
Log ==
    Each({"__android_log_print", "__android_log_vprint", "__android_log_buf_print"},
        {<<Given(Read("tag"))>>, <<Given(Read("tag"))>> \o Formatted}) @@
    Each({"__android_log_write", "__android_log_buf_write"}, {<<Given(Read("tag")), Given(Read("text"))>>}) @@
    Each({"__android_log_is_loggable"}, {<<>>}) @@
    Each({"__android_log_assert"},
        After(<<Given(Read("cond")), Given(Read("tag"))>>,
            {<<Crash("EmulatorCrashed")>>, Append(Formatted, Crash("EmulatorCrashed"))}))

Printing ==
    [puts |-> {<<Read("text"), Does("stdout")>>}] @@
    Each({"snprintf", "sprintf", "vsnprintf", "vsprintf"}, {Append(Formatted, Given(Write("buf")))}) @@
    Each({"printf", "fprintf"}, {Append(Formatted, Does("stdout"))})

Exits ==
    Each({"__cxa_atexit", "__cxa_finalize", "__register_atfork", "__errno"}, {<<>>}) @@
    Each({"__stack_chk_fail", "abort"}, {<<Crash("EmulatorCrashed")>>})

Functions ==
    Allocation @@ Libraries @@ Iterating @@ Environment @@ Log @@ Printing @@ Exits
=============================================================================
