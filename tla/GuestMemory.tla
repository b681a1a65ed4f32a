----------------------------- MODULE GuestMemory -----------------------------
(***************************************************************************)
(* emulite's MemoryManager and the memory system calls built on it.        *)
(*                                                                         *)
(* The manager keeps a list of regions beside the CPU backend's own page   *)
(* table and never reads the latter: every answer about permissions, every *)
(* free hole for mmap and every MAP_FIXED is computed from the list.  Both *)
(* must therefore agree byte for byte after every call, whatever overlaps  *)
(* whatever, and after the calls that fail half way.                       *)
(*                                                                         *)
(* The list is kept disjoint and sorted by base, so it is modelled as a    *)
(* set; a region [base, end) is a record with its end (size = end - base). *)
(* Page contents are not modelled: a read only matters as "is it mapped".  *)
(***************************************************************************)
EXTENDS Integers, FiniteSets

CONSTANTS
    PAGE,            \* PAGE_SIZE
    HEAP_BASE,       \* the brk heap grows up from here to MMAP_BASE
    MMAP_BASE,       \* the anonymous mappings, up to LIB_BASE
    LIB_BASE,        \* the modules, up to RETURN_SENTINEL
    RETURN_SENTINEL,
    LIMIT,           \* 1 << (pointer_size * 8)
    Perms, RW,       \* permissions, and the default ones
    Unmapped,        \* the backend's answer where no page exists
    Requests,        \* bound: the sizes, in bytes, that callers ask for
    Targets          \* bound: the addresses callers name

ASSUME LayoutAssumption ==
    /\ PAGE \in Nat \ {0}
    /\ {HEAP_BASE, MMAP_BASE, LIB_BASE, RETURN_SENTINEL, LIMIT} \subseteq Nat
    /\ HEAP_BASE <= MMAP_BASE /\ MMAP_BASE <= LIB_BASE
    /\ LIB_BASE <= RETURN_SENTINEL /\ RETURN_SENTINEL <= LIMIT
    /\ \A b \in {HEAP_BASE, MMAP_BASE} : b % PAGE = 0
    /\ RW \in Perms /\ Unmapped \notin Perms
    /\ Requests \subseteq Nat \ {0}
    /\ Targets \subseteq 0 .. (LIMIT - 1)

Labels == {"heap", "mmap", "fixed", "lib"}

(* The mark of an unmapped page describes no mapping. *)
ASSUME UnmappedAssumption == Unmapped \notin [perms : Perms, label : Labels]

VARIABLES
    regions,         \* _regions
    backend,         \* the pages of the CPU backend, one byte at a time
    heap,            \* _heap: the program break
    heapMappedEnd,   \* _heap_mapped_end
    mmapTop,         \* _mmap: the bump cursor of the anonymous arena
    lib              \* _lib: the bump cursor of the module arena

vars == <<regions, backend, heap, heapMappedEnd, mmapTop, lib>>

Addr   == 0 .. (LIMIT - 1)
Region == [base : Nat, end : Nat, perms : Perms, label : Labels]

AlignDown(x) == (x \div PAGE) * PAGE
AlignUp(x)   == AlignDown(x + PAGE - 1)
Aligned(x)   == x % PAGE = 0

Span(lo, hi) == {a \in Addr : lo <= a /\ a < hi}

(***************************************************************************)
(* The backend refuses to map over a page and to unmap or reprotect a      *)
(* range with a hole in it.                                                *)
(***************************************************************************)
AllFree(b, lo, hi)   == \A a \in Span(lo, hi) : b[a] = Unmapped
AllMapped(b, lo, hi) == hi <= LIMIT /\ \A a \in Span(lo, hi) : b[a] # Unmapped
SetPages(b, lo, hi, v) == [a \in Addr |-> IF a \in Span(lo, hi) THEN v ELSE b[a]]

(***************************************************************************)
(* The region list.                                                        *)
(***************************************************************************)
Overlapping(rs, lo, hi) == {r \in rs : r.base < hi /\ r.end > lo}

(* Fault: a region that is split loses what lies above the range. *)
CarveWithoutTail(rs, lo, hi) ==
    (rs \ Overlapping(rs, lo, hi))
    \cup {[r EXCEPT !.end = lo] : r \in {q \in Overlapping(rs, lo, hi) : q.base < lo}}

(* Fault: the part above the range keeps its base. *)
CarveKeepingBase(rs, lo, hi) ==
    CarveWithoutTail(rs, lo, hi) \cup {r \in Overlapping(rs, lo, hi) : r.end > hi}

Carve(rs, lo, hi) ==
    LET hit == Overlapping(rs, lo, hi)
    IN  (rs \ hit)
        \cup {[r EXCEPT !.end  = lo] : r \in {q \in hit : q.base < lo}}
        \cup {[r EXCEPT !.base = hi] : r \in {q \in hit : q.end > hi}}

Record(rs, lo, hi, p, l) ==
    Carve(rs, lo, hi) \cup {[base |-> lo, end |-> hi, perms |-> p, label |-> l]}

(* What protect puts back: the overlapped parts with their labels, or, if   *)
(* no region overlaps, one region without a name.                          *)
Larger(x, y)  == IF x >= y THEN x ELSE y
Smaller(x, y) == IF x <= y THEN x ELSE y

(* Fault: every piece becomes a region without a name. *)
PiecesWithoutLabel(rs, lo, hi, p) ==
    {[base |-> Larger(r.base, lo), end |-> Smaller(r.end, hi), perms |-> p, label |-> ""] :
        r \in Overlapping(rs, lo, hi)}

Pieces(rs, lo, hi, p) ==
    {[base |-> Larger(r.base, lo), end |-> Smaller(r.end, hi), perms |-> p, label |-> r.label] :
        r \in Overlapping(rs, lo, hi)}

Reprotected(rs, lo, hi, p) == Carve(rs, lo, hi) \cup Pieces(rs, lo, hi, p)

(* _unmap_overlap unmaps, in the backend, the overlapped part of each region. *)
UnmapOverlap(b, rs, lo, hi) ==
    [a \in Addr |-> IF a \in Span(lo, hi) /\ \E r \in rs : r.base <= a /\ a < r.end
                    THEN Unmapped ELSE b[a]]

-----------------------------------------------------------------------------
Init ==
    /\ regions = {}
    /\ backend = [a \in Addr |-> Unmapped]
    /\ heap = HEAP_BASE /\ heapMappedEnd = HEAP_BASE
    /\ mmapTop = MMAP_BASE
    /\ lib = LIB_BASE

cursors == <<heap, heapMappedEnd, mmapTop, lib>>

(***************************************************************************)
(* map(address, size, perms, label, replace).  `lo` is aligned and `hi` is *)
(* lo plus the size rounded up; a call that raises leaves everything, save *)
(* that a replacing one has already discarded what the regions covered.    *)
(***************************************************************************)
PlaceAt(b, rs, lo, hi, p, l) ==
    /\ AllFree(b, lo, hi)
    /\ backend' = SetPages(b, lo, hi, p)
    /\ regions' = Record(rs, lo, hi, p, l)

Map(lo, size, p, l) ==
    /\ Aligned(lo) /\ lo + AlignUp(size) <= LIMIT
    /\ PlaceAt(backend, regions, lo, lo + AlignUp(size), p, l)
    /\ UNCHANGED cursors

MapFixed(lo, size, p, l) ==
    LET hi      == lo + AlignUp(size)
        cleared == UnmapOverlap(backend, regions, lo, hi)
    IN  /\ Aligned(lo) /\ hi <= LIMIT
        /\ \/ PlaceAt(cleared, Carve(regions, lo, hi), lo, hi, p, l)
           \/ /\ ~AllFree(cleared, lo, hi)
              /\ backend' = cleared
              /\ regions' = Carve(regions, lo, hi)
        /\ UNCHANGED cursors

(***************************************************************************)
(* protect and unmap touch every page of the requested range; the backend  *)
(* is asked first and, when it refuses, nothing changes.                   *)
(***************************************************************************)
TouchedEnd(address, size) ==
    AlignDown(address) + AlignUp(size + (address - AlignDown(address)))

Protect(address, size, p) ==
    LET lo == AlignDown(address)
        hi == TouchedEnd(address, size)
    IN  /\ AllMapped(backend, lo, hi)
        /\ backend' = SetPages(backend, lo, hi, p)
        /\ regions' = Reprotected(regions, lo, hi, p)
        /\ UNCHANGED cursors

Drop(b, rs, lo, hi) ==
    /\ AllMapped(b, lo, hi)
    /\ backend' = SetPages(b, lo, hi, Unmapped)
    /\ regions' = Carve(rs, lo, hi)

Unmap(address, size) ==
    /\ Drop(backend, regions, AlignDown(address), TouchedEnd(address, size))
    /\ UNCHANGED cursors

(***************************************************************************)
(* _find_mmap_hole walks the regions based in the arena in order of base.  *)
(* The gap before the boundary b (the base of one of them, or the bump     *)
(* cursor) begins where the regions before b end; the first gap that is    *)
(* large enough is the lowest.                                             *)
(***************************************************************************)
Arena == {r \in regions : MMAP_BASE <= r.base /\ r.base < mmapTop}

(* Fault: only the region just before the boundary is looked at. *)
IsGapAfterOne(h, b) == h = MMAP_BASE \/ \E r \in Arena : r.base < b /\ r.end = h

IsGap(h, b) ==
    /\ \A r \in Arena : r.base < b => r.end <= h
    /\ h = MMAP_BASE \/ \E r \in Arena : r.base < b /\ r.end = h

Holes(need) ==
    {h \in {MMAP_BASE} \cup {r.end : r \in Arena} :
        \E b \in {r.base : r \in Arena} \cup {mmapTop} : IsGap(h, b) /\ b - h >= need}

FirstHole(need) == CHOOSE h \in Holes(need) : \A g \in Holes(need) : h <= g

(* Where mmap puts `need` bytes, and what it leaves in the bump cursor.  The *)
(* cursor moves before map is called, and stays moved when map raises.       *)
MmapBase(need) == IF Holes(need) # {} THEN FirstHole(need) ELSE mmapTop

(* Fault: the bump cursor does not move. *)
MmapNextUnmoved(need) == mmapTop

MmapNext(need) == IF Holes(need) # {} THEN mmapTop ELSE mmapTop + need

(* Fault: the limit is checked before the request is added. *)
ArenaFullAlready(need) == Holes(need) = {} /\ mmapTop > LIB_BASE

ArenaFull(need) == Holes(need) = {} /\ mmapTop + need > LIB_BASE

Mmap(size, p) ==
    LET need == AlignUp(size)
        base == MmapBase(need)
    IN  /\ ~ArenaFull(need)
        /\ mmapTop' = MmapNext(need)
        /\ \/ PlaceAt(backend, regions, base, base + need, p, "mmap")
           \/ ~AllFree(backend, base, base + need) /\ UNCHANGED <<regions, backend>>
        /\ UNCHANGED <<heap, heapMappedEnd, lib>>

(* brk(addr): whole pages are mapped or unmapped, then both cursors move.    *)
Brk(addr) ==
    LET end == AlignUp(addr)
    IN  /\ addr # 0 /\ HEAP_BASE <= addr /\ addr <= MMAP_BASE
        /\ \/ /\ end > heapMappedEnd
              /\ PlaceAt(backend, regions, heapMappedEnd, end, RW, "heap")
           \/ end < heapMappedEnd /\ Drop(backend, regions, end, heapMappedEnd)
           \/ end = heapMappedEnd /\ UNCHANGED <<regions, backend>>
        /\ heap' = addr
        /\ heapMappedEnd' = end
        /\ UNCHANGED <<mmapTop, lib>>

(* reserve_lib: a range and a guard page, from the module arena.             *)
ReserveLib(size, align) ==
    LET base == ((lib + align - 1) \div align) * align
        end  == base + AlignUp(size) + PAGE
    IN  /\ end <= RETURN_SENTINEL
        /\ lib' = end
        /\ UNCHANGED <<regions, backend, heap, heapMappedEnd, mmapTop>>

(***************************************************************************)
(* The mremap system call.  A shrink unmaps the tail.  A growing one maps  *)
(* the new range, by mmap or over whatever is at the address the guest     *)
(* fixed, copies `oldSize` bytes and unmaps the old range; when the copy   *)
(* or the unmapping fails the guest gets ENOMEM and the new range stays.   *)
(***************************************************************************)
MremapShrink(old, oldSize, newSize) ==
    LET keep == AlignUp(newSize)
    IN  /\ keep < AlignUp(oldSize)
        /\ Unmap(old + keep, AlignUp(oldSize) - keep)

(* b and rs are the backend and the regions with the new range in place.     *)
CopyAndDrop(b, rs, old, oldSize, dontUnmap) ==
    LET readable == AllMapped(b, old, old + oldSize)
        lo       == AlignDown(old)
        hi       == TouchedEnd(old, AlignUp(oldSize))
    IN  \/ readable /\ ~dontUnmap /\ Drop(b, rs, lo, hi)
        \/ /\ readable => (dontUnmap \/ ~AllMapped(b, lo, hi))
           /\ backend' = b
           /\ regions' = rs

MremapMove(old, oldSize, newSize, dontUnmap) ==
    LET need == AlignUp(newSize)
        base == MmapBase(need)
    IN  /\ need > AlignUp(oldSize)
        /\ ~ArenaFull(need)
        /\ mmapTop' = MmapNext(need)
        /\ \/ /\ AllFree(backend, base, base + need)
              /\ CopyAndDrop(SetPages(backend, base, base + need, RW),
                             Record(regions, base, base + need, RW, "mmap"),
                             old, oldSize, dontUnmap)
           \/ ~AllFree(backend, base, base + need) /\ UNCHANGED <<regions, backend>>
        /\ UNCHANGED <<heap, heapMappedEnd, lib>>

MremapFixed(old, oldSize, newSize, new, dontUnmap) ==
    LET hi      == new + AlignUp(newSize)
        cleared == UnmapOverlap(backend, regions, new, hi)
    IN  /\ AlignUp(newSize) > AlignUp(oldSize)
        /\ Aligned(new) /\ hi <= LIMIT
        /\ \/ /\ AllFree(cleared, new, hi)
              /\ CopyAndDrop(SetPages(cleared, new, hi, RW),
                             Record(Carve(regions, new, hi), new, hi, RW, "fixed"),
                             old, oldSize, dontUnmap)
           \/ /\ ~AllFree(cleared, new, hi)
              /\ backend' = cleared
              /\ regions' = Carve(regions, new, hi)
        /\ UNCHANGED cursors

-----------------------------------------------------------------------------
Next ==
    \/ \E a \in Targets, n \in Requests, p \in Perms : Map(a, n, p, "lib")
    \/ \E a \in Targets, n \in Requests, p \in Perms : MapFixed(a, n, p, "fixed")
    \/ \E a \in Targets, n \in Requests, p \in Perms : Protect(a, n, p)
    \/ \E a \in Targets, n \in Requests : Unmap(a, n)
    \/ \E n \in Requests, p \in Perms : Mmap(n, p)
    \/ \E a \in Addr \cup {MMAP_BASE} : Brk(a)
    \/ \E n \in Requests, k \in {1, 2} : ReserveLib(n, k * PAGE)
    \/ \E a \in Targets, m, n \in Requests : MremapShrink(a, m, n)
    \/ \E a \in Targets, m, n \in Requests, d \in BOOLEAN : MremapMove(a, m, n, d)
    \/ \E a, c \in Targets, m, n \in Requests, d \in BOOLEAN : MremapFixed(a, m, n, c, d)

Spec == Init /\ [][Next]_vars

-----------------------------------------------------------------------------
TypeOK ==
    /\ regions \in SUBSET Region
    /\ backend \in [Addr -> Perms \cup {Unmapped}]
    /\ {heap, heapMappedEnd, mmapTop, lib} \subseteq Nat

Covers(r, a) == r.base <= a /\ a < r.end

(* No two regions share an address, and none is empty: find_region answers   *)
(* with the first region that contains an address, so an overlap left by     *)
(* any sequence of carving calls would make the answer depend on the order.  *)
Disjoint(rs) ==
    /\ \A r \in rs : r.base < r.end /\ r.end <= LIMIT
    /\ \A q, r \in rs : q # r => q.end <= r.base \/ r.end <= q.base

RegionsDisjoint == Disjoint(regions)

(* The region list and the pages of the backend agree on every byte, also    *)
(* after the calls that fail half way: an address lies in a region exactly   *)
(* when it is mapped, and with the permissions it is mapped with.            *)
Agree(rs, b) ==
    \A a \in Addr :
        /\ b[a] = Unmapped => \A r \in rs : ~Covers(r, a)
        /\ b[a] # Unmapped => \E r \in rs : Covers(r, a) /\ r.perms = b[a]

RegionsMatchBackend == Agree(regions, backend)

Straddler == \E r \in regions : r.base < MMAP_BASE /\ r.end > MMAP_BASE

(* A hole found by _find_mmap_hole really is free and inside the arena, so   *)
(* mmap into it cannot raise - unless a mapping that the guest fixed across  *)
(* MMAP_BASE, which the search does not look at, covers the arena's start.   *)
HoleIsFree ==
    \A n \in Requests :
        LET need == AlignUp(n)
        IN  Holes(need) # {} /\ ~Straddler =>
                /\ FirstHole(need) + need <= mmapTop
                /\ AllFree(backend, FirstHole(need), FirstHole(need) + need)

(* An mmap that raises makes the next one raise at the same place, for ever, *)
(* exactly when a mapping that the guest fixed across MMAP_BASE covers the   *)
(* start of a hole there, which the search offers again and again.  In every *)
(* other collision the cursor has moved past the request.                    *)
Refused(need) ==
    ~ArenaFull(need) /\ ~AllFree(backend, MmapBase(need), MmapBase(need) + need)

WedgedOnlyByStraddler ==
    \A n \in Requests :
        LET need == AlignUp(n)
        IN  /\ Refused(need) /\ MmapNext(need) = mmapTop
                <=> Straddler /\ MMAP_BASE \in Holes(need)
            /\ Refused(need) => MmapBase(need) \in {MMAP_BASE, mmapTop}

(* The break's bookkeeping: the mapped end is the break rounded up, both     *)
(* stay inside the heap's area, and the bump cursors inside theirs.          *)
CursorsInBounds ==
    /\ heapMappedEnd = AlignUp(heap)
    /\ HEAP_BASE <= heap /\ heapMappedEnd <= MMAP_BASE
    /\ MMAP_BASE <= mmapTop /\ mmapTop <= LIB_BASE
    /\ LIB_BASE <= lib /\ lib <= RETURN_SENTINEL

(* Both: the cursors never leave their areas, and mmap wedges only so.       *)
CursorsMoveOn == CursorsInBounds /\ WedgedOnlyByStraddler

(* The address space the guest sees, read off the region list. *)
Page == {a \in Addr : Aligned(a)}

View == [a \in Page |->
            IF \E r \in regions : Covers(r, a)
            THEN LET r == CHOOSE q \in regions : Covers(q, a)
                 IN  [perms |-> r.perms, label |-> r.label]
            ELSE Unmapped]

AS == INSTANCE AddressSpace WITH Hole <- Unmapped, page <- View

(* The region list implements the abstract address space: every call changes *)
(* one run of whole pages, all of it or none, protect keeps the labels, and  *)
(* mremap moves one.                                                         *)
ImplementsAddressSpace == AS!Spec
=============================================================================
