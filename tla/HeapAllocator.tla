---------------------------- MODULE HeapAllocator ----------------------------
(***************************************************************************)
(* The guest malloc: a first-fit allocator over one arena.  Below the bump *)
(* cursor every byte belongs to a live or to a free block, and free blocks *)
(* are merged with their neighbours and with the space above the cursor as *)
(* soon as they are freed.                                                 *)
(*                                                                         *)
(* _sizes and _free, dictionaries from an address to a size, are sets of   *)
(* records [at, size].  A live block keeps the size asked for and occupies *)
(* that size rounded up; the size of a free block is what it occupies.     *)
(***************************************************************************)
EXTENDS Integers, FiniteSets

CONSTANTS
    ALIGN,        \* _ALIGN
    BASE,         \* _base: the start of the arena
    ARENA,        \* _ARENA_SIZE
    Alignments,   \* bound: the alignments memalign is called with
    MaxSize       \* bound: the largest size asked for

END == BASE + ARENA

ASSUME ArenaAssumption ==
    /\ ALIGN \in Nat \ {0} /\ BASE \in Nat \ {0} /\ ARENA \in Nat /\ MaxSize \in Nat
    /\ BASE % ALIGN = 0
    /\ Alignments \subseteq Nat \ {0}
    /\ \A a \in Alignments : a >= ALIGN => a % ALIGN = 0   \* powers of two

VARIABLES
    live,         \* _sizes
    free,         \* _free
    cursor        \* _cursor

hvars == <<live, free, cursor>>

(* Fault: sizes and addresses are rounded down. *)
RoundDown(x, to) == (x \div to) * to

RoundUp(x, to) == ((x + to - 1) \div to) * to
Need(size)     == RoundUp(size, ALIGN)

At(a, n)  == [at |-> a, size |-> n]
Block     == [at : Nat, size : Nat]
Top(f)    == f.at + f.size             \* the end of a free block
LiveTop(b) == b.at + Need(b.size)      \* the end of a live one

-----------------------------------------------------------------------------
HeapInit == live = {} /\ free = {} /\ cursor = BASE

(***************************************************************************)
(* malloc: the lowest free block that is large enough, whose rest stays    *)
(* free, or else the space above the cursor.  CanTake and CanBump are the  *)
(* two ways to succeed; the guest gets NULL when there is neither.         *)
(***************************************************************************)
(* Fault: an exact fit is passed over. *)
FitsWithRoom(fr, need) == {f \in fr : f.size > need}

Fits(fr, need) == {f \in fr : f.size >= need}

FirstFit(fr, need) == CHOOSE f \in Fits(fr, need) : \A g \in Fits(fr, need) : f.at <= g.at

(* Fault: the smallest rest is thrown away. *)
TakeFreeOffByOne(f, need) ==
    (free \ {f}) \cup (IF f.size - need > ALIGN THEN {At(f.at + need, f.size - need)} ELSE {})

TakeFree(f, need) ==
    (free \ {f}) \cup (IF f.size - need >= ALIGN THEN {At(f.at + need, f.size - need)} ELSE {})

CanTake(size) == Fits(free, Need(size)) # {}
CanBump(size) == ~CanTake(size) /\ cursor + Need(size) <= END

Place(size) == IF CanTake(size) THEN FirstFit(free, Need(size)).at ELSE cursor

FreeAfterMalloc(size) ==
    IF CanTake(size) THEN TakeFree(FirstFit(free, Need(size)), Need(size)) ELSE free

CursorAfterMalloc(size) == IF CanTake(size) THEN cursor ELSE cursor + Need(size)

Malloc(size) ==
    /\ size > 0
    /\ CanTake(size) \/ CanBump(size)
    /\ live' = live \cup {At(Place(size), size)}
    /\ free' = FreeAfterMalloc(size)
    /\ cursor' = CursorAfterMalloc(size)

(***************************************************************************)
(* _insert_free: the freed range is merged with the free block after it    *)
(* and with the one before it; if it then ends at the cursor, the cursor   *)
(* comes down over it and over every free block that ends there in turn.   *)
(***************************************************************************)
(* Fault: the block after the freed one is not merged. *)
AfterUnseen(fr, b) == {}

After(fr, b)  == {f \in fr : f.at = Top(b)}
Before(fr, b) == {f \in fr : Top(f) = b.at}

Merged(fr, b) ==
    LET lo == IF Before(fr, b) = {} THEN b.at   ELSE (CHOOSE f \in Before(fr, b) : TRUE).at
        hi == IF After(fr, b)  = {} THEN Top(b) ELSE Top(CHOOSE f \in After(fr, b) : TRUE)
    IN  At(lo, hi - lo)

Apart(fr, b) == (fr \ After(fr, b)) \ Before(fr, b)

(* The blocks from which only free blocks lead up to `top`. *)
Sinking(fr, top) ==
    {f \in fr : Top(f) <= top /\ \A x \in f.at .. (top - 1) : \E g \in fr : g.at <= x /\ x < Top(g)}

FreeAfterInsert(fr, cur, b) ==
    LET m == Merged(fr, b)
        k == Apart(fr, b)
    IN  IF Top(m) = cur THEN k \ Sinking(k, m.at) ELSE k \cup {m}

(* Fault: the cursor never comes down. *)
CursorStays(fr, cur, b) == cur

CursorAfterInsert(fr, cur, b) ==
    LET m == Merged(fr, b)
        down == {m.at} \cup {f.at : f \in Sinking(Apart(fr, b), m.at)}
    IN  IF Top(m) = cur THEN CHOOSE x \in down : \A y \in down : x <= y ELSE cur

Free(b) ==
    /\ b \in live
    /\ live' = live \ {b}
    /\ free' = FreeAfterInsert(free, cursor, At(b.at, Need(b.size)))
    /\ cursor' = CursorAfterInsert(free, cursor, At(b.at, Need(b.size)))

(* realloc of a live block: the new block is allocated while the old one is  *)
(* still there, the old one is freed only when that succeeded.               *)
Realloc(b, size) ==
    /\ b \in live /\ size > 0
    /\ CanTake(size) \/ CanBump(size)
    /\ live' = (live \cup {At(Place(size), size)}) \ {b}
    /\ free' = FreeAfterInsert(FreeAfterMalloc(size), CursorAfterMalloc(size), At(b.at, Need(b.size)))
    /\ cursor' = CursorAfterInsert(FreeAfterMalloc(size), CursorAfterMalloc(size), At(b.at, Need(b.size)))

(* memalign always takes the space above the cursor; what it skips to reach  *)
(* the alignment becomes a free block.                                       *)
Memalign(alignment, size) ==
    LET start == RoundUp(cursor, IF alignment >= ALIGN THEN alignment ELSE ALIGN)
    IN  /\ size > 0
        /\ start + Need(size) <= END
        /\ free' = free \cup (IF start > cursor THEN {At(cursor, start - cursor)} ELSE {})
        /\ cursor' = start + Need(size)
        /\ live' = live \cup {At(start, size)}

(* calloc is malloc of the product (and NULL when that does not fit a size), *)
(* a malloc, calloc or memalign of nothing is NULL, and a realloc to nothing *)
(* is free.                                                                  *)
HeapNext ==
    \/ \E n \in 1 .. MaxSize : Malloc(n)
    \/ \E b \in live : Free(b)
    \/ \E b \in live, n \in 1 .. MaxSize : Realloc(b, n)
    \/ \E a \in Alignments, n \in 1 .. MaxSize : Memalign(a, n)

HeapSpec == HeapInit /\ [][HeapNext]_hvars

-----------------------------------------------------------------------------
HeapTypeOK ==
    /\ live \in SUBSET Block
    /\ free \in SUBSET Block
    /\ cursor \in Nat

InLive(b, x) == b.at <= x /\ x < LiveTop(b)
InFree(f, x) == f.at <= x /\ x < Top(f)

Inside(lv, fr, cur) ==
    /\ BASE <= cur /\ cur <= END
    /\ \A b \in lv : BASE <= b.at /\ b.at < LiveTop(b) /\ LiveTop(b) <= cur
    /\ \A f \in fr : BASE <= f.at /\ f.at < Top(f) /\ Top(f) <= cur

Separate(lv, fr) ==
    /\ \A b, c \in lv : b # c => LiveTop(b) <= c.at \/ LiveTop(c) <= b.at
    /\ \A f, g \in fr : f # g => Top(f) <= g.at \/ Top(g) <= f.at
    /\ \A b \in lv, f \in fr : LiveTop(b) <= f.at \/ Top(f) <= b.at

Covered(lv, fr, cur) ==
    \A x \in BASE .. (cur - 1) :
        (\E b \in lv : InLive(b, x)) \/ (\E f \in fr : InFree(f, x))

NoneTouch(fr, cur) ==
    /\ \A f, g \in fr : Top(f) # g.at
    /\ \A f \in fr : Top(f) # cur

(* Every byte below the cursor belongs to one block, live or free, and no    *)
(* block reaches above it: nothing is handed out twice and nothing is lost,  *)
(* whatever was split, merged, skipped for an alignment or given back.       *)
Tiled == Inside(live, free, cursor) /\ Separate(live, free) /\ Covered(live, free, cursor)

(* Free space is never fragmented by its own bookkeeping: no free block      *)
(* touches another one or the cursor.                                        *)
Coalesced == NoneTouch(free, cursor)

(* The guest sees NULL only when it must: if malloc has neither a block nor  *)
(* room above the cursor, no run of that many bytes of the arena is free of  *)
(* live blocks.                                                              *)
NullOnlyWhenFull ==
    \A n \in 1 .. MaxSize :
        ~CanTake(n) /\ ~CanBump(n) =>
            \A a \in BASE .. (END - Need(n)) :
                \E b \in live : b.at < a + Need(n) /\ a < LiveTop(b)

(* When the guest has freed everything the arena is as it was at the start.  *)
WholeWhenEmpty == live = {} => free = {} /\ cursor = BASE

AH == INSTANCE AbstractHeap

(* The allocator implements the promise made to the guest. *)
ImplementsHeap == AH!Spec
=============================================================================
