---------------------------- MODULE MemoryProofs ----------------------------
(***************************************************************************)
(* For every layout of the address space: the region list is well formed,  *)
(* disjoint and agrees with the backend, byte for byte.  For every arena,  *)
(* in the second part, the blocks of the heap tile it below the cursor,    *)
(* and free space is always coalesced.                                     *)
(***************************************************************************)
EXTENDS GuestMemory, HeapAllocator, WellFoundedInduction, TLAPS

(* Rounding down to a page moves an address back by less than a page. *)
LEMMA AlignDownBounds ==
    ASSUME NEW x \in Nat
    PROVE  AlignDown(x) \in Nat /\ AlignDown(x) <= x /\ x < AlignDown(x) + PAGE
BY LayoutAssumption, SMTT(30) DEF AlignDown

LEMMA AlignUpBounds ==
    ASSUME NEW x \in Nat
    PROVE  AlignUp(x) \in Nat /\ x <= AlignUp(x)
<1>1. x + PAGE - 1 \in Nat  BY LayoutAssumption
<1>. QED BY <1>1, AlignDownBounds, LayoutAssumption DEF AlignUp

(* Rounding up does not pass a page boundary. *)
LEMMA AlignUpMonotone ==
    ASSUME NEW x \in Nat, x <= MMAP_BASE
    PROVE  AlignUp(x) <= MMAP_BASE
<1>1. MMAP_BASE = PAGE * (MMAP_BASE \div PAGE)
  BY LayoutAssumption, SMTT(30)
<1> DEFINE q == MMAP_BASE \div PAGE
           d == (x + PAGE - 1) \div PAGE
<1>2. q \in Nat /\ d \in Nat
  BY LayoutAssumption
<1>3. d * PAGE <= x + PAGE - 1
  BY AlignDownBounds, LayoutAssumption DEF AlignDown
<1>4. d * PAGE < (q + 1) * PAGE
  <2>1. (q + 1) * PAGE = MMAP_BASE + PAGE
    BY <1>1, <1>2, LayoutAssumption
  <2>. QED BY <1>2, <1>3, <2>1, LayoutAssumption
<1>5. \A i, j \in Nat : i >= j => i * PAGE >= j * PAGE
  BY LayoutAssumption
<1>6. d <= q
  BY <1>2, <1>4, <1>5, LayoutAssumption
<1>. QED BY <1>1, <1>2, <1>5, <1>6, LayoutAssumption DEF AlignUp, AlignDown

(* Carving leaves a well-formed, disjoint list that covers what was covered *)
(* outside the carved range, with the same permissions, and nothing in it.  *)
LEMMA CarveLemma ==
    ASSUME NEW rs \in SUBSET Region, Disjoint(rs),
           NEW lo \in Nat, NEW hi \in Nat, lo <= hi, hi <= LIMIT
    PROVE  /\ Carve(rs, lo, hi) \in SUBSET Region
           /\ Disjoint(Carve(rs, lo, hi))
           /\ \A r \in Carve(rs, lo, hi) : r.end <= lo \/ r.base >= hi
           /\ \A r \in Carve(rs, lo, hi) :
                 \E q \in rs : /\ q.perms = r.perms /\ q.label = r.label
                               /\ q.base <= r.base /\ r.end <= q.end
           /\ \A q \in rs, a \in Addr : Covers(q, a) /\ (a < lo \/ a >= hi) =>
                 \E r \in Carve(rs, lo, hi) :
                    Covers(r, a) /\ r.perms = q.perms /\ r.label = q.label
<1> DEFINE hit   == Overlapping(rs, lo, hi)
           left  == {[r EXCEPT !.end  = lo] : r \in {q \in hit : q.base < lo}}
           right == {[r EXCEPT !.base = hi] : r \in {q \in hit : q.end > hi}}
<1>1. Carve(rs, lo, hi) = (rs \ hit) \cup left \cup right
  BY DEF Carve
<1>2. Carve(rs, lo, hi) \in SUBSET Region
  BY <1>1 DEF Overlapping, Region
<1>3. \A r \in Carve(rs, lo, hi) : r.end <= lo \/ r.base >= hi
  BY <1>1 DEF Overlapping, Region
<1>4. \A r \in Carve(rs, lo, hi) :
         \E q \in rs : /\ q.perms = r.perms /\ q.label = r.label
                       /\ q.base <= r.base /\ r.end <= q.end
  BY <1>1 DEF Overlapping, Region
<1>5. \A q \in rs, a \in Addr : Covers(q, a) /\ (a < lo \/ a >= hi) =>
         \E r \in Carve(rs, lo, hi) :
            Covers(r, a) /\ r.perms = q.perms /\ r.label = q.label
  <2> SUFFICES ASSUME NEW q \in rs, NEW a \in Addr, Covers(q, a), a < lo \/ a >= hi
               PROVE  \E r \in Carve(rs, lo, hi) :
                         Covers(r, a) /\ r.perms = q.perms /\ r.label = q.label
    OBVIOUS
  <2>1. CASE q \notin hit
    BY <2>1, <1>1
  <2>2. CASE q \in hit /\ a < lo
    <3>1. [q EXCEPT !.end = lo] \in left
      BY <2>2, LayoutAssumption DEF Covers, Addr, Region
    <3>2. /\ Covers([q EXCEPT !.end = lo], a)
          /\ [q EXCEPT !.end = lo].perms = q.perms /\ [q EXCEPT !.end = lo].label = q.label
      BY <2>2 DEF Covers, Region
    <3>. QED BY <3>1, <3>2, <1>1
  <2>3. CASE q \in hit /\ a >= hi
    <3>1. [q EXCEPT !.base = hi] \in right
      BY <2>3, LayoutAssumption DEF Covers, Addr, Region
    <3>2. /\ Covers([q EXCEPT !.base = hi], a)
          /\ [q EXCEPT !.base = hi].perms = q.perms /\ [q EXCEPT !.base = hi].label = q.label
      BY <2>3 DEF Covers, Region
    <3>. QED BY <3>1, <3>2, <1>1
  <2>. QED BY <2>1, <2>2, <2>3
<1>6. Disjoint(Carve(rs, lo, hi))
  <2>1. \A r \in Carve(rs, lo, hi) : r.base < r.end /\ r.end <= LIMIT
    BY <1>1, LayoutAssumption DEF Overlapping, Region, Disjoint
  <2>2. ASSUME NEW q \in Carve(rs, lo, hi), NEW r \in Carve(rs, lo, hi), q # r
        PROVE  q.end <= r.base \/ r.end <= q.base
    BY <2>2, <1>1 DEF Overlapping, Region, Disjoint
  <2>. QED BY <2>1, <2>2 DEF Disjoint
<1>. QED BY <1>2, <1>3, <1>4, <1>5, <1>6

(* What the region list and the backend must satisfy together. *)
Good(rs, b) ==
    /\ rs \in SUBSET Region
    /\ b \in [Addr -> Perms \cup {Unmapped}]
    /\ Disjoint(rs)
    /\ Agree(rs, b)

(* Unmapping a range in the backend and carving it from the list. *)
LEMMA DropLemma ==
    ASSUME NEW rs, NEW b, Good(rs, b),
           NEW lo \in Nat, NEW hi \in Nat, lo <= hi, hi <= LIMIT
    PROVE  Good(Carve(rs, lo, hi), SetPages(b, lo, hi, Unmapped))
<1> DEFINE c == SetPages(b, lo, hi, Unmapped)
<1>1. c \in [Addr -> Perms \cup {Unmapped}]
  BY DEF SetPages, Good
<1>2. Agree(Carve(rs, lo, hi), c)
  <2> SUFFICES ASSUME NEW a \in Addr
               PROVE  /\ c[a] = Unmapped => \A r \in Carve(rs, lo, hi) : ~Covers(r, a)
                      /\ c[a] # Unmapped =>
                            \E r \in Carve(rs, lo, hi) : Covers(r, a) /\ r.perms = c[a]
    BY DEF Agree
  <2>0. a \in Nat
    BY LayoutAssumption DEF Addr
  <2>1. CASE a \in Span(lo, hi)
    <3>1. c[a] = Unmapped
      BY <2>1 DEF SetPages
    <3>2. \A r \in Carve(rs, lo, hi) : ~Covers(r, a)
      BY <2>0, <2>1, CarveLemma DEF Good, Span, Covers, Region
    <3>. QED BY <3>1, <3>2
  <2>2. CASE a \notin Span(lo, hi)
    <3>1. c[a] = b[a] /\ (a < lo \/ a >= hi)
      BY <2>0, <2>2 DEF SetPages, Span
    <3>2. ASSUME b[a] = Unmapped PROVE \A r \in Carve(rs, lo, hi) : ~Covers(r, a)
      BY <2>0, <3>2, CarveLemma DEF Good, Agree, Covers, Region
    <3>3. ASSUME b[a] # Unmapped
          PROVE  \E r \in Carve(rs, lo, hi) : Covers(r, a) /\ r.perms = b[a]
      <4>1. PICK q \in rs : Covers(q, a) /\ q.perms = b[a]
        BY <3>3 DEF Good, Agree
      <4>. QED BY <3>1, <4>1, CarveLemma DEF Good
    <3>. QED BY <3>1, <3>2, <3>3
  <2>. QED BY <2>1, <2>2
<1>. QED BY <1>1, <1>2, CarveLemma DEF Good

(* _unmap_overlap discards what the regions cover; by agreement that is all *)
(* there is, so the replaced range is free and mapping over it succeeds.    *)
LEMMA OverlapIsAll ==
    ASSUME NEW rs, NEW b, Good(rs, b), NEW lo \in Nat, NEW hi \in Nat
    PROVE  UnmapOverlap(b, rs, lo, hi) = SetPages(b, lo, hi, Unmapped)
<1> SUFFICES ASSUME NEW a \in Addr
             PROVE  UnmapOverlap(b, rs, lo, hi)[a] = SetPages(b, lo, hi, Unmapped)[a]
  BY DEF UnmapOverlap, SetPages
<1>1. CASE \E r \in rs : Covers(r, a)
  BY <1>1 DEF UnmapOverlap, SetPages, Covers
<1>2. CASE \A r \in rs : ~Covers(r, a)
  <2>1. b[a] = Unmapped
    BY <1>2 DEF Good, Agree
  <2>. QED BY <1>2, <2>1 DEF UnmapOverlap, SetPages, Covers
<1>. QED BY <1>1, <1>2

(* Mapping a range in the backend and recording it as one region. *)
LEMMA RecordLemma ==
    ASSUME NEW rs, NEW b, Good(rs, b), NEW p \in Perms, NEW l \in Labels,
           NEW lo \in Nat, NEW hi \in Nat, lo < hi, hi <= LIMIT
    PROVE  Good(Record(rs, lo, hi, p, l), SetPages(b, lo, hi, p))
<1> DEFINE new == [base |-> lo, end |-> hi, perms |-> p, label |-> l]
           kept == Carve(rs, lo, hi)
           c == SetPages(b, lo, hi, p)
<1>1. Good(kept, SetPages(b, lo, hi, Unmapped))
  BY DropLemma
<1>2. new \in Region /\ Record(rs, lo, hi, p, l) = kept \cup {new}
  BY DEF Region, Record
<1>3. c \in [Addr -> Perms \cup {Unmapped}]
  BY DEF SetPages, Good
<1>4. \A r \in kept : r.end <= lo \/ r.base >= hi
  BY CarveLemma DEF Good
<1>5. Disjoint(kept \cup {new})
  BY <1>1, <1>2, <1>4 DEF Good, Disjoint, Region
<1>6. Agree(kept \cup {new}, c)
  <2> SUFFICES ASSUME NEW a \in Addr
               PROVE  /\ c[a] = Unmapped => \A r \in kept \cup {new} : ~Covers(r, a)
                      /\ c[a] # Unmapped =>
                            \E r \in kept \cup {new} : Covers(r, a) /\ r.perms = c[a]
    BY DEF Agree
  <2>1. CASE a \in Span(lo, hi)
    <3>1. c[a] = p /\ Covers(new, a) /\ new.perms = p
      BY <2>1 DEF SetPages, Span, Covers
    <3>. QED BY <3>1, LayoutAssumption
  <2>2. CASE a \notin Span(lo, hi)
    <3>1. c[a] = b[a] /\ SetPages(b, lo, hi, Unmapped)[a] = b[a] /\ ~Covers(new, a)
      BY <2>2 DEF SetPages, Span, Covers
    <3>. QED BY <1>1, <3>1 DEF Good, Agree
  <2>. QED BY <2>1, <2>2
<1>. QED BY <1>1, <1>2, <1>3, <1>5, <1>6 DEF Good

(* Reprotecting a mapped range in the backend and in the list. *)
LEMMA ProtectLemma ==
    ASSUME NEW rs, NEW b, Good(rs, b), NEW p \in Perms,
           NEW lo \in Nat, NEW hi \in Nat, lo < hi, AllMapped(b, lo, hi)
    PROVE  Good(Reprotected(rs, lo, hi, p), SetPages(b, lo, hi, p))
<1> DEFINE kept == Carve(rs, lo, hi)
           put  == Pieces(rs, lo, hi, p)
           c == SetPages(b, lo, hi, p)
<1>0. hi <= LIMIT
  BY DEF AllMapped
<1>1. Good(kept, SetPages(b, lo, hi, Unmapped))
  BY <1>0, DropLemma
<1>2. \A r \in put : /\ r \in Region /\ r.perms = p
                     /\ lo <= r.base /\ r.base < r.end /\ r.end <= hi
  <2> SUFFICES ASSUME NEW q \in rs, q.base < hi, q.end > lo
               PROVE  LET r == [base |-> Larger(q.base, lo), end |-> Smaller(q.end, hi),
                                perms |-> p, label |-> q.label]
                      IN  /\ r \in Region /\ r.perms = p
                          /\ lo <= r.base /\ r.base < r.end /\ r.end <= hi
    BY DEF Pieces, Overlapping
  <2>1. q \in Region /\ q.base < q.end
    BY DEF Good, Disjoint, Region
  <2>. QED BY <2>1 DEF Region, Larger, Smaller
<1>3. \A r \in kept : r.end <= lo \/ r.base >= hi
  BY <1>0, CarveLemma DEF Good
<1>4. \A q, r \in put : q # r => q.end <= r.base \/ r.end <= q.base
  BY DEF Pieces, Overlapping, Good, Region, Larger, Smaller, Disjoint
<1>5. Disjoint(kept \cup put)
  <2>1. \A r \in kept \cup put : r.base < r.end /\ r.end <= LIMIT
    BY <1>0, <1>1, <1>2, LayoutAssumption DEF Good, Disjoint, Region
  <2>2. \A q \in kept, r \in put : q.end <= r.base \/ r.end <= q.base
    BY <1>1, <1>2, <1>3 DEF Good, Region
  <2>. QED BY <1>1, <1>4, <2>1, <2>2 DEF Good, Disjoint
<1>6. c \in [Addr -> Perms \cup {Unmapped}]
  BY DEF SetPages, Good
<1>7. Agree(kept \cup put, c)
  <2> SUFFICES ASSUME NEW a \in Addr
               PROVE  /\ c[a] = Unmapped => \A r \in kept \cup put : ~Covers(r, a)
                      /\ c[a] # Unmapped =>
                            \E r \in kept \cup put : Covers(r, a) /\ r.perms = c[a]
    BY DEF Agree
  <2>0. a \in Nat
    BY LayoutAssumption DEF Addr
  <2>1. CASE a \in Span(lo, hi)
    <3>1. c[a] = p /\ p # Unmapped /\ b[a] # Unmapped
      BY <2>1, LayoutAssumption DEF SetPages, AllMapped
    <3>2. PICK q \in rs : Covers(q, a)
      BY <3>1 DEF Good, Agree
    <3> DEFINE r == [base |-> Larger(q.base, lo), end |-> Smaller(q.end, hi),
                     perms |-> p, label |-> q.label]
    <3>3. q \in Overlapping(rs, lo, hi)
      BY <2>0, <2>1, <3>2 DEF Overlapping, Covers, Span, Good, Region
    <3>4. r \in put
      BY <3>3 DEF Pieces
    <3>5. Covers(r, a) /\ r.perms = p
      BY <2>1, <3>2 DEF Covers, Span, Larger, Smaller
    <3>. QED BY <3>1, <3>4, <3>5
  <2>2. CASE a \notin Span(lo, hi)
    <3>1. c[a] = b[a] /\ SetPages(b, lo, hi, Unmapped)[a] = b[a]
      BY <2>2 DEF SetPages
    <3>2. \A r \in put : ~Covers(r, a)
      BY <1>2, <2>0, <2>2 DEF Covers, Span, Region
    <3>. QED BY <1>1, <3>1, <3>2 DEF Good, Agree
  <2>. QED BY <2>1, <2>2
<1>. QED BY <1>1, <1>2, <1>5, <1>6, <1>7 DEF Good, Reprotected

(* The four kinds of step a call is made of. *)
LEMMA PlaceAtStep ==
    ASSUME NEW rs, NEW b, Good(rs, b), NEW p \in Perms, NEW l \in Labels,
           NEW lo \in Nat, NEW hi \in Nat, lo < hi, hi <= LIMIT,
           PlaceAt(b, rs, lo, hi, p, l)
    PROVE  Good(regions', backend')
BY RecordLemma DEF PlaceAt

LEMMA DropStep ==
    ASSUME NEW rs, NEW b, Good(rs, b), NEW lo \in Nat, NEW hi \in Nat, lo <= hi,
           Drop(b, rs, lo, hi)
    PROVE  Good(regions', backend')
BY DropLemma DEF Drop, AllMapped

LEMMA ClearLemma ==
    ASSUME NEW rs, NEW b, Good(rs, b), NEW lo \in Nat, NEW hi \in Nat, lo <= hi, hi <= LIMIT
    PROVE  /\ Good(Carve(rs, lo, hi), UnmapOverlap(b, rs, lo, hi))
           /\ AllFree(UnmapOverlap(b, rs, lo, hi), lo, hi)
<1>1. UnmapOverlap(b, rs, lo, hi) = SetPages(b, lo, hi, Unmapped)
  BY OverlapIsAll
<1>2. Good(Carve(rs, lo, hi), SetPages(b, lo, hi, Unmapped))
  BY DropLemma
<1>3. AllFree(SetPages(b, lo, hi, Unmapped), lo, hi)
  BY DEF AllFree, SetPages, Span
<1>. QED BY <1>1, <1>2, <1>3

LEMMA CopyAndDropStep ==
    ASSUME NEW rs, NEW b, Good(rs, b), NEW old \in Nat, NEW n \in Nat, n > 0, NEW d \in BOOLEAN,
           CopyAndDrop(b, rs, old, n, d)
    PROVE  Good(regions', backend')
<1>1. /\ AlignDown(old) \in Nat /\ TouchedEnd(old, AlignUp(n)) \in Nat
      /\ AlignDown(old) <= TouchedEnd(old, AlignUp(n))
  BY AlignDownBounds, AlignUpBounds DEF TouchedEnd
<1>. QED BY <1>1, DropStep DEF CopyAndDrop

(* The bytes that protect and unmap touch begin before they end. *)
LEMMA TouchedBounds ==
    ASSUME NEW a \in Nat, NEW n \in Nat, n > 0
    PROVE  /\ AlignDown(a) \in Nat /\ TouchedEnd(a, n) \in Nat
           /\ AlignDown(a) < TouchedEnd(a, n)
BY AlignDownBounds, AlignUpBounds DEF TouchedEnd

-----------------------------------------------------------------------------
(* The inductive invariant: the list and the backend are good together and   *)
(* the cursors are inside their arenas, which mmap and brk rely on to map    *)
(* below LIMIT.                                                              *)
IInv ==
    /\ Good(regions, backend)
    /\ {heap, heapMappedEnd, mmapTop, lib} \subseteq Nat
    /\ CursorsInBounds

(* A set of naturals that is not empty has a least member. *)
LEMMA LeastMember ==
    ASSUME NEW S \in SUBSET Nat, S # {}
    PROVE  \E x \in S : \A y \in S : x <= y
<1>1. PICK x \in S : \A y \in S : ~(<<y, x>> \in OpToRel(<, Nat))
  BY NatLessThanWellFounded, WFMin
<1>2. \A y \in S : ~(y < x)
  BY <1>1 DEF OpToRel
<1>. QED BY <1>2

(* Where mmap places a request of `need` bytes, and where it leaves the bump *)
(* cursor: inside the arena.                                                 *)
LEMMA MmapPlacement ==
    ASSUME IInv, NEW need \in Nat, need > 0, ~ArenaFull(need)
    PROVE  /\ MmapBase(need) \in Nat /\ MmapNext(need) \in Nat
           /\ MMAP_BASE <= MmapBase(need) /\ MmapBase(need) + need <= MmapNext(need)
           /\ mmapTop <= MmapNext(need) /\ MmapNext(need) <= LIB_BASE
<1>. USE LayoutAssumption
<1>1. CASE Holes(need) = {}
  BY <1>1 DEF IInv, CursorsInBounds, MmapBase, MmapNext, ArenaFull
<1>2. CASE Holes(need) # {}
  <2>1. \A h \in Holes(need) : h \in Nat /\ MMAP_BASE <= h /\ h + need <= mmapTop
    BY DEF IInv, Good, Disjoint, CursorsInBounds, Holes, Arena, Region
  <2>2. Holes(need) \in SUBSET Nat
    BY <2>1
  <2>3. \E h \in Holes(need) : \A g \in Holes(need) : h <= g
    BY <1>2, <2>2, LeastMember
  <2>4. FirstHole(need) \in Holes(need)
    BY <2>3 DEF FirstHole
  <2>. QED BY <1>2, <2>1, <2>4 DEF IInv, CursorsInBounds, MmapBase, MmapNext
<1>. QED BY <1>1, <1>2

(* Every call preserves the invariant. *)
LEMMA StepPreserves ==
    ASSUME IInv, [Next]_vars
    PROVE  IInv'
<1>. USE LayoutAssumption
<1> DEFINE sizes(n) == n \in Nat /\ n > 0 /\ AlignUp(n) \in Nat /\ AlignUp(n) > 0
<1>0. /\ \A n \in Requests : sizes(n)
      /\ \A a \in Targets : a \in Nat
      /\ Good(regions, backend)
  <2>1. \A n \in Requests : n \in Nat /\ n > 0
    OBVIOUS
  <2>2. \A n \in Requests : AlignUp(n) \in Nat /\ n <= AlignUp(n)
    BY <2>1, AlignUpBounds
  <2>3. \A n \in Requests : AlignUp(n) > 0
    BY <2>1, <2>2
  <2>4. \A n \in Requests : sizes(n)
    BY <2>1, <2>2, <2>3
  <2>5. \A a \in Targets : a \in Nat
    OBVIOUS
  <2>6. Good(regions, backend)
    BY DEF IInv
  <2>. QED BY <2>4, <2>5, <2>6
<1>. SUFFICES /\ Good(regions', backend')
              /\ {heap', heapMappedEnd', mmapTop', lib'} \subseteq Nat
              /\ CursorsInBounds'
  BY DEF IInv, Good, Disjoint, Agree, CursorsInBounds, Covers
<1>. HIDE DEF sizes
<1>1. ASSUME NEW a \in Targets, NEW n \in Requests, NEW p \in Perms, Map(a, n, p, "lib")
      PROVE  Good(regions', backend') /\ UNCHANGED cursors
  <2>1. /\ a \in Nat /\ a + AlignUp(n) \in Nat
        /\ a < a + AlignUp(n) /\ a + AlignUp(n) <= LIMIT
    BY <1>0, <1>1 DEF Map, sizes
  <2>2. PlaceAt(backend, regions, a, a + AlignUp(n), p, "lib") /\ "lib" \in Labels
    BY <1>1 DEF Map, Labels
  <2>. QED BY <1>0, <1>1, <2>1, <2>2, PlaceAtStep DEF Map
<1>2. ASSUME NEW a \in Targets, NEW n \in Requests, NEW p \in Perms, MapFixed(a, n, p, "fixed")
      PROVE  Good(regions', backend') /\ UNCHANGED cursors
  <2> DEFINE hi == a + AlignUp(n)
             c  == UnmapOverlap(backend, regions, a, hi)
  <2>1. a \in Nat /\ hi \in Nat /\ a < hi /\ hi <= LIMIT
    BY <1>0, <1>2 DEF MapFixed, sizes
  <2>2. Good(Carve(regions, a, hi), c) /\ AllFree(c, a, hi)
    <3>1. a <= hi
      BY <2>1
    <3>. QED BY <1>0, <2>1, <3>1, ClearLemma
  <2>3. PlaceAt(c, Carve(regions, a, hi), a, hi, p, "fixed")
    BY <1>2, <2>2 DEF MapFixed
  <2>4. "fixed" \in Labels
    BY DEF Labels
  <2>. QED BY <1>2, <2>1, <2>2, <2>3, <2>4, PlaceAtStep DEF MapFixed
<1>3. ASSUME NEW a \in Targets, NEW n \in Requests, NEW p \in Perms, Protect(a, n, p)
      PROVE  Good(regions', backend') /\ UNCHANGED cursors
  BY <1>0, <1>3, TouchedBounds, ProtectLemma DEF Protect, sizes
<1>4. ASSUME NEW a \in Nat, NEW n \in Nat, n > 0, Unmap(a, n)
      PROVE  Good(regions', backend') /\ UNCHANGED cursors
  BY <1>0, <1>4, TouchedBounds, DropStep DEF Unmap
<1>5. ASSUME NEW n \in Requests, NEW p \in Perms, Mmap(n, p)
      PROVE  /\ Good(regions', backend')
             /\ mmapTop' = MmapNext(AlignUp(n)) /\ ~ArenaFull(AlignUp(n))
             /\ UNCHANGED <<heap, heapMappedEnd, lib>>
  <2>1. AlignUp(n) \in Nat /\ AlignUp(n) > 0 /\ ~ArenaFull(AlignUp(n))
    BY <1>0, <1>5 DEF Mmap, sizes
  <2>2. /\ MmapBase(AlignUp(n)) \in Nat
        /\ MmapBase(AlignUp(n)) + AlignUp(n) <= LIMIT
    BY <2>1, MmapPlacement
  <2>3. "mmap" \in Labels
    BY DEF Labels
  <2>. QED BY <1>0, <1>5, <2>1, <2>2, <2>3, PlaceAtStep DEF Mmap
<1>6. ASSUME NEW a \in Addr \cup {MMAP_BASE}, Brk(a)
      PROVE  /\ Good(regions', backend')
             /\ heap' = a /\ heapMappedEnd' = AlignUp(a)
             /\ HEAP_BASE <= a /\ a <= MMAP_BASE
             /\ UNCHANGED <<mmapTop, lib>>
  <2>1. a \in Nat /\ AlignUp(a) \in Nat /\ a <= MMAP_BASE
    BY <1>6, AlignUpBounds DEF Brk, Addr
  <2>2. AlignUp(a) <= LIMIT
    BY <2>1, AlignUpMonotone
  <2>3. heapMappedEnd \in Nat /\ heapMappedEnd <= LIMIT
    BY DEF IInv, CursorsInBounds
  <2>4. "heap" \in Labels
    BY DEF Labels
  <2>5. CASE AlignUp(a) > heapMappedEnd
    BY <1>0, <1>6, <2>1, <2>2, <2>3, <2>4, <2>5, PlaceAtStep DEF Brk
  <2>6. CASE AlignUp(a) < heapMappedEnd
    BY <1>0, <1>6, <2>1, <2>3, <2>6, DropStep DEF Brk
  <2>7. CASE AlignUp(a) = heapMappedEnd
    BY <1>0, <1>6, <2>1, <2>3, <2>7 DEF Brk
  <2>. QED BY <1>6, <2>1, <2>3, <2>5, <2>6, <2>7 DEF Brk
<1>7. ASSUME NEW n \in Requests, NEW k \in {1, 2}, ReserveLib(n, k * PAGE)
      PROVE  /\ lib' \in Nat /\ lib <= lib' /\ lib' <= RETURN_SENTINEL
             /\ UNCHANGED <<regions, backend, heap, heapMappedEnd, mmapTop>>
  <2>1. \A al \in Nat \ {0} : /\ ((lib + al - 1) \div al) * al \in Nat
                              /\ lib <= ((lib + al - 1) \div al) * al
    BY SMTT(30) DEF IInv
  <2>2. k * PAGE \in Nat \ {0}
    OBVIOUS
  <2> DEFINE base == ((lib + k * PAGE - 1) \div (k * PAGE)) * (k * PAGE)
  <2>3. base \in Nat /\ lib <= base
    BY <2>1, <2>2
  <2>4. lib' = base + AlignUp(n) + PAGE /\ lib' <= RETURN_SENTINEL
    BY <1>7 DEF ReserveLib
  <2>5. lib \in Nat /\ AlignUp(n) \in Nat
    BY <1>0 DEF IInv, sizes
  <2>. HIDE DEF base
  <2>. QED BY <1>7, <2>3, <2>4, <2>5 DEF ReserveLib
<1>8. ASSUME NEW a \in Targets, NEW m \in Requests, NEW n \in Requests, MremapShrink(a, m, n)
      PROVE  Good(regions', backend') /\ UNCHANGED cursors
  <2>1. /\ a + AlignUp(n) \in Nat /\ AlignUp(m) - AlignUp(n) \in Nat
        /\ AlignUp(m) - AlignUp(n) > 0
    BY <1>0, <1>8 DEF MremapShrink, sizes
  <2>. QED BY <1>4, <1>8, <2>1 DEF MremapShrink
<1>9. ASSUME NEW a \in Targets, NEW m \in Requests, NEW n \in Requests, NEW d \in BOOLEAN,
             MremapMove(a, m, n, d)
      PROVE  /\ Good(regions', backend')
             /\ mmapTop' = MmapNext(AlignUp(n)) /\ ~ArenaFull(AlignUp(n))
             /\ UNCHANGED <<heap, heapMappedEnd, lib>>
  <2> DEFINE need == AlignUp(n)
             base == MmapBase(need)
             b    == SetPages(backend, base, base + need, RW)
             rs   == Record(regions, base, base + need, RW, "mmap")
  <2>1. need \in Nat /\ need > 0 /\ ~ArenaFull(need) /\ a \in Nat /\ m \in Nat /\ m > 0
    BY <1>0, <1>9 DEF MremapMove, sizes
  <2>2. base \in Nat /\ base + need <= LIMIT
    BY <2>1, MmapPlacement
  <2>3. "mmap" \in Labels
    BY DEF Labels
  <2>4. Good(rs, b)
    BY <1>0, <2>1, <2>2, <2>3, RecordLemma
  <2>5. CopyAndDrop(b, rs, a, m, d) \/ UNCHANGED <<regions, backend>>
    BY <1>9 DEF MremapMove
  <2>6. Good(regions', backend')
    BY <1>0, <2>1, <2>4, <2>5, CopyAndDropStep
  <2>. QED BY <1>9, <2>1, <2>6 DEF MremapMove
<1>10. ASSUME NEW a \in Targets, NEW c \in Targets, NEW m \in Requests, NEW n \in Requests,
              NEW d \in BOOLEAN, MremapFixed(a, m, n, c, d)
       PROVE  Good(regions', backend') /\ UNCHANGED cursors
  <2> DEFINE hi  == c + AlignUp(n)
             clr == UnmapOverlap(backend, regions, c, hi)
             b   == SetPages(clr, c, hi, RW)
             rs  == Record(Carve(regions, c, hi), c, hi, RW, "fixed")
  <2>1. /\ a \in Nat /\ m \in Nat /\ m > 0
        /\ c \in Nat /\ hi \in Nat /\ c < hi /\ hi <= LIMIT
    BY <1>0, <1>10 DEF MremapFixed, sizes
  <2>2. Good(Carve(regions, c, hi), clr) /\ AllFree(clr, c, hi)
    <3>1. c <= hi
      BY <2>1
    <3>. QED BY <1>0, <2>1, <3>1, ClearLemma
  <2>3. "fixed" \in Labels
    BY DEF Labels
  <2>4. Good(rs, b)
    BY <2>1, <2>2, <2>3, RecordLemma
  <2>5. CopyAndDrop(b, rs, a, m, d)
    BY <1>10, <2>2 DEF MremapFixed
  <2>. QED BY <1>10, <2>1, <2>4, <2>5, CopyAndDropStep DEF MremapFixed
<1>11. ASSUME UNCHANGED cursors
       PROVE  {heap', heapMappedEnd', mmapTop', lib'} \subseteq Nat /\ CursorsInBounds'
  BY <1>11 DEF IInv, CursorsInBounds, cursors
<1>12. ASSUME NEW n \in Requests, mmapTop' = MmapNext(AlignUp(n)), ~ArenaFull(AlignUp(n)),
              UNCHANGED <<heap, heapMappedEnd, lib>>
       PROVE  {heap', heapMappedEnd', mmapTop', lib'} \subseteq Nat /\ CursorsInBounds'
  BY <1>0, <1>12, MmapPlacement DEF IInv, CursorsInBounds, sizes
<1>13. ASSUME NEW a \in Nat, a <= MMAP_BASE PROVE AlignUp(a) \in Nat /\ AlignUp(a) <= MMAP_BASE
  BY <1>13, AlignUpBounds, AlignUpMonotone
<1>14. CASE UNCHANGED vars
  BY <1>0, <1>11, <1>14 DEF vars, cursors
<1>15. CASE \E a \in Targets, n \in Requests, p \in Perms : Map(a, n, p, "lib")
  BY <1>1, <1>11, <1>15
<1>16. CASE \E a \in Targets, n \in Requests, p \in Perms : MapFixed(a, n, p, "fixed")
  BY <1>2, <1>11, <1>16
<1>17. CASE \E a \in Targets, n \in Requests, p \in Perms : Protect(a, n, p)
  BY <1>3, <1>11, <1>17
<1>18. CASE \E a \in Targets, n \in Requests : Unmap(a, n)
  BY <1>0, <1>4, <1>11, <1>18 DEF sizes
<1>19. CASE \E n \in Requests, p \in Perms : Mmap(n, p)
  BY <1>5, <1>12, <1>19
<1>20. CASE \E a \in Addr \cup {MMAP_BASE} : Brk(a)
  <2>1. PICK a \in Addr \cup {MMAP_BASE} : Brk(a)
    BY <1>20
  <2>2. a \in Nat /\ HEAP_BASE <= a /\ a <= MMAP_BASE
    BY <1>6, <2>1 DEF Addr
  <2>. QED BY <1>6, <1>13, <2>1, <2>2 DEF IInv, CursorsInBounds
<1>21. CASE \E n \in Requests, k \in {1, 2} : ReserveLib(n, k * PAGE)
  BY <1>0, <1>7, <1>21 DEF IInv, CursorsInBounds
<1>22. CASE \E a \in Targets, m, n \in Requests : MremapShrink(a, m, n)
  BY <1>8, <1>11, <1>22
<1>23. CASE \E a \in Targets, m, n \in Requests, d \in BOOLEAN : MremapMove(a, m, n, d)
  BY <1>9, <1>12, <1>23
<1>24. CASE \E a, c \in Targets, m, n \in Requests, d \in BOOLEAN : MremapFixed(a, m, n, c, d)
  BY <1>10, <1>11, <1>24
<1>. QED
  BY <1>14, <1>15, <1>16, <1>17, <1>18, <1>19, <1>20, <1>21, <1>22, <1>23, <1>24 DEF Next

LEMMA InitGood == Init => IInv
<1>. SUFFICES ASSUME Init PROVE IInv
  OBVIOUS
<1>. USE LayoutAssumption DEF Init
<1>1. Good(regions, backend)
  BY DEF Good, Disjoint, Agree
<1>2. AlignUp(HEAP_BASE) = HEAP_BASE
  <2>1. \A x \in Nat : x % PAGE = 0 => x = PAGE * (x \div PAGE)
    BY SMTT(30)
  <2>2. HEAP_BASE = PAGE * (HEAP_BASE \div PAGE)
    BY <2>1
  <2> DEFINE q == HEAP_BASE \div PAGE
             d == (HEAP_BASE + PAGE - 1) \div PAGE
  <2>3. q \in Nat /\ d \in Nat
    OBVIOUS
  <2>4. \A i, j \in Nat : i > j => i * PAGE >= j * PAGE + PAGE
    OBVIOUS
  <2>5. d * PAGE <= HEAP_BASE + PAGE - 1 /\ HEAP_BASE <= d * PAGE
    BY AlignUpBounds, AlignDownBounds DEF AlignUp, AlignDown
  <2>6. ~(d > q) /\ ~(q > d)
    BY <2>2, <2>3, <2>4, <2>5
  <2>. QED BY <2>2, <2>3, <2>6 DEF AlignUp, AlignDown
<1>. QED BY <1>1, <1>2 DEF IInv, CursorsInBounds

(* A hole that the search finds is free, for every history of calls: the     *)
(* regions before the boundary end where the hole begins, those after begin  *)
(* behind it, and one based below the arena would straddle its start.        *)
LEMMA HoleLemma ==
    ASSUME IInv
    PROVE  HoleIsFree
<1>. USE LayoutAssumption
<1>. SUFFICES ASSUME NEW n \in Requests, Holes(AlignUp(n)) # {}, ~Straddler
              PROVE  /\ FirstHole(AlignUp(n)) + AlignUp(n) <= mmapTop
                     /\ AllFree(backend, FirstHole(AlignUp(n)), FirstHole(AlignUp(n)) + AlignUp(n))
  BY DEF HoleIsFree
<1> DEFINE need == AlignUp(n)
           h    == FirstHole(need)
<1>1. need \in Nat
  BY AlignUpBounds
<1>2. \A g \in Holes(need) : g \in Nat
  BY DEF IInv, Good, Holes, Arena, Region
<1>3. h \in Holes(need)
  <2>1. Holes(need) \in SUBSET Nat
    BY <1>2
  <2>2. \E x \in Holes(need) : \A y \in Holes(need) : x <= y
    BY <2>1, LeastMember
  <2>. QED BY <2>2 DEF FirstHole
<1>. HIDE DEF need, h
<1>4. PICK b \in {r.base : r \in Arena} \cup {mmapTop} : IsGap(h, b) /\ b - h >= need
  BY <1>3 DEF Holes
<1>5. h \in Nat /\ MMAP_BASE <= h /\ b \in Nat /\ b <= mmapTop /\ h + need <= b
  BY <1>1, <1>2, <1>3, <1>4 DEF IInv, Good, Disjoint, CursorsInBounds, Holes, Arena, Region
<1>6. ASSUME NEW a \in Span(h, h + need)
      PROVE  backend[a] = Unmapped
  <2>1. a \in Nat /\ h <= a /\ a < b
    BY <1>1, <1>5 DEF Span, Addr
  <2>2. ASSUME NEW r \in regions, Covers(r, a) PROVE FALSE
    <3>1. r.base \in Nat /\ r.end \in Nat /\ r.base <= a /\ a < r.end
      BY <2>2 DEF IInv, Good, Covers, Region
    <3>2. CASE r.base < MMAP_BASE
      BY <1>5, <2>1, <3>1, <3>2 DEF Straddler
    <3>3. CASE r.base >= MMAP_BASE
      <4>1. r \in Arena /\ r.base < b
        BY <1>5, <2>1, <3>1, <3>3 DEF Arena, IInv
      <4>. QED BY <1>4, <1>5, <2>1, <3>1, <4>1 DEF IsGap
    <3>. QED BY <3>1, <3>2, <3>3
  <2>. QED BY <2>2 DEF IInv, Good, Agree, Span
<1>. QED BY <1>1, <1>5, <1>6 DEF AllFree, IInv, need, h

(* A hole is refused only at the start of the arena, and only because of a   *)
(* mapping that straddles it: the others begin where a region of the arena   *)
(* ends, and what straddles the start ends before any of these.              *)
LEMMA RefusedHole ==
    ASSUME IInv, NEW need \in Nat, need > 0, Refused(need), Holes(need) # {}
    PROVE  MmapBase(need) = MMAP_BASE /\ MMAP_BASE \in Holes(need) /\ Straddler
<1>. USE LayoutAssumption
<1> DEFINE h == FirstHole(need)
<1>1. h \in Holes(need) /\ h \in Nat /\ h = MmapBase(need)
  <2>1. Holes(need) \in SUBSET Nat
    BY DEF IInv, Good, Holes, Arena, Region
  <2>2. \E x \in Holes(need) : \A y \in Holes(need) : x <= y
    BY <2>1, LeastMember
  <2>. QED BY <2>1, <2>2 DEF FirstHole, MmapBase
<1>. HIDE DEF h
<1>2. PICK b \in {r.base : r \in Arena} \cup {mmapTop} : IsGap(h, b) /\ b - h >= need
  BY <1>1 DEF Holes
<1>3. MMAP_BASE \in Nat /\ MMAP_BASE <= h /\ b \in Nat /\ b <= mmapTop /\ h + need <= b
  BY <1>1, <1>2 DEF IInv, Good, Disjoint, CursorsInBounds, Holes, Arena, Region
<1>4. PICK a \in Span(h, h + need) : backend[a] # Unmapped
  BY <1>1 DEF Refused, AllFree
<1>5. a \in Nat /\ h <= a /\ a < b
  BY <1>1, <1>3, <1>4 DEF Span, Addr
<1>6. PICK r \in regions : Covers(r, a)
  BY <1>4 DEF IInv, Good, Agree, Span
<1>7. r.base \in Nat /\ r.end \in Nat /\ r.base <= a /\ a < r.end
  BY <1>6 DEF IInv, Good, Covers, Region
<1>8. r.base < MMAP_BASE
  <2>1. ASSUME r.base >= MMAP_BASE PROVE FALSE
    <3>1. r \in Arena /\ r.base < b
      BY <1>3, <1>5, <1>7, <2>1 DEF Arena, IInv
    <3>. QED BY <1>1, <1>2, <1>5, <1>7, <3>1 DEF IsGap
  <2>. QED BY <1>7, <2>1
<1>9. r.end > MMAP_BASE
  BY ONLY <1>1, <1>3, <1>5, <1>7
<1>10. h = MMAP_BASE
  <2>1. ASSUME NEW q \in Arena, q.end = h PROVE FALSE
    <3>1. q \in regions /\ q # r /\ q.base \in Nat /\ q.base >= MMAP_BASE /\ q.base < q.end
      BY <1>8, <2>1 DEF Arena, IInv, Good, Disjoint, Region
    <3>2. q.end <= r.base \/ r.end <= q.base
      BY <3>1 DEF IInv, Good, Disjoint
    <3>. QED BY <1>1, <1>5, <1>7, <1>8, <2>1, <3>1, <3>2
  <2>. QED BY <1>2, <2>1 DEF IsGap
<1>. QED BY <1>1, <1>8, <1>9, <1>10 DEF Straddler

LEMMA StraddledHole ==
    ASSUME IInv, NEW need \in Nat, need > 0, Straddler, MMAP_BASE \in Holes(need)
    PROVE  Refused(need) /\ MmapNext(need) = mmapTop
<1>. USE LayoutAssumption
<1>1. \A g \in Holes(need) : g \in Nat /\ MMAP_BASE <= g
  BY DEF IInv, Good, Disjoint, Holes, Arena, Region
<1>2. MmapBase(need) = MMAP_BASE
  <2>1. FirstHole(need) \in Holes(need) /\ \A g \in Holes(need) : FirstHole(need) <= g
    BY <1>1 DEF FirstHole
  <2>. QED BY <1>1, <2>1 DEF MmapBase
<1>3. PICK r \in regions : r.base < MMAP_BASE /\ r.end > MMAP_BASE
  BY DEF Straddler
<1>4. r.base \in Nat /\ r.end \in Nat /\ r.end <= LIMIT
  BY <1>3 DEF IInv, Good, Disjoint, Region
<1>5. MMAP_BASE \in Span(MMAP_BASE, MMAP_BASE + need) /\ Covers(r, MMAP_BASE)
  BY <1>3, <1>4 DEF Span, Addr, Covers
<1>6. backend[MMAP_BASE] # Unmapped
  BY <1>3, <1>5 DEF IInv, Good, Agree, Span
<1>. QED BY <1>2, <1>5, <1>6 DEF Refused, ArenaFull, AllFree, MmapNext

(* For every layout, every set of requests and every history of calls, the   *)
(* state is well typed.                                                      *)
THEOREM TypeCorrect == Spec => []TypeOK
<1>1. IInv => TypeOK
  BY DEF IInv, Good, TypeOK
<1>. QED BY <1>1, InitGood, StepPreserves, PTL DEF Spec

(* ... no two regions share an address and none is empty.                    *)
THEOREM RegionsAreDisjoint == Spec => []RegionsDisjoint
<1>1. IInv => RegionsDisjoint
  BY DEF IInv, Good, RegionsDisjoint
<1>. QED BY <1>1, InitGood, StepPreserves, PTL DEF Spec

(* ... the region list tells of every byte what the backend has mapped there. *)
THEOREM ListMatchesBackend == Spec => []RegionsMatchBackend
<1>1. IInv => RegionsMatchBackend
  BY DEF IInv, Good, RegionsMatchBackend
<1>. QED BY <1>1, InitGood, StepPreserves, PTL DEF Spec

(* ... the break and the bump cursors stay in their areas.                   *)
THEOREM CursorsStayInBounds == Spec => []CursorsInBounds
<1>1. IInv => CursorsInBounds
  BY DEF IInv
<1>. QED BY <1>1, InitGood, StepPreserves, PTL DEF Spec

(* ... and a hole that mmap finds is free, unless a mapping straddles the    *)
(* start of the arena.                                                       *)
THEOREM HolesAreFree == Spec => []HoleIsFree
<1>. QED BY HoleLemma, InitGood, StepPreserves, PTL DEF Spec

(* ... and the cursors stay in their areas, and an mmap that raises is to be *)
(* repeated at the same place exactly when a mapping straddles the start of  *)
(* the arena and covers the hole that the search offers there: by the        *)
(* theorem before, any other request that collides was placed at the bump    *)
(* cursor, and the cursor has moved past it.                                 *)
THEOREM CursorsAlwaysMoveOn == Spec => []CursorsMoveOn
<1>1. ASSUME IInv PROVE CursorsMoveOn
  <2>. SUFFICES ASSUME NEW n \in Requests
                PROVE  /\ Refused(AlignUp(n)) /\ MmapNext(AlignUp(n)) = mmapTop
                             <=> Straddler /\ MMAP_BASE \in Holes(AlignUp(n))
                       /\ Refused(AlignUp(n)) => MmapBase(AlignUp(n)) \in {MMAP_BASE, mmapTop}
    BY <1>1 DEF CursorsMoveOn, WedgedOnlyByStraddler, IInv
  <2> DEFINE need == AlignUp(n)
  <2>. USE LayoutAssumption
  <2>1. need \in Nat /\ need > 0 /\ mmapTop \in Nat /\ MMAP_BASE \in Nat
    <3>1. n \in Nat /\ n > 0
      OBVIOUS
    <3>. QED BY <1>1, <3>1, AlignUpBounds DEF IInv
  <2>2. ASSUME Refused(need), Holes(need) # {}
        PROVE  MmapBase(need) = MMAP_BASE /\ MMAP_BASE \in Holes(need) /\ Straddler
    BY <1>1, <2>1, <2>2, RefusedHole DEF need
  <2>3. ASSUME Straddler, MMAP_BASE \in Holes(need)
        PROVE  Refused(need) /\ MmapNext(need) = mmapTop
    BY <1>1, <2>1, <2>3, StraddledHole DEF need
  <2>4. ASSUME Refused(need), Holes(need) = {}
        PROVE  MmapBase(need) = mmapTop /\ MmapNext(need) # mmapTop
    BY <2>1, <2>4 DEF MmapBase, MmapNext
  <2>. QED BY <2>2, <2>3, <2>4
<1>. QED BY <1>1, InitGood, StepPreserves, PTL DEF Spec

-----------------------------------------------------------------------------
(* What the guest sees of a region list. *)
Look(rs) == [a \in Page |->
                IF \E r \in rs : Covers(r, a)
                THEN LET r == CHOOSE q \in rs : Covers(q, a)
                     IN  [perms |-> r.perms, label |-> r.label]
                ELSE Unmapped]

Facts(r) == [perms |-> r.perms, label |-> r.label]

(* In a disjoint list it is what the one region that covers the page says.   *)
LEMMA LookAt ==
    ASSUME NEW rs \in SUBSET Region, Disjoint(rs), NEW a \in Page
    PROVE  /\ \A r \in rs : Covers(r, a) => Look(rs)[a] = Facts(r)
           /\ (\A r \in rs : ~Covers(r, a)) => Look(rs)[a] = Unmapped
<1>1. ASSUME NEW r \in rs, Covers(r, a) PROVE Look(rs)[a] = Facts(r)
  <2>1. \A q \in rs : Covers(q, a) => q = r
    <3>1. a \in Nat
      BY LayoutAssumption DEF Page, Addr
    <3>. QED BY <1>1, <3>1 DEF Disjoint, Covers, Region
  <2>2. r = CHOOSE q \in rs : Covers(q, a)
    BY <1>1, <2>1
  <2>. QED BY <1>1, <2>2 DEF Look, Facts
<1>. QED BY <1>1 DEF Look

LEMMA CarveLook ==
    ASSUME NEW rs \in SUBSET Region, Disjoint(rs),
           NEW lo \in Nat, NEW hi \in Nat, lo <= hi, hi <= LIMIT
    PROVE  Look(Carve(rs, lo, hi))
               = [a \in Page |-> IF a \in Span(lo, hi) THEN Unmapped ELSE Look(rs)[a]]
<1> DEFINE kept == Carve(rs, lo, hi)
<1>1. /\ kept \in SUBSET Region /\ Disjoint(kept)
      /\ \A r \in kept : r.end <= lo \/ r.base >= hi
      /\ \A r \in kept : \E q \in rs : q.base <= r.base /\ r.end <= q.end
      /\ \A q \in rs, a \in Addr : Covers(q, a) /\ (a < lo \/ a >= hi) =>
            \E r \in kept : Covers(r, a) /\ r.perms = q.perms /\ r.label = q.label
  BY CarveLemma
<1>. HIDE DEF kept
<1>2. SUFFICES ASSUME NEW a \in Page
               PROVE  Look(kept)[a] = IF a \in Span(lo, hi) THEN Unmapped ELSE Look(rs)[a]
  BY DEF Look, kept
<1>3. a \in Addr /\ a \in Nat
  BY LayoutAssumption DEF Page, Addr
<1>4. CASE a \in Span(lo, hi)
  <2>1. \A r \in kept : ~Covers(r, a)
    BY <1>1, <1>3, <1>4 DEF Span, Covers, Region
  <2>. QED BY <1>1, <1>4, <2>1, LookAt
<1>5. CASE a \notin Span(lo, hi) /\ \E q \in rs : Covers(q, a)
  <2>1. PICK q \in rs : Covers(q, a)
    BY <1>5
  <2>2. a < lo \/ a >= hi
    BY <1>3, <1>5 DEF Span
  <2>3. PICK r \in kept : Covers(r, a) /\ r.perms = q.perms /\ r.label = q.label
    BY <1>1, <1>3, <2>1, <2>2
  <2>4. Look(kept)[a] = Facts(r) /\ Look(rs)[a] = Facts(q)
    BY <1>1, <2>1, <2>3, LookAt
  <2>. QED BY <1>5, <2>3, <2>4 DEF Facts
<1>6. CASE a \notin Span(lo, hi) /\ \A q \in rs : ~Covers(q, a)
  <2>1. \A r \in kept : ~Covers(r, a)
    BY <1>1, <1>3, <1>6 DEF Covers, Region
  <2>. QED BY <1>1, <1>6, <2>1, LookAt
<1>. QED BY <1>4, <1>5, <1>6

LEMMA RecordLook ==
    ASSUME NEW rs, NEW b, Good(rs, b), NEW p \in Perms, NEW l \in Labels,
           NEW lo \in Nat, NEW hi \in Nat, lo < hi, hi <= LIMIT
    PROVE  Look(Record(rs, lo, hi, p, l))
               = [a \in Page |-> IF a \in Span(lo, hi) THEN [perms |-> p, label |-> l]
                                 ELSE Look(rs)[a]]
<1> DEFINE new  == [base |-> lo, end |-> hi, perms |-> p, label |-> l]
           kept == Carve(rs, lo, hi)
           all  == Record(rs, lo, hi, p, l)
<1>1. all \in SUBSET Region /\ Disjoint(all) /\ all = kept \cup {new}
  BY RecordLemma DEF Good, Record
<1>2. kept \in SUBSET Region /\ Disjoint(kept)
  BY CarveLemma DEF Good
<1>3. Look(kept) = [a \in Page |-> IF a \in Span(lo, hi) THEN Unmapped ELSE Look(rs)[a]]
  BY CarveLook DEF Good
<1>. HIDE DEF kept, all
<1>4. SUFFICES ASSUME NEW a \in Page
               PROVE  Look(all)[a] = IF a \in Span(lo, hi) THEN [perms |-> p, label |-> l]
                                     ELSE Look(rs)[a]
  BY DEF Look, all
<1>5. a \in Addr
  BY DEF Page
<1>6. CASE a \in Span(lo, hi)
  <2>1. Covers(new, a) /\ new \in all /\ Facts(new) = [perms |-> p, label |-> l]
    BY <1>1, <1>6 DEF Covers, Span, Facts
  <2>. QED BY <1>1, <1>6, <2>1, LookAt
<1>7. CASE a \notin Span(lo, hi)
  <2>1. ~Covers(new, a)
    BY <1>5, <1>7 DEF Covers, Span
  <2>2. Look(all)[a] = Look(kept)[a]
    <3>1. CASE \E r \in kept : Covers(r, a)
      BY <1>1, <1>2, <3>1, LookAt
    <3>2. CASE \A r \in kept : ~Covers(r, a)
      BY <1>1, <1>2, <2>1, <3>2, LookAt
    <3>. QED BY <3>1, <3>2
  <2>. QED BY <1>3, <1>7, <2>2
<1>. QED BY <1>6, <1>7

LEMMA ProtectLook ==
    ASSUME NEW rs, NEW b, Good(rs, b), NEW p \in Perms,
           NEW lo \in Nat, NEW hi \in Nat, lo < hi, AllMapped(b, lo, hi)
    PROVE  Look(Reprotected(rs, lo, hi, p))
               = [a \in Page |-> IF a \in Span(lo, hi) THEN [Look(rs)[a] EXCEPT !.perms = p]
                                 ELSE Look(rs)[a]]
<1> DEFINE kept == Carve(rs, lo, hi)
           put  == Pieces(rs, lo, hi, p)
           all  == Reprotected(rs, lo, hi, p)
<1>0. hi <= LIMIT /\ lo <= hi
  BY DEF AllMapped
<1>1. all \in SUBSET Region /\ Disjoint(all) /\ all = kept \cup put
  BY ProtectLemma DEF Good, Reprotected
<1>2. kept \in SUBSET Region /\ Disjoint(kept) /\ rs \in SUBSET Region /\ Disjoint(rs)
  BY <1>0, CarveLemma DEF Good
<1>3. Look(kept) = [a \in Page |-> IF a \in Span(lo, hi) THEN Unmapped ELSE Look(rs)[a]]
  BY <1>0, CarveLook DEF Good
<1>. HIDE DEF kept, all
<1>4. SUFFICES ASSUME NEW a \in Page
               PROVE  Look(all)[a] = IF a \in Span(lo, hi) THEN [Look(rs)[a] EXCEPT !.perms = p]
                                     ELSE Look(rs)[a]
  BY DEF Look, all
<1>5. a \in Addr /\ a \in Nat
  BY LayoutAssumption DEF Page, Addr
<1>6. CASE a \in Span(lo, hi)
  <2>1. PICK q \in rs : Covers(q, a)
    BY <1>5, <1>6 DEF AllMapped, Good, Agree
  <2> DEFINE r == [base |-> Larger(q.base, lo), end |-> Smaller(q.end, hi),
                   perms |-> p, label |-> q.label]
  <2>2. q \in Overlapping(rs, lo, hi)
    BY <1>2, <1>5, <1>6, <2>1 DEF Overlapping, Covers, Span, Region
  <2>3. r \in put
    BY <2>2 DEF Pieces
  <2>4. Covers(r, a)
    BY <1>6, <2>1 DEF Covers, Span, Larger, Smaller
  <2>5. Facts(r) = [Facts(q) EXCEPT !.perms = p]
    BY DEF Facts
  <2>6. Look(all)[a] = Facts(r) /\ Look(rs)[a] = Facts(q)
    BY <1>1, <1>2, <2>1, <2>3, <2>4, LookAt
  <2>. QED BY <1>6, <2>5, <2>6
<1>7. CASE a \notin Span(lo, hi)
  <2>1. \A r \in put : ~Covers(r, a)
    BY <1>2, <1>5, <1>7 DEF Pieces, Overlapping, Covers, Span, Larger, Smaller, Region
  <2>2. Look(all)[a] = Look(kept)[a]
    <3>1. CASE \E r \in kept : Covers(r, a)
      BY <1>1, <1>2, <3>1, LookAt
    <3>2. CASE \A r \in kept : ~Covers(r, a)
      BY <1>1, <1>2, <2>1, <3>2, LookAt
    <3>. QED BY <3>1, <3>2
  <2>. QED BY <1>3, <1>7, <2>2
<1>. QED BY <1>6, <1>7

(* The pages of a range form a run, unless there is none. *)
PagesOf(lo, hi) == {a \in Page : a \in Span(lo, hi)}

LEMMA PagesAreRun ==
    ASSUME NEW lo \in Nat, NEW hi \in Nat, PagesOf(lo, hi) # {}
    PROVE  PagesOf(lo, hi) \in AS!Runs
<1> DEFINE S == PagesOf(lo, hi)
           T == {hi - a : a \in S}
<1>1. \A a \in S : a \in Nat /\ a \in Page /\ lo <= a /\ a < hi
  BY LayoutAssumption DEF PagesOf, Span, Page, Addr
<1>2. PICK first \in S : \A a \in S : first <= a
  <2>1. S \in SUBSET Nat
    BY <1>1
  <2>. QED BY <2>1, LeastMember
<1>3. PICK last \in S : \A a \in S : a <= last
  <2>1. T \in SUBSET Nat /\ T # {}
    BY <1>1
  <2>2. PICK d \in T : \A e \in T : d <= e
    BY <2>1, LeastMember
  <2>3. PICK z \in S : d = hi - z
    BY <2>2
  <2>4. \A a \in S : hi - z <= hi - a
    BY <2>2, <2>3
  <2>5. \A a \in S : a <= z
    BY <1>1, <2>3, <2>4
  <2>. QED BY <2>3, <2>5
<1>4. \A a \in Page : a \in Nat /\ a \in Addr
  BY LayoutAssumption DEF Page, Addr
<1>5. S = {a \in Page : first <= a /\ a <= last}
  <2>1. ASSUME NEW a \in Page, first <= a, a <= last PROVE a \in S
    BY <1>1, <1>2, <1>3, <1>4, <2>1 DEF PagesOf, Span
  <2>. QED BY <1>1, <1>2, <1>3, <2>1
<1>6. first \in Page /\ last \in Page
  BY <1>1
<1>. HIDE DEF S
<1>7. S \in AS!Runs
  BY <1>5, <1>6 DEF AS!Runs
<1>. QED BY <1>7 DEF S

(* A page that the backend has mapped is not a hole in the guest's view.     *)
LEMMA MappedPages ==
    ASSUME NEW rs, NEW b, Good(rs, b), NEW lo \in Nat, NEW hi \in Nat, AllMapped(b, lo, hi),
           NEW a \in PagesOf(lo, hi)
    PROVE  Look(rs)[a] # Unmapped
<1>1. a \in Page /\ a \in Addr /\ a \in Span(lo, hi)
  BY DEF PagesOf, Page
<1>2. PICK q \in rs : Covers(q, a)
  BY <1>1 DEF AllMapped, Good, Agree
<1>3. Look(rs)[a] = Facts(q)
  BY <1>1, <1>2, LookAt DEF Good
<1>4. Facts(q) \in [perms : Perms, label : Labels]
  BY DEF Good, Region, Facts
<1>. QED BY <1>3, <1>4, UnmappedAssumption

LEMMA ViewIsLook == View = Look(regions) /\ View' = Look(regions')
BY DEF View, Look, Covers

LEMMA LookDomain ==
    ASSUME NEW rs
    PROVE  Look(rs) = [a \in Page |-> Look(rs)[a]]
BY DEF Look

(* The four kinds of step, seen by the guest. *)
LEMMA PlaceRefines ==
    ASSUME NEW lo \in Nat, NEW hi \in Nat, NEW p \in Perms, NEW l \in Labels,
           View' = [a \in Page |-> IF a \in Span(lo, hi) THEN [perms |-> p, label |-> l]
                                   ELSE View[a]]
    PROVE  AS!Next \/ View' = View
<1> DEFINE S == PagesOf(lo, hi)
           m == [perms |-> p, label |-> l]
<1>1. View' = [a \in Page |-> IF a \in S THEN m ELSE View[a]]
  BY DEF PagesOf
<1>2. CASE S = {}
  BY <1>1, <1>2, ViewIsLook, LookDomain
<1>3. CASE S # {}
  <2>1. S \in AS!Runs
    BY <1>3, PagesAreRun
  <2>2. m \in AS!Mapping
    BY DEF AS!Mapping
  <2>3. AS!Place(S, m)
    BY <1>1 DEF AS!Place
  <2>. QED BY <2>1, <2>2, <2>3 DEF AS!Next
<1>. QED BY <1>2, <1>3

LEMMA RemoveRefines ==
    ASSUME NEW lo \in Nat, NEW hi \in Nat,
           \A a \in PagesOf(lo, hi) : View[a] # Unmapped,
           View' = [a \in Page |-> IF a \in Span(lo, hi) THEN Unmapped ELSE View[a]]
    PROVE  AS!Next \/ View' = View
<1> DEFINE S == PagesOf(lo, hi)
<1>1. View' = [a \in Page |-> IF a \in S THEN Unmapped ELSE View[a]]
  BY DEF PagesOf
<1>2. CASE S = {}
  BY <1>1, <1>2, ViewIsLook, LookDomain
<1>3. CASE S # {}
  <2>1. S \in AS!Runs
    BY <1>3, PagesAreRun
  <2>2. AS!Remove(S)
    BY <1>1 DEF AS!Remove, AS!Mapped
  <2>. QED BY <2>1, <2>2 DEF AS!Next
<1>. QED BY <1>2, <1>3

LEMMA ReprotectRefines ==
    ASSUME NEW lo \in Nat, NEW hi \in Nat, NEW p \in Perms,
           \A a \in PagesOf(lo, hi) : View[a] # Unmapped,
           View' = [a \in Page |-> IF a \in Span(lo, hi) THEN [View[a] EXCEPT !.perms = p]
                                   ELSE View[a]]
    PROVE  AS!Next \/ View' = View
<1> DEFINE S == PagesOf(lo, hi)
<1>1. View' = [a \in Page |-> IF a \in S THEN [View[a] EXCEPT !.perms = p] ELSE View[a]]
  BY DEF PagesOf
<1>2. CASE S = {}
  BY <1>1, <1>2, ViewIsLook, LookDomain
<1>3. CASE S # {}
  <2>1. S \in AS!Runs
    BY <1>3, PagesAreRun
  <2>2. AS!Reprotect(S, p)
    BY <1>1 DEF AS!Reprotect, AS!Mapped
  <2>. QED BY <2>1, <2>2 DEF AS!Next
<1>. QED BY <1>2, <1>3

(* A range is mapped and then another is dropped. *)
LEMMA MoveRefines ==
    ASSUME NEW lo \in Nat, NEW hi \in Nat, NEW tlo \in Nat, NEW thi \in Nat,
           NEW p \in Perms, NEW l \in Labels,
           View' = [a \in Page |-> IF a \in Span(lo, hi) THEN Unmapped
                                   ELSE IF a \in Span(tlo, thi) THEN [perms |-> p, label |-> l]
                                   ELSE View[a]]
    PROVE  AS!Next \/ View' = View
<1> DEFINE S == PagesOf(lo, hi)
           T == PagesOf(tlo, thi)
           m == [perms |-> p, label |-> l]
<1>1. View' = [a \in Page |-> IF a \in S THEN Unmapped ELSE IF a \in T THEN m ELSE View[a]]
  BY DEF PagesOf
<1>2. CASE S = {}
  <2>1. View' = [a \in Page |-> IF a \in Span(tlo, thi) THEN m ELSE View[a]]
    BY <1>1, <1>2 DEF PagesOf
  <2>. QED BY <2>1, PlaceRefines
<1>3. CASE S # {}
  <2>1. S \in AS!Runs /\ m \in AS!Mapping
    BY <1>3, PagesAreRun DEF AS!Mapping
  <2>2. \A a \in S : a \in Page /\ View'[a] = Unmapped
    BY <1>1 DEF PagesOf
  <2>3. PICK R \in AS!Runs : (T # {} => R = T) /\ (T = {} => R = S)
    BY <2>1, PagesAreRun
  <2>4. \A a \in Page \ (S \cup R) : View'[a] = View[a]
    BY <1>1, <2>3
  <2>5. \A a \in R \ S : View'[a] = m
    BY <1>1, <2>3 DEF PagesOf
  <2>6. AS!Move(S)
    BY <2>1, <2>2, <2>3, <2>4, <2>5 DEF AS!Move
  <2>. QED BY <2>1, <2>6 DEF AS!Next
<1>. QED BY <1>2, <1>3

(* ... as the calls take them, from a region list that is good. *)
LEMMA PlaceAtRefines ==
    ASSUME NEW rs, NEW b, Good(rs, b), NEW lo \in Nat, NEW hi \in Nat, lo < hi, hi <= LIMIT,
           NEW p \in Perms, NEW l \in Labels, PlaceAt(b, rs, lo, hi, p, l),
           \A a \in Page : a \notin Span(lo, hi) => Look(rs)[a] = View[a]
    PROVE  AS!Next \/ View' = View
<1>1. View' = [a \in Page |-> IF a \in Span(lo, hi) THEN [perms |-> p, label |-> l]
                              ELSE Look(rs)[a]]
  BY ViewIsLook, RecordLook DEF PlaceAt
<1>2. View' = [a \in Page |-> IF a \in Span(lo, hi) THEN [perms |-> p, label |-> l]
                              ELSE View[a]]
  BY <1>1
<1>. QED BY <1>2, PlaceRefines

LEMMA DropRefines ==
    ASSUME Good(regions, backend), NEW lo \in Nat, NEW hi \in Nat, lo <= hi,
           Drop(backend, regions, lo, hi)
    PROVE  AS!Next \/ View' = View
<1>1. View' = [a \in Page |-> IF a \in Span(lo, hi) THEN Unmapped ELSE View[a]]
  BY ViewIsLook, CarveLook DEF Drop, AllMapped, Good
<1>2. \A a \in PagesOf(lo, hi) : View[a] # Unmapped
  BY ViewIsLook, MappedPages DEF Drop
<1>. QED BY <1>1, <1>2, RemoveRefines

LEMMA CopyAndDropRefines ==
    ASSUME NEW rs, NEW b, Good(rs, b), NEW old \in Nat, NEW n \in Nat, n > 0, NEW d \in BOOLEAN,
           NEW tlo \in Nat, NEW thi \in Nat, NEW p \in Perms, NEW l \in Labels,
           CopyAndDrop(b, rs, old, n, d),
           Look(rs) = [a \in Page |-> IF a \in Span(tlo, thi) THEN [perms |-> p, label |-> l]
                                      ELSE View[a]]
    PROVE  AS!Next \/ View' = View
<1> DEFINE lo == AlignDown(old)
           hi == TouchedEnd(old, AlignUp(n))
<1>1. lo \in Nat /\ hi \in Nat /\ lo <= hi
  BY AlignDownBounds, AlignUpBounds DEF TouchedEnd
<1>2. Drop(b, rs, lo, hi) \/ regions' = rs
  BY DEF CopyAndDrop
<1>. HIDE DEF lo, hi
<1>3. CASE Drop(b, rs, lo, hi)
  <2>1. View' = [a \in Page |-> IF a \in Span(lo, hi) THEN Unmapped ELSE Look(rs)[a]]
    BY <1>1, <1>3, ViewIsLook, CarveLook DEF Drop, AllMapped, Good
  <2>2. View' = [a \in Page |-> IF a \in Span(lo, hi) THEN Unmapped
                                ELSE IF a \in Span(tlo, thi) THEN [perms |-> p, label |-> l]
                                ELSE View[a]]
    BY <2>1
  <2>. QED BY <1>1, <2>2, MoveRefines
<1>4. CASE regions' = rs
  BY <1>4, ViewIsLook, PlaceRefines
<1>. QED BY <1>2, <1>3, <1>4

(* What a call that replaces finds after it has discarded the old mappings.  *)
LEMMA ClearedLook ==
    ASSUME Good(regions, backend), NEW lo \in Nat, NEW hi \in Nat, lo <= hi, hi <= LIMIT
    PROVE  \A a \in Page : a \notin Span(lo, hi) => Look(Carve(regions, lo, hi))[a] = View[a]
BY ViewIsLook, CarveLook DEF Good

LEMMA StepRefines ==
    ASSUME IInv, [Next]_vars
    PROVE  [AS!Next]_View
<1>. USE LayoutAssumption
<1> DEFINE sizes(n) == n \in Nat /\ n > 0 /\ AlignUp(n) \in Nat /\ AlignUp(n) > 0
           Fine == AS!Next \/ View' = View
<1>0. /\ \A n \in Requests : sizes(n)
      /\ \A a \in Targets : a \in Nat
      /\ Good(regions, backend)
  <2>1. \A n \in Requests : n \in Nat /\ n > 0
    OBVIOUS
  <2>2. \A n \in Requests : AlignUp(n) \in Nat /\ n <= AlignUp(n)
    BY <2>1, AlignUpBounds
  <2>3. \A n \in Requests : sizes(n)
    BY <2>1, <2>2
  <2>. QED BY <2>3 DEF IInv
<1>. SUFFICES Fine
  OBVIOUS
<1>. HIDE DEF sizes, Fine
<1>1. \A l \in {"heap", "mmap", "fixed", "lib"} : l \in Labels
  BY DEF Labels
<1>2. \A a \in Page : Look(regions)[a] = View[a]
  BY ViewIsLook
<1>3. ASSUME UNCHANGED regions PROVE Fine
  BY <1>3, ViewIsLook DEF Fine
<1>4. CASE UNCHANGED vars
  BY <1>3, <1>4 DEF vars
<1>5. ASSUME NEW a \in Targets, NEW n \in Requests, NEW p \in Perms, Map(a, n, p, "lib")
      PROVE  Fine
  <2>1. /\ a \in Nat /\ a + AlignUp(n) \in Nat
        /\ a < a + AlignUp(n) /\ a + AlignUp(n) <= LIMIT
    BY <1>0, <1>5 DEF Map, sizes
  <2>2. PlaceAt(backend, regions, a, a + AlignUp(n), p, "lib")
    BY <1>5 DEF Map
  <2>. QED BY <1>0, <1>1, <1>2, <2>1, <2>2, PlaceAtRefines DEF Fine
<1>6. ASSUME NEW a \in Targets, NEW n \in Requests, NEW p \in Perms, MapFixed(a, n, p, "fixed")
      PROVE  Fine
  <2> DEFINE hi == a + AlignUp(n)
             c  == UnmapOverlap(backend, regions, a, hi)
  <2>1. a \in Nat /\ hi \in Nat /\ a < hi /\ a <= hi /\ hi <= LIMIT
    BY <1>0, <1>6 DEF MapFixed, sizes
  <2>2. Good(Carve(regions, a, hi), c) /\ AllFree(c, a, hi)
    BY <1>0, <2>1, ClearLemma
  <2>3. PlaceAt(c, Carve(regions, a, hi), a, hi, p, "fixed")
    BY <1>6, <2>2 DEF MapFixed
  <2>4. \A x \in Page : x \notin Span(a, hi) => Look(Carve(regions, a, hi))[x] = View[x]
    BY <1>0, <2>1, ClearedLook
  <2>. HIDE DEF hi, c
  <2>. QED BY <1>1, <2>1, <2>2, <2>3, <2>4, PlaceAtRefines DEF Fine
<1>7. ASSUME NEW a \in Targets, NEW n \in Requests, NEW p \in Perms, Protect(a, n, p)
      PROVE  Fine
  <2> DEFINE lo == AlignDown(a)
             hi == TouchedEnd(a, n)
  <2>1. lo \in Nat /\ hi \in Nat /\ lo < hi
    BY <1>0, TouchedBounds DEF sizes
  <2>2. AllMapped(backend, lo, hi) /\ regions' = Reprotected(regions, lo, hi, p)
    BY <1>7 DEF Protect
  <2>. HIDE DEF lo, hi
  <2>3. View' = [x \in Page |-> IF x \in Span(lo, hi) THEN [View[x] EXCEPT !.perms = p]
                                ELSE View[x]]
    BY <1>0, <2>1, <2>2, ViewIsLook, ProtectLook
  <2>4. \A x \in PagesOf(lo, hi) : View[x] # Unmapped
    BY <1>0, <2>1, <2>2, ViewIsLook, MappedPages
  <2>. QED BY <2>1, <2>3, <2>4, ReprotectRefines DEF Fine
<1>8. ASSUME NEW a \in Nat, NEW n \in Nat, n > 0, Unmap(a, n)
      PROVE  Fine
  <2>1. /\ AlignDown(a) \in Nat /\ TouchedEnd(a, n) \in Nat
        /\ AlignDown(a) <= TouchedEnd(a, n)
    BY <1>8, TouchedBounds
  <2>2. Drop(backend, regions, AlignDown(a), TouchedEnd(a, n))
    BY <1>8 DEF Unmap
  <2>. QED BY <1>0, <2>1, <2>2, DropRefines DEF Fine
<1>9. ASSUME NEW n \in Requests, NEW p \in Perms, Mmap(n, p)
      PROVE  Fine
  <2> DEFINE need == AlignUp(n)
             base == MmapBase(need)
  <2>1. need \in Nat /\ need > 0 /\ ~ArenaFull(need)
    BY <1>0, <1>9 DEF Mmap, sizes
  <2>2. base \in Nat /\ base + need <= LIMIT /\ base < base + need /\ base + need \in Nat
    BY <2>1, MmapPlacement
  <2>3. PlaceAt(backend, regions, base, base + need, p, "mmap") \/ UNCHANGED regions
    BY <1>9 DEF Mmap
  <2>. HIDE DEF need, base
  <2>4. CASE PlaceAt(backend, regions, base, base + need, p, "mmap")
    BY <1>0, <1>1, <1>2, <2>2, <2>4, PlaceAtRefines DEF Fine
  <2>. QED BY <1>3, <2>3, <2>4
<1>10. ASSUME NEW a \in Addr \cup {MMAP_BASE}, Brk(a)
       PROVE  Fine
  <2> DEFINE end == AlignUp(a)
  <2>1. end \in Nat /\ end <= LIMIT
    <3>1. a \in Nat /\ a <= MMAP_BASE
      BY <1>10 DEF Brk, Addr
    <3>. QED BY <3>1, AlignUpBounds, AlignUpMonotone
  <2>2. heapMappedEnd \in Nat /\ heapMappedEnd <= LIMIT
    BY DEF IInv, CursorsInBounds
  <2>3. \/ end > heapMappedEnd /\ PlaceAt(backend, regions, heapMappedEnd, end, RW, "heap")
        \/ end < heapMappedEnd /\ Drop(backend, regions, end, heapMappedEnd)
        \/ UNCHANGED regions
    BY <1>10 DEF Brk
  <2>. HIDE DEF end
  <2>4. CASE end > heapMappedEnd /\ PlaceAt(backend, regions, heapMappedEnd, end, RW, "heap")
    BY <1>0, <1>1, <1>2, <2>1, <2>2, <2>4, PlaceAtRefines DEF Fine
  <2>5. CASE end < heapMappedEnd /\ Drop(backend, regions, end, heapMappedEnd)
    BY <1>0, <2>1, <2>2, <2>5, DropRefines DEF Fine
  <2>. QED BY <1>3, <2>3, <2>4, <2>5
<1>11. ASSUME NEW a \in Targets, NEW m \in Requests, NEW n \in Requests, MremapShrink(a, m, n)
       PROVE  Fine
  <2>1. /\ a + AlignUp(n) \in Nat /\ AlignUp(m) - AlignUp(n) \in Nat
        /\ AlignUp(m) - AlignUp(n) > 0
    BY <1>0, <1>11 DEF MremapShrink, sizes
  <2>. QED BY <1>8, <1>11, <2>1 DEF MremapShrink
<1>12. ASSUME NEW a \in Targets, NEW m \in Requests, NEW n \in Requests, NEW d \in BOOLEAN,
              MremapMove(a, m, n, d)
       PROVE  Fine
  <2> DEFINE need == AlignUp(n)
             base == MmapBase(need)
             b    == SetPages(backend, base, base + need, RW)
             rs   == Record(regions, base, base + need, RW, "mmap")
  <2>1. need \in Nat /\ need > 0 /\ ~ArenaFull(need) /\ a \in Nat /\ m \in Nat /\ m > 0
    BY <1>0, <1>12 DEF MremapMove, sizes
  <2>2. base \in Nat /\ base + need <= LIMIT /\ base < base + need /\ base + need \in Nat
    BY <2>1, MmapPlacement
  <2>3. Good(rs, b)
    BY <1>0, <1>1, <2>2, RecordLemma
  <2>4. Look(rs) = [x \in Page |-> IF x \in Span(base, base + need)
                                   THEN [perms |-> RW, label |-> "mmap"] ELSE View[x]]
    <3>1. Look(rs) = [x \in Page |-> IF x \in Span(base, base + need)
                                     THEN [perms |-> RW, label |-> "mmap"] ELSE Look(regions)[x]]
      BY <1>0, <1>1, <2>2, RecordLook
    <3>. QED BY <3>1, ViewIsLook
  <2>5. CopyAndDrop(b, rs, a, m, d) \/ UNCHANGED regions
    BY <1>12 DEF MremapMove
  <2>. HIDE DEF need, base, b, rs
  <2>6. CASE CopyAndDrop(b, rs, a, m, d)
    <3>1. PICK end \in Nat : end = base + need
      BY <2>2
    <3>2. Look(rs) = [x \in Page |-> IF x \in Span(base, end)
                                     THEN [perms |-> RW, label |-> "mmap"] ELSE View[x]]
      BY <2>4, <3>1
    <3>3. RW \in Perms /\ "mmap" \in Labels
      BY <1>1
    <3>4. a \in Nat /\ m \in Nat /\ m > 0 /\ base \in Nat /\ end \in Nat
      BY <2>1, <2>2
    <3>5. AS!Next \/ View' = View
      BY ONLY <3>4, <2>3, <2>6, <3>2, <3>3, d \in BOOLEAN, CopyAndDropRefines
    <3>. QED BY <3>5 DEF Fine
  <2>. QED BY <1>3, <2>5, <2>6
<1>13. ASSUME NEW a \in Targets, NEW c \in Targets, NEW m \in Requests, NEW n \in Requests,
              NEW d \in BOOLEAN, MremapFixed(a, m, n, c, d)
       PROVE  Fine
  <2> DEFINE hi   == c + AlignUp(n)
             kept == Carve(regions, c, hi)
             clr  == UnmapOverlap(backend, regions, c, hi)
             b    == SetPages(clr, c, hi, RW)
             rs   == Record(kept, c, hi, RW, "fixed")
  <2>1. /\ a \in Nat /\ m \in Nat /\ m > 0
        /\ c \in Nat /\ hi \in Nat /\ c < hi /\ c <= hi /\ hi <= LIMIT
    BY <1>0, <1>13 DEF MremapFixed, sizes
  <2>2. Good(kept, clr) /\ AllFree(clr, c, hi)
    BY <1>0, <2>1, ClearLemma
  <2>3. Good(rs, b)
    BY <1>1, <2>1, <2>2, RecordLemma
  <2>4. CopyAndDrop(b, rs, a, m, d)
    BY <1>13, <2>2 DEF MremapFixed
  <2>5. \A x \in Page : x \notin Span(c, hi) => Look(kept)[x] = View[x]
    BY <1>0, <2>1, ClearedLook
  <2>6. Look(rs) = [x \in Page |-> IF x \in Span(c, hi)
                                   THEN [perms |-> RW, label |-> "fixed"] ELSE Look(kept)[x]]
    BY <1>1, <2>1, <2>2, RecordLook
  <2>7. Look(rs) = [x \in Page |-> IF x \in Span(c, hi)
                                   THEN [perms |-> RW, label |-> "fixed"] ELSE View[x]]
    BY SMTT(30), <2>5, <2>6
  <2>. HIDE DEF hi, kept, clr, b, rs
  <2>8. RW \in Perms /\ "fixed" \in Labels
    BY <1>1
  <2>. QED BY ONLY <2>1, <2>3, <2>4, <2>7, <2>8, d \in BOOLEAN, CopyAndDropRefines DEF Fine
<1>14. CASE \E n \in Requests, k \in {1, 2} : ReserveLib(n, k * PAGE)
  BY <1>3, <1>14 DEF ReserveLib
<1>15. CASE \E a \in Targets, n \in Requests : Unmap(a, n)
  BY <1>0, <1>8, <1>15 DEF sizes
<1>. QED BY <1>4, <1>5, <1>6, <1>7, <1>9, <1>10, <1>11, <1>12, <1>13, <1>14, <1>15 DEF Next

(* The manager implements the address space that the guest is promised: seen *)
(* through the region list, each call changes one run of pages as a whole.   *)
THEOREM MemoryImplementsAddressSpace == Spec => ImplementsAddressSpace
<1>1. Init => AS!Init
  BY DEF Init, AS!Init, View, Page
<1>2. IInv /\ [Next]_vars => [AS!Next]_View
  BY StepRefines
<1>. QED BY <1>1, <1>2, InitGood, StepPreserves, PTL
         DEF Spec, ImplementsAddressSpace, AS!Spec

-----------------------------------------------------------------------------
(* The heap: for every arena, alignment and history of calls.                *)

Multiple(x) == \E k \in Nat : x = k * ALIGN

(* The inductive invariant: the tiling, coalesced, and what taking a free    *)
(* block apart relies on, that everything is made of whole allocation units  *)
(* (a rest smaller than a unit would be dropped and lost).                   *)
Arranged(lv, fr, cur) ==
    /\ lv \in SUBSET Block /\ fr \in SUBSET Block /\ cur \in Nat
    /\ Inside(lv, fr, cur)
    /\ Separate(lv, fr)
    /\ Covered(lv, fr, cur)
    /\ NoneTouch(fr, cur)
    /\ Multiple(cur)
    /\ \A b \in lv : Multiple(b.at)
    /\ \A f \in fr : Multiple(f.at) /\ Multiple(f.size)

(* Rounding up. *)
LEMMA RoundUpBounds ==
    ASSUME NEW x \in Nat, NEW to \in Nat \ {0}
    PROVE  /\ RoundUp(x, to) \in Nat /\ x <= RoundUp(x, to)
           /\ \E k \in Nat : RoundUp(x, to) = k * to
<1>1. (x + to - 1) \div to \in Nat
  OBVIOUS
<1>2. RoundUp(x, to) \in Nat /\ x <= RoundUp(x, to)
  BY SMTT(30) DEF RoundUp
<1>. QED BY <1>1, <1>2 DEF RoundUp

LEMMA NeedBounds ==
    ASSUME NEW n \in Nat
    PROVE  Need(n) \in Nat /\ n <= Need(n) /\ Multiple(Need(n))
BY RoundUpBounds, ArenaAssumption DEF Need, Multiple

LEMMA MultipleDifference ==
    ASSUME NEW x, NEW y, Multiple(x), Multiple(y), x >= y
    PROVE  Multiple(x - y) /\ Multiple(x + y) /\ (x # y => x - y >= ALIGN)
<1>. USE ArenaAssumption
<1>1. PICK k \in Nat : x = k * ALIGN
  BY DEF Multiple
<1>2. PICK j \in Nat : y = j * ALIGN
  BY DEF Multiple
<1>3. k >= j
  BY <1>1, <1>2
<1>4. k - j \in Nat /\ k + j \in Nat
  BY <1>3
<1>5. x - y = (k - j) * ALIGN /\ x + y = (k + j) * ALIGN
  BY <1>1, <1>2
<1>6. ASSUME x # y PROVE x - y >= ALIGN
  <2>1. k - j >= 1
    BY <1>1, <1>2, <1>3, <1>6
  <2>. QED BY <1>4, <1>5, <2>1
<1>. QED BY <1>4, <1>5, <1>6 DEF Multiple

LEMMA MultipleSum ==
    ASSUME NEW x, NEW y, Multiple(x), Multiple(y)
    PROVE  Multiple(x + y)
<1>1. PICK k \in Nat, j \in Nat : x = k * ALIGN /\ y = j * ALIGN
  BY DEF Multiple
<1>2. x + y = (k + j) * ALIGN /\ k + j \in Nat
  BY <1>1, ArenaAssumption
<1>. QED BY <1>2 DEF Multiple

LEMMA FirstFitFits ==
    ASSUME NEW fr \in SUBSET Block, NEW need \in Nat, Fits(fr, need) # {}
    PROVE  FirstFit(fr, need) \in fr /\ FirstFit(fr, need).size >= need
<1> DEFINE S == {f.at : f \in Fits(fr, need)}
<1>1. S \in SUBSET Nat /\ S # {}
  BY DEF Fits, Block
<1>2. \E x \in S : \A y \in S : x <= y
  BY <1>1, LeastMember
<1>3. \E f \in Fits(fr, need) : \A g \in Fits(fr, need) : f.at <= g.at
  BY <1>2
<1>4. FirstFit(fr, need) \in Fits(fr, need)
  BY <1>3 DEF FirstFit
<1>. QED BY <1>4 DEF Fits

(* A live block occupies a range that is not empty. *)
LEMMA LiveBlock ==
    ASSUME NEW a \in Nat, NEW n \in Nat, n > 0
    PROVE  /\ At(a, n) \in Block /\ At(a, n).at = a /\ At(a, n).size = n
           /\ LiveTop(At(a, n)) = a + Need(n) /\ a < a + Need(n) /\ Need(n) \in Nat
BY NeedBounds DEF At, Block, LiveTop

(* What malloc does when it succeeds: the block it places is apart from the  *)
(* live ones, and the arena stays arranged.                                  *)
LEMMA MallocArranges ==
    ASSUME Arranged(live, free, cursor), NEW n \in Nat, n > 0, CanTake(n) \/ CanBump(n)
    PROVE  /\ Arranged(live \cup {At(Place(n), n)}, FreeAfterMalloc(n), CursorAfterMalloc(n))
           /\ At(Place(n), n) \notin live
<1>. USE ArenaAssumption
<1> DEFINE need == Need(n)
           new  == At(Place(n), n)
<1>0. need \in Nat /\ need > 0 /\ Multiple(need)
  BY NeedBounds
<1>1. CASE ~CanTake(n)
  <2>1. Place(n) = cursor /\ FreeAfterMalloc(n) = free /\ CursorAfterMalloc(n) = cursor + need
    BY <1>1 DEF Place, FreeAfterMalloc, CursorAfterMalloc
  <2>2. /\ new \in Block /\ new.at = cursor /\ LiveTop(new) = cursor + need
        /\ cursor \in Nat
    BY <2>1, LiveBlock DEF Arranged
  <2>3. Inside(live \cup {new}, free, cursor + need)
    <3>1. \A b \in live : b.at \in Nat /\ LiveTop(b) \in Nat
      BY NeedBounds DEF Arranged, Block, LiveTop
    <3>2. \A g \in free : g.at \in Nat /\ Top(g) \in Nat
      BY DEF Arranged, Block, Top
    <3>3. BASE <= cursor /\ cursor + need <= END /\ END \in Nat
      BY <1>1 DEF Arranged, Inside, CanBump, END
    <3>. QED BY <1>0, <2>2, <3>1, <3>2, <3>3 DEF Arranged, Inside
  <2>4. Separate(live \cup {new}, free)
    BY <1>0, <2>2 DEF Arranged, Inside, Separate
  <2>5. Covered(live \cup {new}, free, cursor + need)
    BY <1>0, <2>2 DEF Arranged, Covered, InLive, Inside
  <2>6. NoneTouch(free, cursor + need)
    BY <1>0, <2>2 DEF Arranged, NoneTouch, Inside, Top, Block
  <2>7. Multiple(cursor + need)
    <3>1. \E k, j \in Nat : cursor = k * ALIGN /\ need = j * ALIGN
      BY <1>0 DEF Arranged, Multiple
    <3>2. PICK k \in Nat, j \in Nat : cursor = k * ALIGN /\ need = j * ALIGN
      BY <3>1
    <3>3. cursor + need = (k + j) * ALIGN /\ k + j \in Nat
      BY <3>2
    <3>. QED BY <3>3 DEF Multiple
  <2>8. new \notin live
    BY <1>0, <2>2 DEF Arranged, Inside
  <2>. QED BY <1>0, <2>1, <2>2, <2>3, <2>4, <2>5, <2>6, <2>7, <2>8 DEF Arranged
<1>2. CASE CanTake(n)
  <2> DEFINE f == FirstFit(free, need)
             rest == At(f.at + need, f.size - need)
             fr   == TakeFree(f, need)
  <2>1. Place(n) = f.at /\ FreeAfterMalloc(n) = fr /\ CursorAfterMalloc(n) = cursor
    BY <1>2 DEF Place, FreeAfterMalloc, CursorAfterMalloc
  <2>2. f \in free /\ f.size >= need /\ f \in Block /\ f.at \in Nat /\ f.size \in Nat
    <3>1. free \in SUBSET Block /\ Fits(free, need) # {}
      BY <1>2 DEF Arranged, CanTake
    <3>2. f \in free /\ f.size >= need
      BY <1>0, <3>1, FirstFitFits
    <3>. QED BY <3>1, <3>2 DEF Block
  <2>. HIDE DEF f
  <2>3. new \in Block /\ new.at = f.at /\ LiveTop(new) = f.at + need
    BY <2>1, <2>2, LiveBlock
  <2>4. Multiple(f.size - need) /\ Multiple(f.at + need) /\ (f.size # need => f.size - need >= ALIGN)
    <3>1. Multiple(f.size) /\ Multiple(f.at)
      BY <2>2 DEF Arranged
    <3>2. PICK k \in Nat, j \in Nat : f.at = k * ALIGN /\ need = j * ALIGN
      BY <1>0, <3>1 DEF Multiple
    <3>3. f.at + need = (k + j) * ALIGN /\ k + j \in Nat
      BY <3>2
    <3>4. Multiple(f.at + need)
      BY <3>3 DEF Multiple
    <3>. QED BY <1>0, <2>2, <3>1, <3>4, MultipleDifference
  <2>5. \/ f.size = need /\ fr = free \ {f}
        \/ f.size > need /\ fr = (free \ {f}) \cup {rest}
    BY <1>0, <2>2, <2>4 DEF TakeFree
  <2>6. rest.at = f.at + need /\ rest.size = f.size - need /\ Top(rest) = Top(f) /\ rest \in Block
    BY <1>0, <2>2 DEF At, Top, Block
  <2>. HIDE DEF rest, fr, new
  <2>7. Inside(live \cup {new}, fr, cursor)
    BY <1>0, <2>2, <2>3, <2>5, <2>6 DEF Arranged, Inside, Top
  <2>8. Separate(live \cup {new}, fr)
    <3>1. \A b \in live : LiveTop(b) <= f.at \/ f.at + f.size <= b.at
      BY <2>2 DEF Arranged, Separate, Top
    <3>2. \A g \in free \ {f} : Top(g) <= f.at \/ f.at + f.size <= g.at
      BY <2>2 DEF Arranged, Separate, Top
    <3>3. live \in SUBSET Block /\ free \in SUBSET Block
      BY DEF Arranged
    <3>4. \A b \in live : LiveTop(b) <= new.at \/ LiveTop(new) <= b.at
      BY <1>0, <2>2, <2>3, <3>1, <3>3 DEF Block
    <3>5. \A g \in free \ {f} : LiveTop(new) <= g.at \/ Top(g) <= new.at
      BY <1>0, <2>2, <2>3, <3>2, <3>3 DEF Block
    <3>6. f.size > need => /\ LiveTop(new) <= rest.at
                           /\ \A b \in live : LiveTop(b) <= rest.at \/ Top(rest) <= b.at
                           /\ \A g \in free \ {f} : Top(g) <= rest.at \/ Top(rest) <= g.at
      <4>1. \A g \in free : g.at \in Nat /\ Top(g) \in Nat
        BY <3>3 DEF Block, Top
      <4>2. \A b \in live : b.at \in Nat /\ LiveTop(b) \in Nat
        BY <3>3, NeedBounds DEF Block, LiveTop
      <4>. QED BY <1>0, <2>2, <2>3, <2>6, <3>1, <3>2, <4>1, <4>2 DEF Top
    <3>. QED BY <2>5, <3>4, <3>5, <3>6 DEF Arranged, Separate
  <2>9. Covered(live \cup {new}, fr, cursor)
    <3> SUFFICES ASSUME NEW x \in BASE .. (cursor - 1)
                 PROVE (\E b \in live \cup {new} : InLive(b, x)) \/ (\E g \in fr : InFree(g, x))
      BY DEF Covered
    <3>1. CASE InFree(f, x)
      BY <1>0, <2>2, <2>3, <2>5, <2>6, <3>1 DEF InFree, InLive, Top
    <3>2. CASE ~InFree(f, x)
      BY <2>5, <3>2 DEF Arranged, Covered
    <3>. QED BY <3>1, <3>2
  <2>10. NoneTouch(fr, cursor)
    <3>1. \A g \in free : g.at \in Nat /\ Top(g) \in Nat /\ g.at < Top(g)
      BY DEF Arranged, Block, Top, Inside
    <3>2. \A g \in free \ {f} : Top(g) # rest.at \/ f.size = need
      BY <1>0, <2>2, <2>6, <3>1 DEF Arranged, Separate, Top
    <3>3. CASE fr = free \ {f}
      BY <3>3 DEF Arranged, NoneTouch
    <3>4. CASE f.size > need /\ fr = (free \ {f}) \cup {rest}
      <4>1. \A g \in free : Top(rest) # g.at
        BY <2>2, <2>6 DEF Arranged, NoneTouch
      <4>2. Top(rest) # cursor /\ Top(rest) # rest.at
        <5>1. Top(rest) # cursor
          BY <2>2, <2>6 DEF Arranged, NoneTouch
        <5>2. rest.at \in Nat /\ rest.size \in Nat /\ rest.size > 0 /\ Top(rest) = rest.at + rest.size
          BY <1>0, <2>2, <2>6, <3>4 DEF Top
        <5>. QED BY <5>1, <5>2
      <4>3. \A g \in free \ {f} : Top(g) # rest.at
        BY <2>2, <3>2, <3>4
      <4>. QED BY <3>4, <4>1, <4>2, <4>3 DEF Arranged, NoneTouch
    <3>. QED BY <2>5, <3>3, <3>4
  <2>11. new \notin live
    BY <1>0, <2>2, <2>3 DEF Arranged, Separate, Top, Inside
  <2>. QED BY <2>1, <2>2, <2>3, <2>4, <2>5, <2>6, <2>7, <2>8, <2>9, <2>10, <2>11 DEF Arranged, rest, new
<1>. QED BY <1>1, <1>2

(* What free does to a block b that was live: the merged block is bounded by *)
(* live blocks, so nothing below it touches it and the loop that lowers the  *)
(* cursor finds nothing more to absorb.                                      *)
LEMMA InsertArranges ==
    ASSUME NEW lv, NEW fr, NEW cur, Arranged(lv, fr, cur), NEW b \in lv
    PROVE  LET r == At(b.at, Need(b.size))
           IN  Arranged(lv \ {b}, FreeAfterInsert(fr, cur, r), CursorAfterInsert(fr, cur, r))
<1>. USE ArenaAssumption
<1> DEFINE r == At(b.at, Need(b.size))
           m == Merged(fr, r)
           k == Apart(fr, r)
           others == lv \ {b}
<1>1. /\ \A c \in lv : c \in Block /\ c.at \in Nat /\ LiveTop(c) \in Nat /\ c.at < LiveTop(c)
      /\ \A f \in fr : f \in Block /\ f.at \in Nat /\ f.size \in Nat /\ Top(f) \in Nat
                     /\ f.at < Top(f) /\ Top(f) = f.at + f.size
      /\ cur \in Nat
  <2>1. \A c \in lv : c.at \in Nat /\ LiveTop(c) \in Nat
    BY NeedBounds DEF Arranged, Block, LiveTop
  <2>. QED BY <2>1 DEF Arranged, Inside, Block, Top
<1>2. r.at = b.at /\ Top(r) = LiveTop(b) /\ r.at < Top(r) /\ r.at \in Nat /\ Top(r) \in Nat
  BY <1>1 DEF At, Top, LiveTop
<1>3. /\ \A c \in others : LiveTop(c) <= r.at \/ Top(r) <= c.at
      /\ \A f \in fr : Top(f) <= r.at \/ Top(r) <= f.at
  BY <1>2 DEF Arranged, Separate
<1>. HIDE DEF r
<1> DEFINE lo == IF Before(fr, r) = {} THEN r.at ELSE (CHOOSE f \in Before(fr, r) : TRUE).at
           hi == IF After(fr, r) = {} THEN Top(r) ELSE Top(CHOOSE f \in After(fr, r) : TRUE)
<1>4. \/ Before(fr, r) = {} /\ lo = r.at
      \/ \E p \in fr : Before(fr, r) = {p} /\ Top(p) = r.at /\ lo = p.at
  <2>1. \A p, q \in Before(fr, r) : p \in fr /\ Top(p) = r.at /\ p = q
    BY <1>1 DEF Before, Arranged, Separate
  <2>2. CASE Before(fr, r) # {}
    <3>1. PICK p \in Before(fr, r) : p = CHOOSE f \in Before(fr, r) : TRUE
      BY <2>2
    <3>. QED BY <2>1, <3>1
  <2>. QED BY <2>2
<1>5. \/ After(fr, r) = {} /\ hi = Top(r)
      \/ \E a \in fr : After(fr, r) = {a} /\ a.at = Top(r) /\ hi = Top(a)
  <2>1. \A p, q \in After(fr, r) : p \in fr /\ p.at = Top(r) /\ p = q
    BY <1>1 DEF After, Arranged, Separate
  <2>2. CASE After(fr, r) # {}
    <3>1. PICK p \in After(fr, r) : p = CHOOSE f \in After(fr, r) : TRUE
      BY <2>2
    <3>. QED BY <2>1, <3>1
  <2>. QED BY <2>2
<1>6. /\ lo \in Nat /\ hi \in Nat /\ lo <= r.at /\ Top(r) <= hi /\ lo < hi
      /\ BASE <= lo /\ hi <= cur
  <2>1. lo \in Nat /\ lo <= r.at /\ BASE <= lo
    BY <1>1, <1>2, <1>4 DEF Arranged, Inside
  <2>2. hi \in Nat /\ Top(r) <= hi /\ hi <= cur
    BY <1>1, <1>2, <1>5 DEF Arranged, Inside
  <2>. QED BY <1>2, <2>1, <2>2
<1>7. m = At(lo, hi - lo)
  BY DEF Merged
<1>. HIDE DEF lo, hi, m
<1>8. m \in Block /\ m.at = lo /\ m.size = hi - lo /\ Top(m) = hi
  BY <1>6, <1>7 DEF At, Block, Top
<1>9. \A f \in k : /\ f \in fr
                   /\ Top(f) # r.at /\ f.at # Top(r)
                   /\ Top(f) < lo \/ hi < f.at
  <2> SUFFICES ASSUME NEW f \in k
               PROVE  f \in fr /\ Top(f) # r.at /\ f.at # Top(r) /\ (Top(f) < lo \/ hi < f.at)
    OBVIOUS
  <2>1. f \in fr /\ f \notin Before(fr, r) /\ f \notin After(fr, r)
    BY DEF Apart
  <2>2. Top(f) # r.at /\ f.at # Top(r)
    BY <2>1 DEF Before, After
  <2>3. Top(f) < r.at \/ Top(r) < f.at
    BY <1>1, <1>2, <1>3, <2>1, <2>2
  <2>4. Top(f) <= r.at => Top(f) < lo
    <3>1. CASE lo = r.at
      BY <1>1, <1>2, <2>1, <2>2, <3>1
    <3>2. ASSUME NEW p \in fr, Top(p) = r.at, lo = p.at, Before(fr, r) = {p}, Top(f) <= r.at
          PROVE  Top(f) < lo
      <4>1. f # p /\ Top(f) # p.at
        BY <2>1, <3>2 DEF Arranged, NoneTouch
      <4>2. Top(f) <= p.at \/ Top(p) <= f.at
        BY <2>1, <4>1 DEF Arranged, Separate
      <4>. QED BY <1>1, <1>2, <2>1, <3>2, <4>1, <4>2
    <3>. QED BY <1>4, <3>1, <3>2
  <2>5. Top(r) <= f.at => hi < f.at
    <3>1. CASE hi = Top(r)
      BY <1>1, <1>2, <2>1, <2>2, <3>1
    <3>2. ASSUME NEW p \in fr, p.at = Top(r), hi = Top(p), After(fr, r) = {p}, Top(r) <= f.at
          PROVE  hi < f.at
      <4>1. f # p /\ Top(p) # f.at
        BY <2>1, <3>2 DEF Arranged, NoneTouch
      <4>2. Top(f) <= p.at \/ Top(p) <= f.at
        BY <2>1, <4>1 DEF Arranged, Separate
      <4>. QED BY <1>1, <1>2, <2>1, <3>2, <4>1, <4>2
    <3>. QED BY <1>5, <3>1, <3>2
  <2>. QED BY <1>1, <1>2, <2>1, <2>2, <2>3, <2>4, <2>5
<1>10. \A c \in others : LiveTop(c) <= lo \/ hi <= c.at
  <2> SUFFICES ASSUME NEW c \in others PROVE LiveTop(c) <= lo \/ hi <= c.at
    OBVIOUS
  <2>1. LiveTop(c) <= r.at => LiveTop(c) <= lo
    BY <1>1, <1>2, <1>4 DEF Arranged, Separate
  <2>2. Top(r) <= c.at => hi <= c.at
    BY <1>1, <1>2, <1>5 DEF Arranged, Separate
  <2>. QED BY <1>3, <2>1, <2>2
<1>11. \A x \in Nat : (InLive(b, x) \/ \E f \in fr \ k : InFree(f, x)) => lo <= x /\ x < hi
  <2> SUFFICES ASSUME NEW x \in Nat
               PROVE  /\ InLive(b, x) => lo <= x /\ x < hi
                      /\ \A f \in fr \ k : InFree(f, x) => lo <= x /\ x < hi
    OBVIOUS
  <2>1. InLive(b, x) => lo <= x /\ x < hi
    BY <1>1, <1>2, <1>6 DEF InLive
  <2>2. ASSUME NEW f \in fr \ k, InFree(f, x) PROVE lo <= x /\ x < hi
    <3>1. f \in Before(fr, r) \/ f \in After(fr, r)
      BY DEF Apart
    <3>2. f.at <= x /\ x < Top(f) /\ f.at \in Nat /\ Top(f) \in Nat
      BY <1>1, <2>2 DEF InFree
    <3>3. CASE f \in Before(fr, r)
      BY <1>2, <1>4, <1>6, <3>2, <3>3
    <3>4. CASE f \in After(fr, r)
      BY <1>2, <1>5, <1>6, <3>2, <3>4
    <3>. QED BY <3>1, <3>3, <3>4
  <2>. QED BY <2>1, <2>2
<1>12. Multiple(lo) /\ Multiple(hi - lo)
  <2>1. Multiple(r.at) /\ \A f \in fr : Multiple(f.at) /\ Multiple(f.size)
    BY <1>2 DEF Arranged
  <2>2. Multiple(Top(r))
    <3>1. Multiple(Need(b.size)) /\ LiveTop(b) = b.at + Need(b.size)
      BY <1>1, NeedBounds DEF Block, LiveTop
    <3>. QED BY <1>2, <2>1, <3>1, MultipleSum
  <2>3. \A f \in fr : Multiple(Top(f))
    BY <1>1, <2>1, MultipleSum
  <2>4. Multiple(lo)
    BY <1>4, <2>1
  <2>5. Multiple(hi)
    BY <1>5, <2>2, <2>3
  <2>6. hi >= lo
    BY <1>6
  <2>. QED BY <2>4, <2>5, <2>6, MultipleDifference
<1>13. Sinking(k, lo) = {}
  <2> SUFFICES ASSUME NEW f \in Sinking(k, lo) PROVE FALSE
    OBVIOUS
  <2>1. f \in k /\ Top(f) <= lo /\ \A x \in f.at .. (lo - 1) : \E g \in k : g.at <= x /\ x < Top(g)
    BY DEF Sinking
  <2>2. f.at \in Nat /\ f.at < Top(f) /\ Top(f) \in Nat
    BY <1>1, <1>9, <2>1
  <2>3. lo - 1 \in f.at .. (lo - 1)
    BY <1>6, <2>1, <2>2
  <2>4. PICK g \in k : g.at <= lo - 1 /\ lo - 1 < Top(g)
    BY <2>1, <2>3
  <2>5. g.at \in Nat /\ Top(g) \in Nat
    BY <1>1, <1>9
  <2>. QED BY <1>6, <1>9, <2>4, <2>5
<1> DEFINE fr2  == FreeAfterInsert(fr, cur, r)
           cur2 == CursorAfterInsert(fr, cur, r)
<1>14. IF hi = cur THEN fr2 = k /\ cur2 = lo ELSE fr2 = k \cup {m} /\ cur2 = cur
  <2>1. m = Merged(fr, r) /\ Top(m) = hi /\ m.at = lo
    BY <1>8 DEF m
  <2>2. CASE hi = cur
    <3>1. fr2 = k
      BY <1>13, <2>1, <2>2 DEF FreeAfterInsert
    <3>2. cur2 = CHOOSE x \in {lo} : \A y \in {lo} : x <= y
      BY <1>13, <2>1, <2>2 DEF CursorAfterInsert
    <3>. QED BY <1>6, <2>2, <3>1, <3>2
  <2>3. CASE hi # cur
    BY <2>1, <2>3 DEF FreeAfterInsert, CursorAfterInsert
  <2>. QED BY <2>2, <2>3
<1>. HIDE DEF fr2, cur2
<1>15. /\ others \in SUBSET Block /\ fr2 \in SUBSET Block /\ cur2 \in Nat
       /\ \A c \in others : Multiple(c.at)
  BY <1>1, <1>6, <1>8, <1>9, <1>14 DEF Arranged
<1>16. Inside(others, fr2, cur2)
  <2>1. CASE hi = cur
    <3>1. \A c \in others : LiveTop(c) <= lo
      BY <1>1, <1>6, <1>10, <2>1 DEF Arranged, Inside
    <3>2. \A f \in k : Top(f) <= lo
      BY <1>1, <1>6, <1>9, <2>1 DEF Arranged, Inside
    <3>3. lo <= END
      BY <1>1, <1>6 DEF Arranged, Inside, END
    <3>. QED BY <1>1, <1>6, <1>9, <1>14, <2>1, <3>1, <3>2, <3>3 DEF Arranged, Inside
  <2>2. CASE hi # cur
    BY <1>1, <1>6, <1>8, <1>9, <1>14, <2>2 DEF Arranged, Inside
  <2>. QED BY <2>1, <2>2
<1>17. Separate(others, fr2)
  <2>1. Separate(others, k)
    BY <1>9 DEF Arranged, Separate
  <2>2. \A f \in k : Top(f) <= m.at \/ Top(m) <= f.at
    BY <1>1, <1>6, <1>8, <1>9
  <2>3. Separate(others, k \cup {m})
    BY <1>8, <1>10, <2>1, <2>2 DEF Separate
  <2>. QED BY <1>14, <2>1, <2>3
<1>18. Covered(others, fr2, cur2)
  <2> SUFFICES ASSUME NEW x \in BASE .. (cur2 - 1)
               PROVE (\E c \in others : InLive(c, x)) \/ (\E f \in fr2 : InFree(f, x))
    BY DEF Covered
  <2>1. x \in BASE .. (cur - 1) /\ x \in Nat /\ x < cur2
    BY <1>1, <1>6, <1>14
  <2>2. (\E c \in lv : InLive(c, x)) \/ (\E f \in fr : InFree(f, x))
    BY <2>1 DEF Arranged, Covered
  <2>3. CASE lo <= x /\ x < hi
    <3>1. hi # cur
      BY <1>6, <1>14, <2>1, <2>3
    <3>2. InFree(m, x)
      BY <1>8, <2>3 DEF InFree
    <3>. QED BY <1>14, <3>1, <3>2
  <2>4. CASE ~(lo <= x /\ x < hi)
    BY <1>11, <1>14, <2>1, <2>2, <2>4
  <2>. QED BY <2>3, <2>4
<1>19. NoneTouch(fr2, cur2)
  <2>1. \A f, g \in k : Top(f) # g.at
    BY <1>9 DEF Arranged, NoneTouch
  <2>2. \A f \in k : Top(f) # cur /\ Top(f) # lo /\ f.at # hi
    BY <1>1, <1>6, <1>9 DEF Arranged, NoneTouch
  <2>. QED BY <1>6, <1>8, <1>14, <2>1, <2>2 DEF NoneTouch
<1>20. Multiple(cur2) /\ \A f \in fr2 : Multiple(f.at) /\ Multiple(f.size)
  BY <1>8, <1>9, <1>12, <1>14 DEF Arranged
<1>. QED BY <1>15, <1>16, <1>17, <1>18, <1>19, <1>20 DEF Arranged, r, fr2, cur2

(* What memalign does when it succeeds. *)
LEMMA MemalignArranges ==
    ASSUME Arranged(live, free, cursor), NEW a \in Alignments, NEW n \in Nat, n > 0, Memalign(a, n)
    PROVE  Arranged(live', free', cursor')
<1>. USE ArenaAssumption
<1> DEFINE to    == IF a >= ALIGN THEN a ELSE ALIGN
           start == RoundUp(cursor, to)
           gap   == At(cursor, start - cursor)
           new   == At(start, n)
<1>1. start \in Nat /\ cursor <= start /\ cursor \in Nat
  BY RoundUpBounds DEF Arranged
<1>2. Multiple(start)
  <2>1. PICK k \in Nat : start = k * to
    BY RoundUpBounds DEF Arranged
  <2>2. Multiple(to)
    <3>1. \A x \in Nat : x % ALIGN = 0 => x = (x \div ALIGN) * ALIGN /\ x \div ALIGN \in Nat
      BY SMTT(30)
    <3>2. to \in Nat /\ (to % ALIGN = 0 \/ to = 1 * ALIGN)
      OBVIOUS
    <3>. QED BY <3>1, <3>2 DEF Multiple
  <2>3. PICK j \in Nat : to = j * ALIGN
    BY <2>2 DEF Multiple
  <2>4. start = (k * j) * ALIGN /\ k * j \in Nat
    BY <2>1, <2>3
  <2>. QED BY <2>4 DEF Multiple
<1>. HIDE DEF start
<1>3. Multiple(start - cursor)
  BY <1>1, <1>2, MultipleDifference DEF Arranged
<1>4. /\ new \in Block /\ new.at = start /\ LiveTop(new) = start + Need(n) /\ Need(n) \in Nat
      /\ start < start + Need(n) /\ Multiple(start + Need(n))
  BY <1>1, <1>2, LiveBlock, NeedBounds, MultipleSum
<1>5. gap \in Block /\ gap.at = cursor /\ gap.size = start - cursor /\ Top(gap) = start
  BY <1>1 DEF At, Block, Top
<1>6. /\ live' = live \cup {new} /\ cursor' = start + Need(n) /\ start + Need(n) <= END
      /\ IF start > cursor THEN free' = free \cup {gap} ELSE free' = free
  BY DEF Memalign, start
<1>. HIDE DEF new, gap
<1>7. /\ \A c \in live : c.at \in Nat /\ LiveTop(c) \in Nat /\ LiveTop(c) <= cursor /\ c.at < cursor
      /\ \A f \in free : /\ f.at \in Nat /\ Top(f) \in Nat /\ f.at < cursor
                        /\ Top(f) < cursor
  <2>1. \A c \in live : c.at \in Nat /\ LiveTop(c) \in Nat
    BY NeedBounds DEF Arranged, Block, LiveTop
  <2>2. \A f \in free : f.at \in Nat /\ Top(f) \in Nat
    BY DEF Arranged, Block, Top
  <2>. QED BY <1>1, <2>1, <2>2 DEF Arranged, Inside, NoneTouch
<1>8. Inside(live', free', cursor')
  BY <1>1, <1>4, <1>5, <1>6, <1>7 DEF Arranged, Inside
<1>9. Separate(live', free')
  BY <1>1, <1>4, <1>5, <1>6, <1>7 DEF Arranged, Separate
<1>10. Covered(live', free', cursor')
  BY <1>1, <1>4, <1>5, <1>6 DEF Arranged, Covered, InLive, InFree
<1>11. NoneTouch(free', cursor')
  BY <1>1, <1>4, <1>5, <1>6, <1>7 DEF Arranged, NoneTouch
<1>. QED BY <1>1, <1>2, <1>3, <1>4, <1>5, <1>6, <1>8, <1>9, <1>10, <1>11 DEF Arranged

-----------------------------------------------------------------------------
HeapInv == Arranged(live, free, cursor)

LEMMA InitArranged == HeapInit => HeapInv
<1>1. \A x \in Nat : x % ALIGN = 0 => x = (x \div ALIGN) * ALIGN /\ x \div ALIGN \in Nat
  BY ArenaAssumption, SMTT(30)
<1>2. Multiple(BASE)
  BY <1>1, ArenaAssumption DEF Multiple
<1>. QED BY <1>2, ArenaAssumption
     DEF HeapInit, HeapInv, Arranged, Inside, Separate, Covered, NoneTouch, END

LEMMA StepArranged == HeapInv /\ [HeapNext]_hvars => HeapInv'
<1>. SUFFICES ASSUME HeapInv, [HeapNext]_hvars PROVE HeapInv'
  OBVIOUS
<1>1. CASE \E n \in 1 .. MaxSize : Malloc(n)
  BY <1>1, MallocArranges DEF HeapInv, Malloc
<1>2. CASE \E b \in live : Free(b)
  BY <1>2, InsertArranges DEF HeapInv, Free
<1>3. CASE \E b \in live, n \in 1 .. MaxSize : Realloc(b, n)
  <2>1. PICK b \in live, n \in 1 .. MaxSize : Realloc(b, n)
    BY <1>3
  <2> DEFINE lv == live \cup {At(Place(n), n)}
  <2>2. Arranged(lv, FreeAfterMalloc(n), CursorAfterMalloc(n))
    BY <2>1, MallocArranges DEF HeapInv, Realloc
  <2>3. b \in lv /\ live' = lv \ {b}
    BY <2>1 DEF Realloc
  <2>. QED BY <2>1, <2>2, <2>3, InsertArranges DEF HeapInv, Realloc
<1>4. CASE \E a \in Alignments, n \in 1 .. MaxSize : Memalign(a, n)
  BY <1>4, MemalignArranges DEF HeapInv
<1>5. CASE UNCHANGED hvars
  BY <1>5 DEF HeapInv, hvars, Arranged, Inside, Separate, Covered, NoneTouch, InLive, InFree
<1>. QED BY <1>1, <1>2, <1>3, <1>4, <1>5 DEF HeapNext

(* For every arena and history, sizes, free blocks and cursor are well typed. *)
THEOREM HeapTypeCorrect == HeapSpec => []HeapTypeOK
<1>1. HeapInv => HeapTypeOK
  BY DEF HeapInv, Arranged, HeapTypeOK
<1>. QED BY <1>1, InitArranged, StepArranged, PTL DEF HeapSpec

(* ... no byte is handed out twice and none is lost.                         *)
THEOREM ArenaIsTiled == HeapSpec => []Tiled
<1>1. HeapInv => Tiled
  BY DEF HeapInv, Arranged, Tiled
<1>. QED BY <1>1, InitArranged, StepArranged, PTL DEF HeapSpec

(* ... free blocks touch neither each other nor the cursor.                  *)
THEOREM FreeIsCoalesced == HeapSpec => []Coalesced
<1>1. HeapInv => Coalesced
  BY DEF HeapInv, Arranged, Coalesced
<1>. QED BY <1>1, InitArranged, StepArranged, PTL DEF HeapSpec

(* ... and once everything is freed the arena is whole again: a free block   *)
(* that is the only neighbour of the cursor would touch it.                  *)
THEOREM EmptyArenaIsWhole == HeapSpec => []WholeWhenEmpty
<1>1. HeapInv => WholeWhenEmpty
  <2> SUFFICES ASSUME HeapInv, live = {} PROVE free = {} /\ cursor = BASE
    BY DEF WholeWhenEmpty
  <2>1. cursor \in Nat /\ BASE \in Nat /\ BASE <= cursor
    BY ArenaAssumption DEF HeapInv, Arranged, Inside
  <2>2. cursor = BASE
    <3> SUFFICES ASSUME cursor # BASE PROVE FALSE
      OBVIOUS
    <3>1. cursor - 1 \in BASE .. (cursor - 1)
      BY <2>1
    <3>2. PICK f \in free : InFree(f, cursor - 1)
      BY <3>1 DEF HeapInv, Arranged, Covered
    <3>3. Top(f) \in Nat /\ Top(f) <= cursor /\ Top(f) # cursor
      BY DEF HeapInv, Arranged, Inside, NoneTouch, Block, Top
    <3>. QED BY <2>1, <3>2, <3>3 DEF InFree
  <2>3. free = {}
    BY <2>1, <2>2 DEF HeapInv, Arranged, Inside, Block, Top
  <2>. QED BY <2>2, <2>3
<1>. QED BY <1>1, InitArranged, StepArranged, PTL DEF HeapSpec

(* If no byte of a run is live and no free block is large enough for it, the *)
(* run reaches above the cursor: below it two free blocks would touch.       *)
LEMMA NullMeansFull == HeapInv => NullOnlyWhenFull
<1>. USE ArenaAssumption
<1>. SUFFICES ASSUME HeapInv, NEW n \in 1 .. MaxSize, ~CanTake(n), ~CanBump(n),
                     NEW a \in BASE .. (END - Need(n)),
                     \A b \in live : ~(b.at < a + Need(n) /\ a < LiveTop(b))
              PROVE  FALSE
  BY DEF NullOnlyWhenFull
<1> DEFINE need == Need(n)
<1>1. need \in Nat /\ need > 0 /\ a \in Nat /\ BASE <= a
  BY NeedBounds
<1>2. /\ cursor \in Nat /\ END \in Nat
      /\ cursor + need > END /\ a < cursor
  BY <1>1 DEF HeapInv, Arranged, CanBump, END
<1>3. \A f \in free : /\ f.at \in Nat /\ f.size \in Nat /\ f.size < need /\ Top(f) = f.at + f.size
                      /\ Top(f) < cursor
  <2>1. \A f \in free : f.at \in Nat /\ f.size \in Nat /\ f.size < need
    BY <1>1 DEF HeapInv, Arranged, Block, CanTake, Fits
  <2>2. \A f \in free : Top(f) <= cursor /\ Top(f) # cursor
    BY DEF HeapInv, Arranged, Inside, NoneTouch
  <2>. QED BY <1>2, <2>1, <2>2 DEF Top
<1>. HIDE DEF need
<1>4. ASSUME NEW x \in Nat, a <= x, x < a + need, x < cursor
      PROVE  \E f \in free : InFree(f, x)
  <2>1. x \in BASE .. (cursor - 1)
    BY <1>1, <1>2, <1>4
  <2>2. \A b \in live : b \in Block /\ b.at \in Nat /\ LiveTop(b) \in Nat
    BY NeedBounds DEF HeapInv, Arranged, Block, LiveTop
  <2>3. \A b \in live : ~InLive(b, x)
    BY <1>1, <1>4, <2>2 DEF InLive, need
  <2>. QED BY <2>1, <2>3 DEF HeapInv, Arranged, Covered
<1>5. PICK f \in free : InFree(f, a)
  BY <1>1, <1>2, <1>4
<1>6. Top(f) \in Nat /\ a <= Top(f) /\ Top(f) < a + need /\ Top(f) < cursor /\ f.at <= a
  BY <1>1, <1>3, <1>5 DEF InFree
<1>7. PICK g \in free : InFree(g, Top(f))
  BY <1>4, <1>6
<1>8. g.at \in Nat /\ Top(g) \in Nat /\ g.at <= Top(f) /\ Top(f) < Top(g)
  BY <1>3, <1>7 DEF InFree
<1>9. g # f /\ Top(f) # g.at
  BY <1>6, <1>8 DEF HeapInv, Arranged, NoneTouch
<1>10. Top(f) <= g.at \/ Top(g) <= f.at
  BY <1>9 DEF HeapInv, Arranged, Separate
<1>. QED BY <1>1, <1>3, <1>6, <1>8, <1>9, <1>10

(* ... malloc answers NULL only when no run of the arena has room.           *)
THEOREM NullIsLastResort == HeapSpec => []NullOnlyWhenFull
<1>. QED BY NullMeansFull, InitArranged, StepArranged, PTL DEF HeapSpec

-----------------------------------------------------------------------------
(* A block that the arena has room for and that touches no live one is what  *)
(* the abstract heap calls fresh.                                            *)
LEMMA NewIsFresh ==
    ASSUME NEW lv, NEW fr, NEW cur, NEW new \in lv, Arranged(lv, fr, cur),
           NEW others, others \subseteq lv, new \notin others
    PROVE  AH!Fresh(new, others)
<1>. USE ArenaAssumption
<1>1. \A b \in lv : /\ b.at \in Nat /\ b.size \in Nat /\ Need(b.size) \in Nat
                    /\ b.size <= Need(b.size) /\ LiveTop(b) = b.at + Need(b.size)
  BY NeedBounds DEF Arranged, Block, LiveTop
<1>2. BASE <= new.at /\ LiveTop(new) <= cur /\ cur <= END /\ cur \in Nat /\ END \in Nat
  BY DEF Arranged, Inside, END
<1>3. BASE <= new.at /\ new.at + new.size <= END
  BY <1>1, <1>2
<1>4. ASSUME NEW c \in others PROVE AH!Bytes(new) \cap AH!Bytes(c) = {}
  <2>1. c \in lv /\ c # new
    OBVIOUS
  <2>2. LiveTop(new) <= c.at \/ LiveTop(c) <= new.at
    BY <2>1 DEF Arranged, Separate
  <2>3. new.at + new.size <= c.at \/ c.at + c.size <= new.at
    BY <1>1, <2>1, <2>2
  <2>. QED BY <1>1, <2>1, <2>3 DEF AH!Bytes
<1>. QED BY <1>3, <1>4 DEF AH!Fresh

LEMMA HeapStepRefines == HeapInv /\ [HeapNext]_hvars => [AH!Next]_live
<1>. SUFFICES ASSUME HeapInv, [HeapNext]_hvars PROVE [AH!Next]_live
  OBVIOUS
<1>1. ASSUME NEW n \in 1 .. MaxSize, Malloc(n) PROVE AH!Next
  <2> DEFINE new == At(Place(n), n)
  <2>1. /\ Arranged(live \cup {new}, FreeAfterMalloc(n), CursorAfterMalloc(n))
        /\ new \notin live /\ live' = live \cup {new}
    BY <1>1, MallocArranges DEF HeapInv, Malloc
  <2>. HIDE DEF new
  <2>2. AH!Fresh(new, live)
    BY <2>1, NewIsFresh
  <2>3. new \in live' /\ AH!Allocate(new)
    BY <2>1, <2>2 DEF AH!Allocate
  <2>. QED BY <2>3 DEF AH!Next
<1>2. ASSUME NEW b \in live, Free(b) PROVE AH!Next
  BY <1>2 DEF Free, AH!Next, AH!Release
<1>3. ASSUME NEW b \in live, NEW n \in 1 .. MaxSize, Realloc(b, n) PROVE AH!Next
  <2> DEFINE new == At(Place(n), n)
  <2>1. /\ Arranged(live \cup {new}, FreeAfterMalloc(n), CursorAfterMalloc(n))
        /\ new \notin live /\ live' = (live \cup {new}) \ {b}
    BY <1>3, MallocArranges DEF HeapInv, Realloc
  <2>. HIDE DEF new
  <2>2. AH!Fresh(new, live)
    BY <2>1, NewIsFresh
  <2>3. new \in live' /\ live' = (live \ {b}) \cup {new}
    BY <2>1
  <2>4. AH!Move(b, new)
    BY <2>2, <2>3 DEF AH!Move
  <2>. QED BY <2>3, <2>4 DEF AH!Next
<1>4. ASSUME NEW a \in Alignments, NEW n \in 1 .. MaxSize, Memalign(a, n) PROVE AH!Next
  <2> DEFINE start == RoundUp(cursor, IF a >= ALIGN THEN a ELSE ALIGN)
             new   == At(start, n)
  <2>1. Arranged(live', free', cursor') /\ live' = live \cup {new}
    <3>1. n \in Nat /\ n > 0
      OBVIOUS
    <3>2. Arranged(live', free', cursor')
      BY <1>4, <3>1, MemalignArranges DEF HeapInv
    <3>. QED BY <1>4, <3>2 DEF Memalign
  <2>2. new \notin live
    <3>1. cursor \in Nat /\ start \in Nat /\ cursor <= start
      BY RoundUpBounds, ArenaAssumption DEF HeapInv, Arranged
    <3>2. new.at = start
      BY DEF At
    <3>3. \A b \in live : b.at \in Nat /\ b.at < LiveTop(b) /\ LiveTop(b) \in Nat /\ LiveTop(b) <= cursor
      BY NeedBounds DEF HeapInv, Arranged, Inside, Block, LiveTop
    <3>. QED BY <3>1, <3>2, <3>3
  <2>. HIDE DEF new
  <2>3. AH!Fresh(new, live)
    BY <2>1, <2>2, NewIsFresh
  <2>4. new \in live' /\ AH!Allocate(new)
    BY <2>1, <2>3 DEF AH!Allocate
  <2>. QED BY <2>4 DEF AH!Next
<1>5. CASE UNCHANGED hvars
  BY <1>5 DEF hvars
<1>. QED BY <1>1, <1>2, <1>3, <1>4, <1>5 DEF HeapNext

(* Every step of the allocator is a step of the heap that the guest was      *)
(* promised, or changes nothing of it: the first-fit search, the splitting,  *)
(* the merging and the sinking of the cursor never show.                     *)
THEOREM AllocatorImplementsHeap == HeapSpec => ImplementsHeap
<1>1. HeapInit => AH!Init
  BY DEF HeapInit, AH!Init
<1>. QED BY <1>1, InitArranged, StepArranged, HeapStepRefines, PTL
         DEF HeapSpec, ImplementsHeap, AH!Spec
=============================================================================
