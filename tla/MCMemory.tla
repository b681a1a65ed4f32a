------------------------------ MODULE MCMemory ------------------------------
(* GuestMemory on an address space of seven two-byte pages: one page of      *)
(* heap, three of anonymous arena, two of modules; and HeapAllocator on an   *)
(* arena of seven two-byte cells.  malloc works inside one mapping that was  *)
(* made before the guest runs, and changes no region: neither reads what the *)
(* other writes, so each is explored while the other is as it began.         *)
EXTENDS GuestMemory, HeapAllocator, TLC

CONSTANTS MaxRegions \* bound: the regions that exist at once

FewRegions == Cardinality(regions) <= MaxRegions

MemoryInit == Init /\ HeapInit

MemoryNext ==
    \/ HeapInit /\ Next /\ UNCHANGED hvars
    \/ Init /\ HeapNext /\ UNCHANGED vars

MemorySpec == MemoryInit /\ [][MemoryNext]_<<vars, hvars>>
=============================================================================
