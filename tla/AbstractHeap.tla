---------------------------- MODULE AbstractHeap ----------------------------
(***************************************************************************)
(* What malloc promises to the guest: the live blocks lie in the arena, no *)
(* two of them share a byte, a block stays where it is and as long as it   *)
(* is until it is freed, and a reallocated block moves to a place that was *)
(* free while the old one was still live, so that it can be copied.        *)
(***************************************************************************)
EXTENDS Integers

CONSTANTS BASE, END      \* the arena

VARIABLE live            \* blocks [at, size]

Bytes(b) == b.at .. (b.at + b.size - 1)

Fresh(b, blocks) ==
    /\ BASE <= b.at /\ b.at + b.size <= END
    /\ \A c \in blocks : Bytes(b) \cap Bytes(c) = {}

Init == live = {}

Allocate(b) == Fresh(b, live) /\ live' = live \cup {b}
Release(b)  == b \in live /\ live' = live \ {b}
Move(b, c)  == b \in live /\ Fresh(c, live) /\ live' = (live \ {b}) \cup {c}

Next ==
    \/ \E b \in live' : Allocate(b)
    \/ \E b \in live : Release(b)
    \/ \E b \in live, c \in live' : Move(b, c)

Spec == Init /\ [][Next]_live
=============================================================================
