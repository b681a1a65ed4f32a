------------------------------ MODULE MCVfsNames -----------------------------
(* A directory with a file in it, both of the host's, and another name.      *)
EXTENDS VfsNames

CONSTANTS
    dir, inside, other,
    MaxRefs   \* bound: the names in the overlay and the open descriptors

FewRefs == Cardinality(DOMAIN names.overlay) + Cardinality(DOMAIN open) <= MaxRefs

Paths == [n \in Name |-> IF n = dir THEN {inside} ELSE {}]

(* Which buffer is which number makes no difference: a buffer is known by    *)
(* what it contains, and by the names and descriptors that have it.          *)
Known(b) ==
    <<IF b \in Buffer THEN contents[b] ELSE Nothing,
      {n \in DOMAIN names.overlay : names.overlay[n] = b},
      {fd \in DOMAIN open : open[fd].buffer = b}>>

View ==
    <<names.made, names.deleted, [n \in DOMAIN names.overlay |-> Known(names.overlay[n])],
      [fd \in DOMAIN open |-> <<open[fd].writable, open[fd].at, Known(open[fd].buffer)>>], gone>>
=============================================================================
