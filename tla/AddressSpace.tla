---------------------------- MODULE AddressSpace ----------------------------
(***************************************************************************)
(* What the guest address space promises, whatever bookkeeping keeps it:   *)
(* every page is a hole or carries the permissions and the label of the    *)
(* mapping it belongs to, and each call changes exactly the run of pages   *)
(* it was asked to change, all of it or none.  GuestMemory implements it.  *)
(***************************************************************************)
EXTENDS Integers

CONSTANTS
    Page,      \* the pages, each named by its first address
    Perms,     \* page permissions
    Labels,    \* names given to mappings
    Hole       \* what a page holds when nothing is mapped there

VARIABLE page

Mapping == [perms : Perms, label : Labels]

Init == page = [a \in Page |-> Hole]

Runs == {{a \in Page : lo <= a /\ a <= hi} : lo, hi \in Page}

Mapped(S) == \A a \in S : page[a] # Hole

(* A mapping is placed; what was in its way is discarded. *)
Place(S, m) == page' = [a \in Page |-> IF a \in S THEN m ELSE page[a]]

(* Only a run that is wholly mapped can be unmapped or reprotected, and a   *)
(* change of permissions keeps the label of every page it covers.           *)
Remove(S) ==
    /\ Mapped(S)
    /\ page' = [a \in Page |-> IF a \in S THEN Hole ELSE page[a]]

Reprotect(S, p) ==
    /\ Mapped(S)
    /\ page' = [a \in Page |-> IF a \in S THEN [page[a] EXCEPT !.perms = p] ELSE page[a]]

(* A mapping moves: the new run appears and the old one goes away. *)
Move(S) ==
    /\ \A a \in S : page'[a] = Hole
    /\ \E T \in Runs :
          /\ \A a \in Page \ (S \cup T) : page'[a] = page[a]
          /\ \E m \in Mapping : \A a \in T \ S : page'[a] = m

Next ==
    \/ \E S \in Runs, m \in Mapping : Place(S, m)
    \/ \E S \in Runs : Remove(S)
    \/ \E S \in Runs, p \in Perms : Reprotect(S, p)
    \/ \E S \in Runs : Move(S)

Spec == Init /\ [][Next]_page
=============================================================================
