------------------------------ MODULE MCFdTable ------------------------------
(* Three descriptors and three handles: two ends or peers and a set watching  *)
(* them, or two sets that watch each other and a third handle.                *)
EXTENDS FdTable

CONSTANTS MaxEntries \* bound: the entries in all epoll sets

Entries(i) == IF Refers(fds, i) THEN Cardinality(DOMAIN files[i].watch) ELSE 0

FewEntries == MapThenSumSet(Entries, Ids) <= MaxEntries

(* What a handle no descriptor refers to still holds is never looked at.      *)
InUse ==
    <<fds, pipes, [i \in Ids |->
        IF Refers(fds, i) THEN files[i]
        ELSE [files[i] EXCEPT !.data = 0, !.handler = FALSE, !.watch = <<>>]]>>
=============================================================================
