---------------------------- MODULE AbstractNames ----------------------------
(***************************************************************************)
(* What a process may expect of file names: each shows the contents of one *)
(* file or nothing, and one call changes what one name shows, or moves     *)
(* what one name shows to another.                                         *)
(***************************************************************************)
CONSTANTS Name, Content, Nothing

VARIABLE shown   \* what each name shows

Init == shown \in [Name -> Content \cup {Nothing}]

Change(n) ==
    /\ shown' \in [Name -> Content \cup {Nothing}]
    /\ \A other \in Name \ {n} : shown'[other] = shown[other]

Move(old, new) == shown' = [shown EXCEPT ![old] = Nothing, ![new] = shown[old]]

Next == \E n \in Name : Change(n) \/ \E old \in Name \ {n} : Move(old, n)

Spec == Init /\ [][Next]_shown
=============================================================================
