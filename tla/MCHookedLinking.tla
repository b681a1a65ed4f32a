--------------------------- MODULE MCHookedLinking ---------------------------
(* Two libraries: a imports s, which only b provides, and does not need b.    *)
EXTENDS HookedLinking, TLC
CONSTANTS a, b, s

TwoLibs ==
    { [files |-> Libs, needs |-> [l \in Libs |-> <<>>],
       strong |-> (a :> {} @@ b :> {s}), weak |-> [l \in Libs |-> {}],
       imports |-> (a :> {s} @@ b :> {}),
       rejected |-> {}, ifunc |-> {}, app |-> Libs] }
=============================================================================
