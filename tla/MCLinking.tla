------------------------------ MODULE MCLinking ------------------------------
(* Three libraries and two symbols.  p provides s (weakly in one library,     *)
(* strongly in another); dependency graphs of two levels, cycles, and what    *)
(* one library of a cycle needs alone.                                        *)
EXTENDS Linking, TLC
CONSTANTS a, b, c, s, t

Graphs ==
    { [l \in Libs |-> <<b, c>> ],
      (a :> <<b, c>> @@ b :> <<>> @@ c :> <<>>),
      (a :> <<b>> @@ b :> <<c, a>> @@ c :> <<>>),
      (a :> <<c, b>> @@ b :> <<c>> @@ c :> <<a>>),
      (a :> <<b, c>> @@ b :> <<a>> @@ c :> <<>>),
      (a :> <<b>> @@ b :> <<>> @@ c :> <<>>) }

AllDisks ==
    { [files |-> f, needs |-> n,
       strong  |-> (a :> {} @@ b :> {} @@ c :> {s}),
       weak    |-> (a :> {t} @@ b :> {s} @@ c :> {}),
       imports |-> (a :> {s} @@ b :> {s, t} @@ c :> {t}),
       rejected |-> r, ifunc |-> {b}, app |-> p] :
         f \in {Libs, Libs \ {b}}, n \in Graphs,
         r \in {{}, {b}, {a}}, p \in {{b}, {b, c}} }
=============================================================================
