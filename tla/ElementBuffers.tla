--------------------------- MODULE ElementBuffers ---------------------------
(***************************************************************************)
(* The copies of array elements and string characters that the JNI         *)
(* functions lend to the guest, in blocks of the heap.  A copy of an array *)
(* is filed under its pointer with the reference it was asked for by, and  *)
(* taken back only by a release with that same reference; copies of        *)
(* strings are known by their pointer alone.                               *)
(*                                                                         *)
(* JniRefs has how references come and go.  Here an array has one handle   *)
(* while some reference to it is left, and a new one when it is known      *)
(* again.  What is copied is left out.                                     *)
(***************************************************************************)
EXTENDS Integers, FiniteSets, Functions

CONSTANTS
    PrimitiveArrays, \* arrays of numbers or booleans
    Pointers,    \* bound: the blocks of the heap
    MaxHandle    \* bound: the largest handle

ASSUME ElementBuffersAssumption == MaxHandle \in Nat

VARIABLES
    handleOf,    \* the handle of each array, 0 when no reference is left
    nextHandle,  \* handles are not used twice
    blocks,      \* the blocks of the heap that are taken
    arrayPtrs,   \* _array_ptrs; of is a history: the array the copy was made of
    stringPtrs,  \* _string_ptrs
    held,        \* history: the copies that the guest was given and has not given back
    lost,        \* history: copies whose pointer the guest never got
    strayed      \* history: elements were copied back into another array

bvars == <<handleOf, nextHandle, blocks, arrayPtrs, stringPtrs, held, lost, strayed>>

BInit ==
    /\ handleOf = [a \in PrimitiveArrays |-> 0] /\ nextHandle = 1
    /\ blocks = {} /\ arrayPtrs = <<>> /\ stringPtrs = {}
    /\ held = {} /\ lost = {} /\ strayed = FALSE

(* An array gets its first reference, or loses its last one.                 *)
Known(a) ==
    /\ handleOf[a] = 0 /\ nextHandle <= MaxHandle
    /\ handleOf' = [handleOf EXCEPT ![a] = nextHandle]
    /\ nextHandle' = nextHandle + 1
    /\ UNCHANGED <<blocks, arrayPtrs, stringPtrs, held, lost, strayed>>

Forgotten(a) ==
    /\ handleOf[a] # 0
    /\ handleOf' = [handleOf EXCEPT ![a] = 0]
    /\ UNCHANGED <<nextHandle, blocks, arrayPtrs, stringPtrs, held, lost, strayed>>

(***************************************************************************)
(* A copy is filed, then isCopy is written, which may raise; after that    *)
(* the guest gets the pointer.  Asking for one of a full heap is answered  *)
(* with an OutOfMemoryError.                                               *)
(***************************************************************************)
Lends(p) ==
    /\ p \notin blocks
    /\ blocks' = blocks \cup {p}
    /\ \/ held' = held \cup {p} /\ UNCHANGED lost
       \/ lost' = lost \cup {p} /\ UNCHANGED held
    /\ UNCHANGED <<handleOf, nextHandle, strayed>>

GetElements(a, p) ==
    /\ handleOf[a] # 0
    /\ Lends(p)
    /\ arrayPtrs' = [q \in DOMAIN arrayPtrs \cup {p} |->
                        IF q = p THEN [ref |-> handleOf[a], of |-> a] ELSE arrayPtrs[q]]
    /\ UNCHANGED stringPtrs

GetChars(p) ==
    /\ Lends(p)
    /\ stringPtrs' = stringPtrs \cup {p}
    /\ UNCHANGED arrayPtrs

LendsNothing == blocks = Pointers /\ UNCHANGED bvars

(* Fault: a copy is taken back by a reference to any array.                  *)
FiledAnywhere(p, a) == p \in DOMAIN arrayPtrs /\ handleOf[a] # 0

FiledUnder(p, a) ==
    /\ p \in DOMAIN arrayPtrs
    /\ handleOf[a] # 0 /\ arrayPtrs[p].ref = handleOf[a]

(* The guest releases a copy that it holds, by the reference of any array:   *)
(* it gives it back if it says so and this is the array.  Any other release  *)
(* is ignored, and so is one by a reference that means nothing any more.     *)
IsOf(p, a) == p \in DOMAIN arrayPtrs /\ arrayPtrs[p].of = a

GivesBack(p) == held' = held \ {p}

ReleaseElements(a, p, mode) ==
    /\ p \in held /\ handleOf[a] # 0
    /\ IF mode # "commit" /\ IsOf(p, a) THEN GivesBack(p) ELSE UNCHANGED held
    /\ IF FiledUnder(p, a)
       THEN /\ strayed' = (strayed \/ (mode # "abort" /\ ~IsOf(p, a)))
            /\ IF mode # "commit"
               THEN arrayPtrs' = Restrict(arrayPtrs, DOMAIN arrayPtrs \ {p}) /\ blocks' = blocks \ {p}
               ELSE UNCHANGED <<arrayPtrs, blocks>>
       ELSE UNCHANGED <<arrayPtrs, blocks, strayed>>
    /\ UNCHANGED <<handleOf, nextHandle, stringPtrs, lost>>

ReleaseChars(p) ==
    /\ p \in held
    /\ IF p \in stringPtrs
       THEN stringPtrs' = stringPtrs \ {p} /\ blocks' = blocks \ {p} /\ GivesBack(p)
       ELSE UNCHANGED <<stringPtrs, blocks, held>>
    /\ UNCHANGED <<handleOf, nextHandle, arrayPtrs, lost, strayed>>

BNext ==
    \/ \E a \in PrimitiveArrays : Known(a) \/ Forgotten(a)
    \/ LendsNothing
    \/ \E p \in Pointers : GetChars(p) \/ ReleaseChars(p)
    \/ \E a \in PrimitiveArrays, p \in Pointers :
          GetElements(a, p) \/ \E mode \in {"copy", "commit", "abort"} : ReleaseElements(a, p, mode)

BSpec == BInit /\ [][BNext]_bvars

-----------------------------------------------------------------------------
(* A copy stays allocated while the guest holds it, and is freed when the    *)
(* guest gives it back by any reference to its array, whatever it releases   *)
(* by mistake; unless the array had no reference in between, which makes the *)
(* release go unnoticed.  Elements go back into the array they came from.    *)
OutOfReach ==
    lost \cup {p \in DOMAIN arrayPtrs : arrayPtrs[p].ref # handleOf[arrayPtrs[p].of]}

BuffersReturned ==
    /\ blocks = DOMAIN arrayPtrs \cup stringPtrs
    /\ DOMAIN arrayPtrs \cap stringPtrs = {}
    /\ held \subseteq blocks
    /\ blocks \ held \subseteq OutOfReach
    /\ ~strayed
=============================================================================
