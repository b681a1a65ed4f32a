------------------------------ MODULE MCJniRefs ------------------------------
(* Two objects and two handles: both objects at once, or one of them that is  *)
(* forgotten and known again under another handle.                            *)
EXTENDS JniRefs, FiniteSetsExt, TLC

CONSTANTS MaxStrong \* bound: global and weak references that local ones are mixed with

FewGlobals == MapThenSumSet(LAMBDA r : owed[r], Ref) + Cardinality(vm.weak) <= MaxStrong

Symmetry == Permutations(Obj)

(* Handles are not used twice, so a mark need not name those that mean        *)
(* nothing any more; entries a crash abandoned are only counted; of the last  *)
(* answer it matters whether it was right, and of a pending exception that    *)
(* there is one: ExceptionOccurred is an Obtain.                              *)
Live(S) == S \cap DOMAIN vm.objects

Distinct ==
    LET base == IF host.running THEN host ELSE [NoRun EXCEPT !.calls = Len(calls), !.frames = Len(frames)]
    IN  <<vm, owed, pending # NoObj, Live(outside), AnswersAreValid, CallersKeepLocals,
          [base EXCEPT !.mark = Live(@)],
          [k \in DOMAIN frames |-> IF k > base.frames THEN Live(frames[k]) ELSE {}],
          [k \in DOMAIN calls |-> IF k > base.calls
                                  THEN [calls[k] EXCEPT !.mark = Live(@)]
                                  ELSE [mark |-> {}, frames |-> 0, kept |-> {}]]>>
=============================================================================
