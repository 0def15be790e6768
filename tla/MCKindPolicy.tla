---------------------------- MODULE MCKindPolicy ----------------------------
(***************************************************************************)
(* Instances of KindPolicy: three kinds, so that an allowlist can hold one *)
(* kind, miss another and deny a third.                                    *)
(***************************************************************************)
EXTENDS KindPolicy, TLC

CONSTANTS k1, k2, k3, c1, c2

\* No lists; a denied kind; an allowlist of one kind; of two, and a denied kind.
MCKindConfigs == {[allowedKinds |-> {},   deniedKinds |-> {}],
                  [allowedKinds |-> {},   deniedKinds |-> {k3}],
                  [allowedKinds |-> {k1}, deniedKinds |-> {}],
                  [allowedKinds |-> {k1, k2}, deniedKinds |-> {k3}]}

CheckSymmetry == Permutations(Checks)
=============================================================================
