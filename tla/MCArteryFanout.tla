---------------------------- MODULE MCArteryFanout ----------------------------
(* Instances of ArteryFanout for TLC. *)
EXTENDS ArteryFanout, TLC

\* The arteries that may break are interchangeable.
FailingSymmetry == Permutations(MayFail)

Fins == {Fin}
=============================================================================
