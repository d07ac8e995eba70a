---------------------------- MODULE MCTargetSets ----------------------------
(* Small instances of TargetSets. *)
EXTENDS TargetSets

TwoDevices == {1, 2}
ThreeDevices == {1, 2, 3}
NoSpecs == [d \in {} |-> 0]
OneGroup == [d \in {1, 2} |-> 100]
ThreeGroup == [d \in {1, 2, 3} |-> 100]
=============================================================================
