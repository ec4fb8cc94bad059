-------------------------- MODULE MCControlClient --------------------------
(* Instances of ControlClient for TLC: ids are model values; the first     *)
(* event of a stream is the one that does not decode.                      *)
EXTENDS ControlClient, TLC

MCUndecodable == {1}
MCSymmetry == Permutations(Calls) \union Permutations(Subs)
=============================================================================
