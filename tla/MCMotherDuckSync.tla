-------------------------- MODULE MCMotherDuckSync --------------------------
(* Small instances of MotherDuckSync for TLC: the constants are in the cfg files. *)
EXTENDS MotherDuckSync, TLC

\* Relation names are interchangeable.
Symmetry == Permutations(Names)
=============================================================================
