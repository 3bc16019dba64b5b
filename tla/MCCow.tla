------------------------------- MODULE MCCow -------------------------------
(* Cow for model checking: physical pages are interchangeable, and so are the *)
(* processes other than the first.                                            *)
EXTENDS Cow, TLC

Symmetry == Permutations(Pages) \cup Permutations(Procs \ {init})
=============================================================================
