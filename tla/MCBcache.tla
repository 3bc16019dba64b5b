------------------------------ MODULE MCBcache ------------------------------
(* Bcache for model checking: the calling processes are interchangeable, and so are the readers. *)
EXTENDS Bcache, TLC

Symmetry == Permutations(Callers) \cup Permutations(Readers)
=============================================================================
