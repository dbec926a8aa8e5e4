------------------------ MODULE MCRuntimeGenerations ------------------------
(* Three generations: one draining, one current, one being prepared.       *)
EXTENDS RuntimeGenerations, TLC

(* Operations of one kind are interchangeable.                             *)
Symmetry == Permutations(Work)
=============================================================================
