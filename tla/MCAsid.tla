------------------------------ MODULE MCAsid ------------------------------
(* Spaces that may end, or whose page may go, are told apart from the rest. *)
EXTENDS Asid, TLC
Symmetry ==
    Permutations(CPUs) \union Permutations(ASIDs)
        \union Permutations(Mortal) \union Permutations(Spaces \ (Mortal \union Paged))
=============================================================================
