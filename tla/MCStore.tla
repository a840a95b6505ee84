------------------------------- MODULE MCStore -------------------------------
(* Small instances of the flag store for TLC. *)
EXTENDS Store, TLC

\* Node allocations and threads of a kind are interchangeable.
Symmetry ==
    Permutations(Nodes) \cup Permutations(Readers)
        \cup Permutations(Writers) \cup Permutations(Callbacks)
=============================================================================
