------------------------------ MODULE MCInput ------------------------------
(* Input for TLC: tabs, fingers and the texts that fit are interchangeable. *)
EXTENDS Input, TLC

Symmetry ==
  Permutations(Tabs) \union Permutations(Fingers)
    \union Permutations(Texts \ TooLong)

=============================================================================
