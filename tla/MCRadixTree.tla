---------------------------- MODULE MCRadixTree ----------------------------
(* Instances of RadixTree for TLC. *)
EXTENDS RadixTree, TLC

CONSTANTS a, b, c

\* Texts that extend one another, that fork, and that have nothing in common.
Nested == {<<a>>, <<a, b>>, <<a, c>>}
Forked == {<<a, b>>, <<a, c>>}
\* The second is what is left of the first after a split of the third.
Repeating == {<<a, a, b>>, <<a, b>>, <<a, c>>}
Single == {<<a>>, <<b>>}

TreeSymmetry == Permutations(Task) \cup Permutations(Tenant)

=============================================================================
