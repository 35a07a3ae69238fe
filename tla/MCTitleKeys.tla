---------------------------- MODULE MCTitleKeys ----------------------------
(***************************************************************************)
(* Instances of TitleKeys for TLC: keys of two cells.                      *)
(***************************************************************************)
EXTENDS TitleKeys

TwoBlocks == {0, 5}
ThreeBlocks == {0, 2, 5}

\* The key that is decrypted or cracked, and the zero key of a title that seemed
\* to be unencrypted.
OneKey == [b \in Blocks |-> {<<b + 1, b + 2>>}]
TwoKeys == [b \in Blocks |-> {<<b + 1, b + 2>>, <<0, 0>>}]

\* Everything that may fail without leaving half a key in a file.
CleanFailures == {"open", "create", "malloc", "titlekey", "kill"}

Symmetry == Permutations(Handles)

=============================================================================
