------------------------------ MODULE MCDraws -------------------------------
(* Instances of Computations for TLC. *)
EXTENDS Computations

\* A clear win and a tie
FewScores == {<<16, 8>>, <<12, 12>>}

=============================================================================
