---------------------------- MODULE MCTournament ----------------------------
(* Instances of Tournament for TLC. *)
EXTENDS Tournament, TLC

Interchangeable == Permutations(User) \cup Permutations(Seat) \cup Permutations(Desk)
                   \cup Permutations(Req)

=============================================================================
