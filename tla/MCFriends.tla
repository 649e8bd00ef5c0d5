------------------------------ MODULE MCFriends ------------------------------
(* Instances of Friends for TLC. *)
EXTENDS Friends, TLC

Alike == Permutations(Account) \cup Permutations(Row) \cup Permutations(Req)

=============================================================================
