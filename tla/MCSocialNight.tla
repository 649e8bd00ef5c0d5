--------------------------- MODULE MCSocialNight ---------------------------
(* Instances of SocialNight for TLC. *)
EXTENDS SocialNight, TLC

Interchangeable == Permutations(Req)

=============================================================================
