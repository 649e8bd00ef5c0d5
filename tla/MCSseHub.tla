------------------------------ MODULE MCSseHub ------------------------------
(* Instances of SseHub for TLC. *)
EXTENDS SseHub, TLC

Interchangeable == Permutations(Conn) \cup Permutations(Pub)

=============================================================================
