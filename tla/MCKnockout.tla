----------------------------- MODULE MCKnockout -----------------------------
(* Instances of Knockout for TLC. *)
EXTENDS Knockout

CONSTANTS p1, p2, p3, p4

\* A full bracket, and one with a bye whose organizer plays.
FullOrBye == {<<p1, p2, p3, p4>>, <<Organizer, p1, p2>>}

Interchangeable == Permutations(Req)

=============================================================================
