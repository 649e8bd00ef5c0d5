---------------------------- MODULE MCLiveMatch ----------------------------
(* Instances of LiveMatch for TLC. *)
EXTENDS LiveMatch, TLC

CONSTANTS c, i1, i2

\* A scorer who plays one friend, and one who plays with a guest against two
\* invited friends.
Lineups == {[players |-> {c, i1}, singles |-> TRUE],
            [players |-> {c, i1, i2}, singles |-> FALSE],
            [players |-> {c}, singles |-> TRUE]}

Slots == Permutations(Req) \cup Permutations(Hist) \cup Permutations(Token)
         \cup Permutations(Live)

=============================================================================
