------------------------------ MODULE MCHistory ------------------------------
(* Instances of History for TLC. *)
EXTENDS History, TLC

Singles(s, x, y, by, w) ==
    [sport |-> s, a |-> x, a2 |-> None, b |-> y, b2 |-> None, by |-> by,
     partners |-> FALSE, setsA |-> IF w = "A" THEN 2 ELSE 0, setsB |-> IF w = "A" THEN 1 ELSE 2, winner |-> w]

\* Two players rate each other from either side, a third is beaten by one, or
\* plays doubles with a guest against the two, in another sport; and one records
\* a match against a guest.
Played == {Singles("TENNIS", 1, 2, 1, "A"), Singles("TENNIS", 2, 1, 1, "A"),
           Singles("TENNIS", 3, 2, 2, "B"), Singles("TENNIS", None, 1, 1, "B"),
           [Singles("PADEL", 1, 3, 2, "B") EXCEPT !.a2 = 2, !.partners = TRUE]}

Alike == Permutations(Req)

=============================================================================
