------------------------------ MODULE Bracket ------------------------------
(***************************************************************************)
(* What a single elimination bracket promises, without slots, reports and  *)
(* requests: a match is decided once, after the two matches that feed it,  *)
(* in favour of one of their winners, and the winner of the final, once    *)
(* there is one, may be crowned.                                           *)
(***************************************************************************)
EXTENDS Draws

CONSTANT Fields \* the ordered fields a bracket may be drawn from

VARIABLES
    field,   \* the order of the draw
    won,     \* [Nodes -> player or None]: who won each match
    champion

bvars == <<field, won, champion>>

Match == Nodes(Len(field))

Feeders(m) == {k \in Match : NextOf(Len(field), k) = m}

\* Who plays a match: the draw says it of the first round, the matches that
\* feed it of the others.
Contenders(m) ==
    IF m[1] = 1
    THEN {Opening(field, m[2]).a, Opening(field, m[2]).b} \ {None}
    ELSE {won[k] : k \in Feeders(m)}

\* A bye is decided by the draw.
Init ==
    /\ field \in Fields
    /\ won = [m \in Match |-> IF m[1] = 1 THEN Opening(field, m[2]).winner ELSE None]
    /\ champion = None

Decide(m, w) ==
    /\ won[m] = None
    /\ None \notin Contenders(m)
    /\ w \in Contenders(m)
    /\ won' = [won EXCEPT ![m] = w]
    /\ UNCHANGED <<field, champion>>

Crown ==
    /\ champion = None
    /\ \E m \in Match :
        /\ NextOf(Len(field), m) = None
        /\ won[m] # None
        /\ champion' = won[m]
    /\ UNCHANGED <<field, won>>

Next ==
    \/ \E m \in Match : \E w \in Contenders(m) : Decide(m, w)
    \/ Crown

Spec == Init /\ [][Next]_bvars

=============================================================================
