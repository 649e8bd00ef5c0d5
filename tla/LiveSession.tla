---------------------------- MODULE LiveSession ----------------------------
(***************************************************************************)
(* What a live score session promises, with no requests in sight: it is    *)
(* opened as an invitation or as a running match, an invitation may turn   *)
(* into a running match, the score moves while it is open, and it is over  *)
(* exactly once.  From then on its score and the history row it points to  *)
(* never change, and no two sessions point to the same history row.        *)
(*                                                                         *)
(* LiveMatch implements this module: see Session there.                    *)
(***************************************************************************)
CONSTANTS
    Live,    \* identities of live sessions
    Hist,    \* identities of match-history rows
    Score,   \* abstract score snapshots
    NoScore, \* the score a session starts with
    None     \* absence of a history row

VARIABLES
    phase,   \* phase[l]: how far session l has come
    score,   \* score[l]: the score shown for l
    record   \* record[l]: the history row l was archived to, or None

vars == <<phase, score, record>>

Phase == {"none", "invited", "playing", "over"}

IsOpen(l) == phase[l] \in {"invited", "playing"}

Init ==
    /\ phase = [l \in Live |-> "none"]
    /\ score = [l \in Live |-> NoScore]
    /\ record = [l \in Live |-> None]

Open(l, p) ==
    /\ phase[l] = "none"
    /\ phase' = [phase EXCEPT ![l] = p]
    /\ UNCHANGED <<score, record>>

Accept(l) ==
    /\ phase[l] = "invited"
    /\ phase' = [phase EXCEPT ![l] = "playing"]
    /\ UNCHANGED <<score, record>>

Play(l, s) ==
    /\ IsOpen(l)
    /\ score' = [score EXCEPT ![l] = s]
    /\ UNCHANGED <<phase, record>>

\* The match is over and archived in a history row no other session points to.
Archive(l, s, h) ==
    /\ IsOpen(l)
    /\ \A k \in Live : record[k] # h
    /\ phase' = [phase EXCEPT ![l] = "over"]
    /\ score' = [score EXCEPT ![l] = s]
    /\ record' = [record EXCEPT ![l] = h]

\* The match is over and kept nowhere, with the last score it was given.
Finish(l, s) ==
    /\ IsOpen(l)
    /\ phase' = [phase EXCEPT ![l] = "over"]
    /\ score' = [score EXCEPT ![l] = s]
    /\ UNCHANGED record

\* One statement closes any set of sessions that nobody touched for a day.
Lapse(S) ==
    /\ \A l \in S : IsOpen(l)
    /\ phase' = [l \in Live |-> IF l \in S THEN "over" ELSE phase[l]]
    /\ UNCHANGED <<score, record>>

Next ==
    \/ \E l \in Live :
        \/ \E p \in {"invited", "playing"} : Open(l, p)
        \/ Accept(l)
        \/ \E s \in Score : Play(l, s) \/ Finish(l, s)
        \/ \E s \in Score, h \in Hist : Archive(l, s, h)
    \/ \E S \in SUBSET Live : Lapse(S)

Spec == Init /\ [][Next]_vars

=============================================================================
