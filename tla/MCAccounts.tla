----------------------------- MODULE MCAccounts -----------------------------
(* Instances of Accounts for TLC. *)
EXTENDS Accounts, TLC

CONSTANTS google, apple, e1

\* A Google and an Apple identity, with one e-mail or with Apple's kept hidden
SameOrHidden == {[l \in Login |-> IF l = google THEN e1 ELSE e] : e \in {e1, None}}

Slots == Permutations(Account) \cup Permutations(Token) \cup Permutations(Req)

=============================================================================
