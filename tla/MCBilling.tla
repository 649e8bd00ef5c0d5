------------------------------ MODULE MCBilling ------------------------------
(* Instances of Billing for TLC. *)
EXTENDS Billing, TLC

\* A payload that names the second period
Sandbox == {[order |-> 0, until |-> 2, state |-> "active"]}

Alike == Permutations(Account) \cup Permutations(Req)

=============================================================================
