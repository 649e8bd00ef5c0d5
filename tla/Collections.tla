----------------------------- MODULE Collections -----------------------------
(***************************************************************************)
(* Sorted lists and sums of finite collections, as the program makes them  *)
(* of its rows: pure functions that Draws and Records share.               *)
(***************************************************************************)
EXTENDS Integers, FiniteSets, FiniteSetsExt

\* S as a sequence: ahead[x] are the elements that come before x.
Listed(S, ahead) ==
    LET places == {<<Cardinality(ahead[x]) + 1, x>> : x \in S} IN
    [i \in 1 .. Cardinality(S) |-> (CHOOSE p \in places : p[1] = i)[2]]

\* The sum of f[x] over the x of S
SumOf(f, S) == MapThenSumSet(LAMBDA x : f[x], S)

=============================================================================
