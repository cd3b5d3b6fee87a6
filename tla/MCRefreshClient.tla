-------------------------- MODULE MCRefreshClient --------------------------
(* Small instances of RefreshClient. *)
EXTENDS RefreshClientProperties, TLC

CONSTANTS r1, w1, w2, s1

KindS  == 1 :> "source"
ScopeS == 1 :> s1

\* The server's threads are alike.
Interchangeable == Permutations(Workers)
=============================================================================
