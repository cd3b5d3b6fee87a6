---------------------------- MODULE MCRefreshRun ----------------------------
(* Small manifests for model-checking RefreshRun. *)
EXTENDS RefreshRunRefinement, RefreshSnapshot, TLC

CONSTANTS r1, r2, w1, w2, s1, d1

\* One publisher and both phases, with their cutoffs.
KindSDM  == 1 :> "source" @@ 2 :> "derived" @@ 3 :> "macro"
ScopeSDM == 1 :> s1 @@ 2 :> None @@ 3 :> None

\* A single source.
KindS  == [i \in {1} |-> "source"]
ScopeS == [i \in {1} |-> s1]

\* A phase of no publisher.
KindR  == [i \in {1} |-> "rules"]
ScopeR == [i \in {1} |-> None]

\* Requests are alike, and so are the runs a caller may start.
Interchangeable == Permutations(Workers) \cup Permutations(Runs)
=============================================================================
