-------------------------- MODULE MCProviderFetch --------------------------
(* The fetchers with one to three units, two attempts where the code has      *)
(* three, and of the answers one of each kind the fetcher tells apart.        *)
EXTENDS Fetchers, TLC

CONSTANTS sgs, window, b3, b3repeat, sidra, focus, rolling, anbima, tesouro, h1, h2

TheFetches == {sgs, window, b3, b3repeat, sidra, focus, rolling, anbima, tesouro}
TheHosts == {h1, h2}

Meets(fetch, answers) ==
  [fetch EXCEPT !.answers = @ \cap answers, !.retried = @ \cap answers]

Some == {"ok", "empty", "invalid", "redirect", "server", "refused"}

SetUp ==
  (sgs :> Meets(SgsSeries({1, 2}, h1), Some)) @@
  (window :> Meets(SgsWindow(1, h1), Some \cup {"garbled", "deferred"})) @@
  (b3 :> Meets(B3Days({1, 2, 3}, h1), {"ok", "server"})) @@
  (b3repeat :> Meets(B3Days({1, 2}, h1), Some \ {"refused"})) @@
  (sidra :> Meets(SidraDatasets({1, 2}, h1), (Some \ {"refused"}) \cup {"deferred"})) @@
  (focus :> Meets(FocusIndicators({1, 2}, h1), (Some \ {"refused"}) \cup {"deferred"})) @@
  (rolling :> Meets(FocusRolling(1, h1), Some)) @@
  (anbima :> Meets(AnbimaWorkbook(1, 2, h2), Some \ {"refused"})) @@
  (tesouro :> Meets(TreasuryFile(1, h1), Some \ {"refused"}))

\* As one function, which TLC evaluates once.
TheOps == [f \in TheFetches |-> SetUp[f]]

TheRounds == [f \in TheFetches |-> IF f \in {b3, rolling, anbima, tesouro} THEN 1 ELSE 2]
TheScenarios == {{b3}, {b3repeat}, {sgs}, {window}, {sidra}, {focus}, {rolling}, {anbima, tesouro}}

=============================================================================
