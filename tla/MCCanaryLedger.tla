--------------------------- MODULE MCCanaryLedger ---------------------------
(* CanaryLedger for TLC: a reviewed candidate, and one whose decoders changed *)
(* since; windows are interchangeable.                                     *)
EXTENDS CanaryLedger, TLC

Profile ==
  [candidate |-> "csv", status |-> "eligible", enabled |-> TRUE, adapter |-> "sgs_csv",
   contracts |-> {"c"}, version |-> "v1", semantics |-> "p1", reviewed |-> TRUE,
   proof |-> "proof", license |-> "verified", official |-> TRUE]
Approval ==
  [candidate |-> "csv", version |-> "v1", profile |-> "p1", parser |-> "d1",
   proof |-> "proof", references |-> 10, latest |-> 1, reviewed |-> TRUE,
   license |-> TRUE, cohort |-> TRUE]
Deployed(parser) ==
  [profile |-> Profile, approval |-> Approval, parser |-> parser, contract |-> "c",
   refresh_mode |-> "enabled", canary_mode |-> "canary"]
Deployments == {Deployed("d1"), Deployed("d2")}
AllIds == Ops \cup Windows

Interchangeable == Permutations(Windows)

=============================================================================
