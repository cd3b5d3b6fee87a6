---------------------------- MODULE DailyRefresh ----------------------------
(***************************************************************************)
(* What the resumable daily refresh promises to whoever reads its tables:  *)
(* runs that are taken over or end, items that are settled once, data that *)
(* only moves forward, cutoffs that are decided once.  There is no clock,  *)
(* lease, claim or request here; RefreshRunRefinement shows that the       *)
(* transactions of RefreshRun amount to these steps and no others.         *)
(***************************************************************************)
EXTENDS Integers

CONSTANTS Runs, Items,
          Alone        \* no POST /api/refresh competes for the lease

VARIABLES
  run,       \* the state of a run
  outcome,   \* how an item was settled: "open" until it is
  data,      \* the claim whose data an item shows
  cutoff,    \* the instants at which a run's two phases read
  report     \* the result a run ended with, "none" per item until it ends

vars == <<run, outcome, data, cutoff, report>>

Terminal == {"succeeded", "partial", "failed"}
Settled == {"succeeded", "partial", "skipped"}

Init ==
  /\ run = [r \in Runs |-> "absent"]
  /\ outcome = [r \in Runs |-> [i \in Items |-> "open"]]
  /\ data = [r \in Runs |-> [i \in Items |-> 0]]
  /\ cutoff = [r \in Runs |-> [derived |-> 0, macro |-> 0]]
  /\ report = [r \in Runs |-> [i \in Items |-> "none"]]

\* A run starts or goes on; runs that lost the lease to it fail, and nothing
\* but their state changes.
TakeOver(r) ==
  /\ run[r] \notin Terminal
  /\ \E dead \in SUBSET {q \in Runs \ {r} : run[q] = "running"} :
       /\ Alone => dead = {q \in Runs \ {r} : run[q] = "running"}
       /\ run' = [q \in Runs |-> IF q = r THEN "running"
                                 ELSE IF q \in dead THEN "failed" ELSE run[q]]
  /\ UNCHANGED <<outcome, data, cutoff, report>>

Write(r, i) ==
  /\ run[r] = "running" /\ outcome[r][i] = "open"
  /\ data'[r][i] >= data[r][i]
  /\ data' = [data EXCEPT ![r][i] = data'[r][i]]
  /\ UNCHANGED <<run, outcome, cutoff, report>>

Settle(r, i) ==
  /\ run[r] = "running" /\ outcome[r][i] = "open"
  /\ \E s \in Settled : outcome' = [outcome EXCEPT ![r][i] = s]
  /\ UNCHANGED <<run, data, cutoff, report>>

\* The macro score reads at the instant at which the derived phase read.
Decide(r) ==
  /\ run[r] = "running"
  /\ \/ /\ cutoff[r].derived = 0
        /\ cutoff' = [cutoff EXCEPT ![r].derived = cutoff'[r].derived]
     \/ /\ cutoff[r].macro = 0 /\ cutoff[r].derived # 0
        /\ cutoff' = [cutoff EXCEPT ![r].macro = cutoff[r].derived]
  /\ UNCHANGED <<run, outcome, data, report>>

\* A report may be older than the row it reports (another request settled the
\* item meanwhile), but what it calls done is done.
Verdict(said) ==
  IF \A i \in Items : said[i] = "ok" THEN "succeeded"
  ELSE IF \A i \in Items : said[i] \in {"error", "skipped"} THEN "failed"
  ELSE "partial"

End(r) ==
  /\ run[r] = "running"
  /\ \A i \in Items :
       /\ report'[r][i] # "none"
       /\ report'[r][i] = "ok" => outcome[r][i] = "succeeded"
       /\ report'[r][i] = "skipped" => outcome[r][i] = "skipped"
  /\ report' = [report EXCEPT ![r] = report'[r]]
  /\ run' = [run EXCEPT ![r] = Verdict(report'[r])]
  /\ UNCHANGED <<outcome, data, cutoff>>

Next ==
  \E r \in Runs : \/ TakeOver(r) \/ Decide(r) \/ End(r)
                  \/ \E i \in Items : Write(r, i) \/ Settle(r, i)

Spec == Init /\ [][Next]_vars
=============================================================================
