----------------------- MODULE RefreshClientProperties -----------------------
(***************************************************************************)
(* What RefreshClient promises.                                            *)
(***************************************************************************)
EXTENDS RefreshClient

\* The type invariant of the client's variables.
Document ==
  [state : RunStates, rows : [Items -> ItemRow], due : Items \cup {0}, next : Nat]
ClientRow ==
  [phase : Phases, reason : Reasons, worker : Workers \cup {None},
   answer : {"none", "ok", "conflict"}, tries : 0 .. 2, ops : 0 .. MaxOps,
   waited : 0 .. WaitBudget, until : 0 .. MaxClock, snap : Document]
ClientTypeOK == TypeOK /\ client \in ClientRow

\* "the run finalizes partial, returns the deferred task and retry metadata,
\* and releases its lease": what the client reports is final.  No request it
\* gave up on can still write data of the run it reported.
ResultStands ==
  client.phase = "done" =>
    /\ run[ClientRun] \in {"succeeded", "partial"}
    /\ lease.owner # ClientRun
    /\ \A w \in Workers : pc[w] \in {"prepare", "execute"} => ~Fenced(w)

\* "bounded wait time", "bounded operation count": the client ends, whatever is
\* lost, crashes or takes the lease from its run.
ClientEnds == <>(client.phase \in {"done", "raised"})

-----------------------------------------------------------------------------
(* The inductive invariant behind ResultStands *)

\* Whatever the client gave up on, it was about its own run.
OwnRequests == \A w \in Workers : pc[w] # "idle" => job[w].run = ClientRun

\* A run that ended has given its lease back, or lost it to the one that ended it.
EndedHoldNoLease == \A r \in Runs : run[r] \in Terminal => lease.owner # r

\* An end the client was told of is the end there is.
ToldOfTheEnd ==
  /\ client.snap.state \in Terminal => run[ClientRun] = client.snap.state
  /\ client.phase = "done" => run[ClientRun] \in {"succeeded", "partial"}

\* A start is posted at most twice.
StartsLeft == client.phase = "start" => client.tries < 2

ClientInv == ClientTypeOK /\ StartsLeft /\ OwnRequests /\ EndedHoldNoLease /\ ToldOfTheEnd
=============================================================================
