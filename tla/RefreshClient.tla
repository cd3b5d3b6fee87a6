---------------------------- MODULE RefreshClient ----------------------------
(***************************************************************************)
(* The workflow's client (src/backend/refresh_run_client.py) composed with *)
(* the server of RefreshRun: it starts its run, posts one item at a time,  *)
(* follows the snapshots it is answered with and ends with the run.        *)
(*                                                                         *)
(* A request of the client is a request of RefreshRun, on the worker that  *)
(* serves it.  An answer may be lost, or come after the client has given   *)
(* up; the server then goes on with a request nobody waits for.            *)
(***************************************************************************)
EXTENDS RefreshSnapshot

CONSTANTS
  ClientRun,    \* the run of the workflow
  MaxOps,       \* operations of the client's loop (1000)
  MaxWait,      \* max_wait_seconds
  WaitBudget    \* max_in_run_wait_seconds

ASSUME ClientAssumption ==
  /\ ClientRun \in Runs /\ Workers # {}
  /\ MaxOps \in Nat \ {0} /\ WaitBudget \in Nat
  /\ MaxWait \in Nat \ {0} /\ 1 + MaxWait <= MaxClock

VARIABLE client   \* the local variables of run_resumable_refresh

clientVars == <<vars, client>>

Phases == {"start", "look", "call", "status", "sleep", "done", "raised"}
Reasons == {"start", "advance", "finalize", "due", "claimed"}

\* The run is started at time 1.
Deadline == 1 + MaxWait

-----------------------------------------------------------------------------
(* What the client makes of its snapshot *)

Snapshot == SnapshotOf(ClientRun, clock)

\* Time to wait for deferred work, if it is within the budgets of the client.
Waits(n) ==
  LET due == client.snap.next
  IN /\ due > n
     /\ due <= Deadline
     /\ client.waited + (due - n) <= WaitBudget

-----------------------------------------------------------------------------
(* Steps of the client *)

Idle == [phase |-> "start", reason |-> "start", worker |-> None, answer |-> "none",
         tries |-> 0, ops |-> 0, waited |-> 0, until |-> 0, snap |-> NoSnapshot]

\* The client waits for w to answer.
Called(w, why) ==
  [client EXCEPT !.phase = "call", !.reason = why, !.worker = w,
                 !.answer = "none", !.snap = NoSnapshot]
Raised == [Idle EXCEPT !.phase = "raised"]

\* The request is served by a thread that is free, if there is one.
IdleWorker ==
  CHOOSE w \in Workers : pc[w] = "idle" \/ \A v \in Workers : pc[v] # "idle"

\* Back in the loop, which ends at the deadline whatever the snapshot says.
Follow(snap, why) ==
  IF why \in {"advance", "finalize", "claimed"} /\ clock >= Deadline THEN Raised
  ELSE [client EXCEPT !.phase = "look", !.reason = "start", !.worker = None,
                      !.answer = "none", !.tries = 0, !.snap = snap]

PostStart(w) ==
  /\ client.phase = "start"
  /\ BeginStart(w, ClientRun)
  /\ client' = [Called(w, "start") EXCEPT !.tries = @ + 1]

\* One iteration of the loop on a running snapshot.
Iterating == client.phase = "look" /\ client.ops < MaxOps /\ client.snap.state = "running"
Chosen == NextItem(client.snap, clock)
Counted(c) == [c EXCEPT !.ops = @ + 1]

PostItem(w) ==
  /\ Iterating /\ Chosen # 0 /\ ~LiveClaim(client.snap.rows[Chosen], clock)
  /\ BeginAdvance(w, ClientRun, Chosen)
  /\ client' = Counted(Called(w, "advance"))

\* A run that ended meanwhile is answered as it is.
PostFinalize(w) ==
  /\ Iterating /\ Chosen = 0 /\ ~Waits(clock)
  /\ \/ BeginFinalize(w, ClientRun) /\ client' = Counted(Called(w, "finalize"))
     \/ /\ run[ClientRun] # "running" /\ UNCHANGED vars
        /\ client' = Counted([Called(None, "finalize") EXCEPT !.answer = "ok"])

WaitForDue ==
  /\ Iterating /\ Chosen = 0 /\ Waits(clock)
  /\ client' = Counted([client EXCEPT !.phase = "sleep", !.reason = "due",
                          !.until = client.snap.next, !.snap = NoSnapshot,
                          !.waited = @ + (client.snap.next - clock)])
  /\ UNCHANGED vars

\* A live claim is polled; a tick of the model is one poll.
WaitForClaim ==
  /\ Iterating /\ Chosen # 0 /\ LiveClaim(client.snap.rows[Chosen], clock)
  /\ client' = IF clock >= Deadline THEN Raised
               ELSE Counted([client EXCEPT !.phase = "sleep", !.reason = "claimed",
                                           !.until = clock + 1])
  /\ UNCHANGED vars

Wake ==
  /\ client.phase = "sleep" /\ clock >= client.until
  /\ client' = [client EXCEPT !.phase = "status", !.until = 0]
  /\ UNCHANGED vars

\* The answer with the status document arrives.
Hear ==
  /\ client.phase = "call" /\ client.answer = "ok"
  /\ client' = Follow(Snapshot, client.reason)
  /\ UNCHANGED vars

\* A timeout, a reset connection or another status: the client asks what is.
GiveUp_Never == client.answer = "conflict" /\ client.phase = "call"
                /\ client' = [client EXCEPT !.phase = "status", !.worker = None]
                /\ UNCHANGED vars
GiveUp ==
  /\ client.phase = "call"
  /\ client' = [client EXCEPT !.phase = "status", !.worker = None]
  /\ UNCHANGED vars

\* _read_status found no run: only a start whose answer was lost is repeated.
StatusMissing ==
  /\ client.phase = "status" /\ run[ClientRun] = "absent"
  /\ client' = IF client.reason = "start" /\ client.answer # "conflict" /\ client.tries < 2
                 THEN [client EXCEPT !.phase = "start", !.answer = "none"]
                 ELSE Raised
  /\ UNCHANGED vars

\* After a poll the loop goes on with the snapshot it had.
StatusRead ==
  /\ client.phase = "status" /\ run[ClientRun] # "absent"
  /\ client' = Follow(IF client.reason = "claimed" THEN client.snap ELSE Snapshot,
                      client.reason)
  /\ UNCHANGED vars

StatusUnavailable ==
  /\ client.phase = "status"
  /\ client' = Raised
  /\ UNCHANGED vars

\* _client_result: a run without any success is raised.
Ends_NoWork(snap) == snap.state \in Terminal \/ NextItem(snap, clock) = 0
Ends(snap) == snap.state \in Terminal

Conclude ==
  /\ client.phase = "look" /\ client.ops < MaxOps /\ Ends(client.snap)
  /\ client' = IF client.snap.state = "failed" THEN Raised ELSE [Idle EXCEPT !.phase = "done"]
  /\ UNCHANGED vars

OutOfOperations ==
  /\ client.phase = "look" /\ client.ops = MaxOps
  /\ client' = Raised
  /\ UNCHANGED vars

ClientStep ==
  \/ PostStart(IdleWorker) \/ PostItem(IdleWorker) \/ PostFinalize(IdleWorker)
  \/ WaitForDue \/ WaitForClaim \/ Wake \/ Hear \/ GiveUp
  \/ StatusMissing \/ StatusRead \/ StatusUnavailable
  \/ Conclude \/ OutOfOperations

-----------------------------------------------------------------------------
(* The server, and what its end of a request tells the client *)

Answers(w, answer) ==
  /\ client' = IF client.worker = w /\ pc'[w] = "idle"
                 THEN [client EXCEPT !.answer = answer] ELSE client

Working(w) ==
  \/ StartRun(w) \/ ResumeRun(w)
  \/ ClaimGranted(w) \/ ClaimDeferred(w) \/ ClaimDenied(w)
  \/ PersistCutoff(w) \/ MarkAcquisition(w) \/ CommitData(w)
  \/ TaskReturns(w) \/ TaskPostponed(w)
  \/ DeferClaim(w) \/ CompleteClaim(w)
  \/ ReadBack(w) \/ RenewRun(w) \/ FinalizeRun(w)

Serve(w) ==
  \/ Working(w) /\ Answers(w, "ok")
  \/ Return(w) /\ Answers(w, "conflict")
  \/ Crash(w) /\ Answers(w, "none")

\* Publishers that cool on the requests of others, and the legacy refresh, are
\* left to RefreshRun's own runs.
Surroundings == Tick /\ UNCHANGED client

ClientInit == Init /\ client = Idle
ClientNext == ClientStep \/ (\E w \in Workers : Serve(w)) \/ Surroundings

\* The client runs until it ends, a server thread until it returns or dies.
Fairness ==
  /\ WF_clientVars(ClientStep)
  /\ WF_clientVars(Tick /\ UNCHANGED client)
  /\ \A w \in Workers : WF_clientVars(Serve(w))

ClientSpec == ClientInit /\ [][ClientNext]_clientVars /\ Fairness
=============================================================================
