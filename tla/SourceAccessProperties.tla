----------------------- MODULE SourceAccessProperties -----------------------
(***************************************************************************)
(* What SourceAccess promises of a publisher's breaker.                    *)
(***************************************************************************)
EXTENDS SourceAccess

\* "An atomic lease admits one half-open probe": from the time the circuit
\* shuts until it closes, at most one probe is within its deadline and can send
\* requests, although failures of others re-open the circuit under it.
Probing(w) == w \in probes /\ pc[w] # "idle" /\ InTime(w)
OneProbe == \A v, w \in Operations : Probing(v) /\ Probing(w) => v = w

\* "A later admission or failure fences an older worker": the success of an
\* operation moves the row only if nobody was admitted, and no failure
\* recorded, since its own admission.
LateSuccessIgnored ==
  [][\A w \in Operations :
       pc[w] \in {"validated", "finishing"} /\ pc'[w] # pc[w] /\ access' # access =>
         w \notin overtaken]_vars

\* A success never shortens the wait a publisher asked for: advice that is
\* still ahead stays in the row, and the circuit open.
SuccessKeepsAdvice ==
  [][\A w \in Operations :
       /\ pc[w] \in {"validated", "finishing"} /\ pc'[w] # pc[w] /\ access' # access
       /\ access.retryNotBefore > clock
       => access'.state = "open" /\ access'.retryNotBefore = access.retryNotBefore]_vars

\* Failures up to the threshold leave no circuit closed, whoever recorded them.
TripsAtThreshold == access.failures >= Threshold => access.state # "closed"

\* "inherits provider eligibility from durable admission state": what the
\* scheduler reads of the row before it claims an item is what the gate will
\* decide on at that time.
PeekAgrees == PeekEligible(clock) <=> Admissible(clock)

-----------------------------------------------------------------------------
(* The inductive invariant *)

\* A closed circuit has no probe, a half-open one no wait ahead.
ClosedWithoutProbe == access.state = "closed" => probes = {}
HalfOpenIsDue ==
  access.state = "half_open" => access.openedUntil <= clock /\ access.retryNotBefore <= clock

\* What an operation remembers has been.
RememberedIsPast ==
  \A w \in Operations :
    /\ op[w].started <= clock /\ op[w].ack <= clock
    /\ op[w].generation <= access.generation

\* An operation that holds the generation of the row was the last to move it.
LatestNotOvertaken == \A w \in Operations : Acknowledges(w) => w \notin overtaken

\* The row refuses everyone until the deadline of the probe that is out: by its
\* lease, or by the wait of a failure recorded since.
ProbeCovered(w) ==
  /\ access.state = "half_open" => access.probeUntil >= op[w].started + Deadline
  /\ access.state = "open" => access.openedUntil >= op[w].started + Deadline
ProbesCovered == \A w \in Operations : Probing(w) => ProbeCovered(w)

\* The payload of the probe itself is younger than the wait it ended.
ProbeAnswersLater ==
  \A w \in Operations :
    Receipts /\ access.state = "half_open" /\ pc[w] \in {"validated", "finishing"}
      /\ Acknowledges(w) => access.retryNotBefore <= op[w].ack

BreakerInv ==
  /\ TypeOK /\ ClosedWithoutProbe /\ HalfOpenIsDue /\ RememberedIsPast
  /\ LatestNotOvertaken /\ ProbesCovered /\ ProbeAnswersLater
  /\ TripsAtThreshold /\ OneProbe
=============================================================================
