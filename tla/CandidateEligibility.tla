------------------------ MODULE CandidateEligibility ------------------------
(***************************************************************************)
(* Which candidates may be asked (src/backend/candidate_eligibility.py,    *)
(* source_rollout.py): a deployment has the profile of its catalog, the    *)
(* approval of its registry, if any, and the decoders of its code; a       *)
(* candidate is eligible if all of them say what was reviewed.  Digests    *)
(* and versions are compared, never computed.                              *)
(***************************************************************************)
LOCAL INSTANCE Integers

LeastReferences == 10

\* CandidateProfile and CandidateApproval; a registry without an approval has
\* NoApproval.
NoApproval == [candidate |-> "none"]

\* approval_blocker, gate by gate, each with what it looks at.
SameCandidate(p, a) == p.candidate = a.candidate
Enabled(p) == p.status = "eligible" /\ p.enabled
Supported(p) == p.adapter \in {"sgs_csv", "sidra_v3"}
SameContract(p, a, contract) == contract \in p.contracts /\ p.version = a.version
SameSemantics(p, a, parser) == p.semantics = a.profile /\ parser = a.parser
Reviewed(p, a) ==
  p.reviewed /\ a.reviewed /\ p.proof # "none" /\ p.proof = a.proof
Licensed(p, a) == p.license = "verified" /\ a.license
Proven(a) == a.references >= LeastReferences /\ a.latest # 0 /\ a.cohort

Eligible(p, a, parser, contract) ==
  /\ a # NoApproval /\ SameCandidate(p, a)
  /\ Enabled(p) /\ Supported(p) /\ SameContract(p, a, contract)
  /\ SameSemantics(p, a, parser) /\ Reviewed(p, a) /\ Licensed(p, a) /\ Proven(a)

\* configured_mode of a process; what it does not know is "off".
Mode(raw) == IF raw \in {"shadow", "canary", "enabled"} THEN raw ELSE "off"

\* CandidateAcquisitionService.resolve, and select_and_persist's own gate.
Resolved(d) ==
  Mode(d.refresh_mode) = "enabled" /\ Eligible(d.profile, d.approval, d.parser, d.contract)

\* candidate_readiness, but for the candidate's cooldown.
Ready(d) ==
  /\ Mode(d.canary_mode) # "off" /\ d.profile.official
  /\ Eligible(d.profile, d.approval, d.parser, d.contract)

\* The canary route's own gate: its mode; its caller confirms the proof and the
\* version that are deployed.
Confirmed(d) == Mode(d.canary_mode) = "canary" /\ Ready(d)

=============================================================================
