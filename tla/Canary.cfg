SPECIFICATION Spec
CONSTANTS
  Requests = {q1}
  Ops = {o1}
  Windows = {w1, w2}
  Ids <- AllIds
  Sources = {"bcb_sgs", "ibge_sidra"}
  Catalog <- Deployments
  LastDay = 2
  MaxRevision = 2
  MinReferences = 1
  ApprovedUntil = 1
SYMMETRY Interchangeable
CHECK_DEADLOCK FALSE
INVARIANT AllOrNothing
INVARIANT ValuesHaveVintages
INVARIANT AttemptsTrue
INVARIANT OneCandidateProbe
PROPERTY CandidateKeeps
