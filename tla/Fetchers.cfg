SPECIFICATION Spec
CONSTANTS
  sgs = sgs
  window = window
  rolling = rolling
  Tries = 2
  b3 = b3
  b3repeat = b3repeat
  sidra = sidra
  focus = focus
  anbima = anbima
  tesouro = tesouro
  h1 = h1
  h2 = h2
  None = None
  Fetches <- TheFetches
  Hosts <- TheHosts
  Ops <- TheOps
  Scenarios <- TheScenarios
  Slots = 1
  MaxRedirects = 1
  Rounds <- TheRounds
CHECK_DEADLOCK FALSE
INVARIANT SlotsComeBack
INVARIANT PlannedServed
INVARIANT OkIsWhole
PROPERTY FetchesEnd
