SPECIFICATION Spec
CONSTANTS
  h1 = h1
  h2 = h2
  Host = {h1, h2}
  Runner = {h1}
  NoHost = NoHost
  Gone = Gone
  g1 = g1
  g2 = g2
  Generation = {g1, g2}
  first = first
  other = other
  Written = {first, other}
  Happens = {"ends", "exit", "violations", "stuck", "errors", "unknown", "edit"}
INVARIANT TypeOK
INVARIANT WorkersOwn
INVARIANT ToolRunsAlone
INVARIANT RecordedIsCurrent
INVARIANT DeletedIsErased
INVARIANT NobodyWaitsForever
PROPERTY OnlyAgreedDataIsDeleted
SYMMETRY Alike
CHECK_DEADLOCK FALSE
