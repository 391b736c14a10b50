SPECIFICATION Spec
CONSTANTS
  Sites = {"app", "www"}
  SuperKeys = {"plan"}
  Values = {"pro"}
  Pages = {p1, p2}
  Users = {alice, bob}
  GroupTypes = {"org"}
  Webs <- MCWebs
  Events <- MCEvents
  consentDefault = "granted"
  None = None
  MaxLoads = 3
  MaxIds = 5
  MaxCalls = 3
  p1 = p1
  p2 = p2
  alice = alice
  bob = bob
SYMMETRY Symmetry
CHECK_DEADLOCK FALSE
PROPERTY
  OptedOutWritesNothing
