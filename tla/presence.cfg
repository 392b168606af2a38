CONSTANTS
  v1 = v1
  v2 = v2
  g1 = g1
  g2 = g2
  Gateways = {g1}
  Reaches <- OneGateway
  PRESENCE_DEBOUNCE = 2
  MaxVisits = 2
  MaxFaults = 1
SPECIFICATION
  Spec
INVARIANTS
  TypeOK
  RightOrDue
PROPERTIES
  ViewersSettle
CHECK_DEADLOCK FALSE
