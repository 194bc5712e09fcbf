SPECIFICATION Spec
INVARIANTS
  StaysSafe
PROPERTIES
  PacketsLeave
  ClientsForgotten
