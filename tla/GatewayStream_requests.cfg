SPECIFICATION ShapeSpec
CONSTANTS
  Request = {r1, r2, r3}
  Routes = {"native", "native_chat", "provider", "provider_chat"}
  Sent = {"delta", "completed", "anonymous", "incomplete", "failed", "error"}
  Slots = 1
  Capacity = 2
CHECK_DEADLOCK FALSE
INVARIANTS ResourcesReturned RecordedOnce StatusTruthful ContextReady
PROPERTIES RequestEnds
