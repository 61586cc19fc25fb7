SPECIFICATION Spec
CONSTANTS
  Request = {r1}
  Routes = {"native_chat"}
  Sent = {"delta", "completed"}
  Slots = 1
  Capacity = 1
CHECK_DEADLOCK FALSE
INVARIANTS LeaseReturned
