SPECIFICATION Spec
CONSTANTS
  Drives = {d1}
  Failing = {"init", "home", "brake"}
  Orders = {"stop", "start", "home"}
  Events = {"power", "inputs", "offline"}
INVARIANTS HomingOnlyInHomingMode
PROPERTIES UnsafeNeverEnables
VIEW Live
