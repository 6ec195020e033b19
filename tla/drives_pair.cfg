SPECIFICATION Spec
CONSTANTS
  Drives = {d1, d2}
  Failing = {"home", "brake"}
  Orders = {"stop", "start", "home"}
  Events = {"faults"}
INVARIANTS TypeOK EnableOnlyOnCommand StartedProperly BrakedWhileHoming StoppedIsStopped
VIEW Live
SYMMETRY Symmetric
