SPECIFICATION FairSpec
CONSTANTS
  Drives = {d1}
  Failing = {"home"}
  Orders = {"start", "home"}
  Events = {"inputs", "offline"}
PROPERTIES CommandsEnd UnsafeStops
