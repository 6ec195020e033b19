SPECIFICATION FairSpec
CONSTANTS
  Drives = {d1}
  Failing = {"init"}
  Orders = {"stop"}
  Events = {}
PROPERTIES CommandsEnd
