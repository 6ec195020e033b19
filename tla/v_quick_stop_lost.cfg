SPECIFICATION Spec
CONSTANTS
  Drives = {d1}
  Failing = {}
  Orders = {"start"}
  Events = {"inputs"}
PROPERTIES NoReenable
