SPECIFICATION Spec
CONSTANTS
  Own = robot
  Remotes = {remote1, remote2}
  Kinds = {"COMMAND", "FILTERED"}
  MaxPackets = 3
CHECK_DEADLOCK FALSE
INVARIANT Pipe0ChangedBack
