\* A bad service handle aborts, and the program stops.
SPECIFICATION FairSpec
CONSTANTS
  Own = robot
  Remotes = {remote1, remote2}
  Kinds = {"COMMAND", "FILTERED", "STATUS"}
  MaxPackets = 3
CHECK_DEADLOCK FALSE
INVARIANTS DriverUninterrupted WokenWithPacket NoStuckFlag ListensWhenQuiet
PROPERTIES AcceptedIsTaken
