SPECIFICATION FairSpec
CONSTANTS
  a = a
  b = b
  jazz = jazz
  First = a
  None = None
  Unknown = Unknown
  Events = Events
  Requests = {r1}
  Speakers <- OneSpeaker
  Stations <- OneStation
  Preset <- Buttons
  Capacity = 1
  MaxSwitches = 1
  MaxPresses = 2
  MaxFaults = 1
INVARIANTS TypeOK PressesKept
PROPERTIES CancelledEnd FirstPressesHandled
