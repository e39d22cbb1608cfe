SPECIFICATION FairSpec
CONSTANTS
  a = a
  b = b
  jazz = jazz
  First = a
  None = None
  Unknown = Unknown
  Events = Events
  Requests = {r1}
  Speakers <- TwoSpeakers
  Stations <- OneStation
  Preset <- OneButton
  Capacity = 1
  MaxSwitches = 1
  MaxPresses = 1
  MaxFaults = 0
PROPERTIES PressesHandled
