SPECIFICATION FairSpec
CONSTANTS
  a = a
  b = b
  jazz = jazz
  First = a
  None = None
  Unknown = Unknown
  Events = Events
  Requests = {r1, r2}
  Speakers <- TwoSpeakers
  Stations <- OneStation
  Preset <- OneButton
  Capacity = 1
  MaxSwitches = 1
  MaxPresses = 0
  MaxFaults = 1
INVARIANTS SwitchExcludesCommands OneListener StatusIsTrue
PROPERTIES RequestsEnd
