SPECIFICATION Spec
CONSTANTS
  Suffixed <- MCSuffixed
  Trim <- MCTrim
  Factory <- MCFactory
  Absent = Absent
  NoFile = NoFile
  Torn = Torn
  StationNames = {"Jazz!"}
  Slug <- MCSlug
  IDs <- ThreeIDs
  MaxStations = 3
  Slots = {1}
  SpeakerInputs = {"A", " A", "B", ""}
  IPInputs = {"ip1", "ip2", "nonsense"}
  ValidIPs = {"ip1", "ip2"}
  PresetInputs <- Nothing
  ProfileInputs <- Nothing
  InitialFiles <- FreshOrReadme
  MaxFaults = 1
INVARIANTS TypeOK KeysUnique SelectionsResolve
PROPERTIES OnlySelectionMovesActive StartKeepsFile ImplementsDurable
