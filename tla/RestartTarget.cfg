SPECIFICATION BridgeSpec
CONSTANTS
  r1 = r1
  r2 = r2
  Clients = {r1, r2}
  Main = Main
  Nobody = Nobody
  Uses <- OneClient
  Found <- FoundA
  Writable = {"ip1"}
  Suffixed <- MCSuffixed
  Trim <- MCTrim
  Factory <- MCFactory
  Absent = Absent
  NoFile = NoFile
  Torn = Torn
  StationNames = {"Jazz!"}
  Slug <- MCSlug
  IDs <- MCIDs
  MaxStations = 1
  Slots = {1}
  SpeakerInputs = {"A", " A", "B"}
  IPInputs = {"ip1", "ip2"}
  ValidIPs = {"ip1", "ip2"}
  PresetInputs = {"", "jazz"}
  ProfileInputs = {"PalmaSola"}
  InitialFiles <- TwoSaved
  MaxFaults = 1
PROPERTIES StartTargetsSelection
