SPECIFICATION BridgeSpec
CONSTANTS
  r1 = r1
  r2 = r2
  Clients = {r1, r2}
  Main = Main
  Nobody = Nobody
  Uses <- TwoClients
  Found <- FoundB
  Writable = {"ip1"}
  Suffixed <- MCSuffixed
  Trim <- MCTrim
  Factory <- MCFactory
  Absent = Absent
  NoFile = NoFile
  Torn = Torn
  StationNames = {"Jazz!"}
  Slug <- MCSlug
  IDs <- MCIDs
  MaxStations = 2
  Slots = {1}
  SpeakerInputs = {"A", "B"}
  IPInputs = {"ip1", "ip2"}
  ValidIPs = {"ip1", "ip2"}
  PresetInputs = {"jazz", "jazz-2"}
  ProfileInputs = {"PalmaSola"}
  InitialFiles <- TwoSaved
  MaxFaults = 0
INVARIANTS SelectionKept PresetsReachSpeaker
PROPERTIES AnswersAddedStation
