SPECIFICATION Spec
CONSTANTS
  Suffixed <- MCSuffixed
  Trim <- MCTrim
  Factory <- MCFactory
  Absent = Absent
  NoFile = NoFile
  Torn = Torn
  StationNames = {"Jazz!"}
  Slug <- MCSlug
  IDs <- TwoIDs
  MaxStations = 1
  Slots = {1}
  SpeakerInputs <- Nothing
  IPInputs <- Nothing
  ValidIPs <- Nothing
  PresetInputs = {"", "jazz"}
  ProfileInputs = {"PalmaSola", "Autres", " A"}
  InitialFiles <- Fresh
  MaxFaults = 0
PROPERTIES SwitchKeepsShownEdits
