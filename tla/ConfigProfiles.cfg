SPECIFICATION Spec
CONSTANTS
  Suffixed <- MCSuffixed
  Trim <- MCTrim
  Factory <- MCFactory
  Absent = Absent
  NoFile = NoFile
  Torn = Torn
  StationNames = {"Jazz!"}
  Slug <- MCSlug
  IDs <- TwoIDs
  Slots = {1}
  SpeakerInputs <- Nothing
  IPInputs <- Nothing
  ValidIPs <- Nothing
  MaxStations = 1
  PresetInputs = {"", "jazz"}
  ProfileInputs = {"PalmaSola", "Autres", " A"}
  InitialFiles <- Fresh
  MaxFaults = 0
PROPERTIES OnlyAssignDangles OnlySelectionMovesProfile ProfilesChangeBySaving SwitchKeepsEdits RejectedIsInvisible
