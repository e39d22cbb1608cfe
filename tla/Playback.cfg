SPECIFICATION FairSpec
CONSTANTS
  URLs <- MCURLs
  NoURL = NoURL
  IDs = {"jazz"}
  Profiles = {"day", "night"}
  NoProfile = NoProfile
  Files <- MCFiles
  Heads <- MCHeads
  Conns = {c1, c2}
  MaxPlays = 2
  MaxEdits = 2
  MaxChanges = 1
INVARIANTS TypeOK SpeakerCanFetch HearsWhatWasAsked
PROPERTIES PlaysInTheEnd UpstreamReleased ShutdownEnds
\* After SIGTERM the process ends.
CHECK_DEADLOCK FALSE
