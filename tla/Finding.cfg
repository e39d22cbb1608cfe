SPECIFICATION FairSpec
CONSTANTS
  Clients = {r1, r2}
  Bodies <- MCBodies
  Announcements <- MCAnnouncements
  Nothing = Nothing
  link1 = link1
  link2 = link2
  stream1 = stream1
  stream2 = stream2
  ip1 = ip1
  ip2 = ip2
  Capacity = 2
  MaxAnnounced = 3
INVARIANTS TypeOK SearchKeepsEveryItem ListsEachSpeakerOnce
PROPERTIES AnswersWhatItHeard RequestsAnswered
