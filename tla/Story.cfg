\* Two quests whose rewards meet the cap of three points on a track.
SPECIFICATION Spec
CONSTANTS
  q1 = q1
  q2 = q2
  q3 = q3
  Quest = {q1, q2, q3}
  Signal <- Signals
  NoSignal = NoSignal
  Objective <- Objectives
  Track = {"investigation", "occult"}
  Ability = {"keen_eye"}
  MaxTrackPoints = 3
  Reward <- Rewards
  OldSave <- OldSaves
  Word = {"locked", "active", "completed", "inactive", "skipped", "failed"}
  Malformed = Malformed
INVARIANTS
  TypeOK
  CompletedIsRewarded
  PointsAreEarned
PROPERTIES
  NothingTakenBack
  ImplementsQuestLine
