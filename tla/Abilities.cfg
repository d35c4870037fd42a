\* Requests in two rooms before and after the reward unlocks a built-in ability.
SPECIFICATION Spec
CONSTANTS
  q1 = q1
  Quest = {q1}
  Signal <- Signals
  NoSignal = NoSignal
  Objective <- Objectives
  Track = {"investigation", "resolve"}
  Ability <- Abilities
  MaxTrackPoints = 3
  Reward <- Rewards
  OldSave <- NoOldSave
  Word = {"locked", "active", "completed", "inactive"}
  Malformed = Malformed
  BuiltIn <- BuiltIns
  Generated <- Definitions
  LegacyStarters <- LegacySaves
  Taxonomy = {"ability", "minor"}
  Text <- Texts
  Target <- Targets
  Output <- Outputs
  Scene <- Scenes
  Check <- KeenEyeInLibrary
INVARIANTS
  TypeOK
  OwnedIsAvailable
  AvailableCanBeInvoked
  AcceptedIsCarriedOut
PROPERTIES
  WordsKeepTheirMeaning
