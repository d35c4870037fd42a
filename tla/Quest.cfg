\* The authored quest, its ghost and its clue, with an active Director.
SPECIFICATION Spec
CONSTANTS
  q1 = q1
  Room = {"hall", "corridor", "library"}
  Npc = {"library_ghost"}
  Item = {"old_book"}
  Exits <- QuestExits
  Routes = {}
  RoomNames <- QuestRoomNames
  ItemNames <- QuestItemNames
  NpcNames <- QuestNpcNames
  Portable = {"old_book"}
  Openable = {}
  Lightable = {}
  Ignition = {}
  Locked = {}
  StartRoom = "hall"
  DefaultPlace <- QuestPlace
  Gear = {}
  GearCount = 0
  StartNpc <- QuestNpcStart
  Absent = Absent
  NoSignal = NoSignal
  Clue = {"ghost_points_to_old_book"}
  ClueQuest <- ClueQuests
  CluePlace <- CluePlaces
  MaxFacts = 1
  Quest = {q1}
  Signal <- QuestSignals
  Objective <- QuestObjectives
  Track = {"investigation"}
  Ability = {"keen_eye"}
  MaxTrackPoints = 3
  Reward <- QuestReward
  OldSave <- NoOldSave
  Word = {"locked", "active", "completed", "inactive"}
  Malformed = Malformed
  Name = {"hall", "corridor", "library", "ghost", "old_book", "book"}
  Power <- QuestPowers
  Proposal <- QuestProposals
  LegacyWorlds <- NoLegacy
  MaxTick = 1
INVARIANTS
  TypeOK
  QuestNeverStranded
PROPERTIES
  StoryFollowsWorld
  CluesAreDue
  ImplementsStory
