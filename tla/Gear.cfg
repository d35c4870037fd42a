\* Names that fit several items, old inventories, abilities and a crossing.
SPECIFICATION Spec
CONSTANTS
  q1 = q1
  Room = {"corridor", "court", "gallery"}
  Npc = {}
  Item = {"old_book", "worn_journal", "candle", "matches"}
  Exits <- GearExits
  Routes <- GearRoutes
  RoomNames <- QuestRoomNames
  ItemNames <- GearItemNames
  NpcNames <- Nothing
  \* The journal, which cannot be taken, is the heavy statue of the code.
  Portable = {"old_book", "candle", "matches"}
  Openable = {"old_book"}
  Lightable = {"candle"}
  Ignition = {"matches"}
  Locked = {}
  StartRoom = "corridor"
  DefaultPlace <- GearPlace
  Gear = {"worn_journal", "matches"}
  GearCount = 1
  StartNpc <- Nothing
  Absent = Absent
  NoSignal = NoSignal
  Clue = {}
  ClueQuest <- Nothing
  CluePlace <- Nothing
  MaxFacts = 1
  Quest = {}
  Signal <- QuestSignals
  Objective <- Nothing
  Track = {"investigation"}
  Ability = {}
  MaxTrackPoints = 3
  Reward <- Nothing
  OldSave <- Nothing
  Word = {"locked", "active", "completed", "inactive"}
  Malformed = Malformed
  Name = {"corridor", "court", "gallery", "ascent", "old_book", "book", "candle", "light", "matches"}
  Power <- GearPowers
  Proposal <- GearProposals
  LegacyWorlds <- GearLegacy
  MaxTick = 0
PROPERTY
  ThingsStayPut
