------------------------------ MODULE GameTurn ------------------------------
(***************************************************************************)
(* The committed turns of one campaign: what handle_chat does to the       *)
(* campaign state between parsing the player's action and narrating it.    *)
(* The player's tool runs on the loaded state, its story signal and the    *)
(* reward follow, the result is stored if anything changed, and the        *)
(* Director acts on what is stored then.  A turn that fails is rolled back  *)
(* (ChatOrchestrator), so it is no step here.  The state is stored raw and *)
(* loaded anew by each reader; the story and the player namespace are those *)
(* of StoryProgression.                                                     *)
(***************************************************************************)
EXTENDS WorldAuthority

CONSTANTS Quest, Signal, Objective, Track, Ability, MaxTrackPoints, Reward, \* see
          OldSave, Word, Malformed,                         \* StoryProgression
          Name,         \* what a player may call things
          Power,        \* generated abilities: <<effect, detail>>
          Proposal,     \* what a Director may propose: see WorldAction
          LegacyWorlds, \* worlds stored by earlier releases
          MaxTick       \* bound on the clock

ASSUME TurnAssumption ==
  /\ ({"room_entered"} \X Room) \cup ({"npc_spoken_to"} \X Npc)
       \cup ({"item_acquired"} \X Item) \subseteq Signal
  /\ MaxFacts \in Nat /\ MaxTick \in Nat /\ Clue \subseteq STRING
  /\ \A p \in Proposal : p[1] = "record_fact" => p[2] \in STRING
  /\ \A w \in LegacyWorlds : /\ w \in WorldState
                             /\ w.tick <= MaxTick
                             /\ w.clues \subseteq Clue
                             /\ IsFiniteSet(w.facts) /\ Cardinality(w.facts) <= MaxFacts

VARIABLES saved,                   \* the stored world
          story, player, reported  \* see StoryProgression
vars == <<saved, story, player, reported>>

Story == INSTANCE StoryProgression

\* The assumptions of StoryProgression, which an INSTANCE does not check.
ASSUME StoryAssumption == Story!DefinitionsFit /\ Story!RewardsFit

Init == saved \in FreshWorlds \cup LegacyWorlds /\ Story!Init

\* What is stored at the end of the player's part: the executor's copy if
\* the tool, the story or the reward changed it, else what was stored.
BugStateChanged(w, done, result) == done.world # w
StateChanged(w, done, result) == done.world # w \/ result.changed

\* _run_director_step: the Director reads the stored state, and only a
\* change is stored.
Directed(stored, proposal, quests) ==
  LET seen == Load(stored)
      acted == WorldAction(seen, proposal, quests)
  IN IF acted = seen THEN stored ELSE acted

\* One turn: done is what the player's tool did to the loaded world.
PlayTurn(done) ==
  \E proposal \in Proposal :
    LET w == Load(saved)
        result == IF done.signal = NoSignal THEN [changed |-> FALSE, story |-> story]
                  ELSE Story!ApplyStorySignal(story, done.signal)
        reward == Story!ApplyQuestCompletionRewards(player, result)
        changed == StateChanged(w, done, result)
        told == IF changed THEN result.story ELSE story
    IN /\ IF Story!Refuses(reward) THEN UNCHANGED <<saved, story, player>>
          ELSE /\ saved' = Directed(IF changed THEN done.world ELSE saved, proposal,
                                    Story!EnsureStoryState(told))
               /\ story' = told
               /\ player' = IF changed THEN reward.player ELSE player
       /\ reported' = IF done.signal = NoSignal THEN reported ELSE done.signal
       /\ saved'.tick <= MaxTick

-----------------------------------------------------------------------------
(* What the player can do next in world w, tool by tool.                    *)

Modes == {"none", "open", "close", "light", "extinguish"}

Moves(w) == {MovePlayer(w, name) : name \in Name}
Talks(w) == {TalkToNpc(w, name) : name \in Name}
Takes(w) == {TakeItem(w, name) : name \in Name}
Drops(w) == {DropItem(w, name) : name \in Name}
Interactions(w) == {Interact(w, name, mode) : name \in Name, mode \in Modes}
                     \cup {Use(w, name, mode, with) : name \in Name, mode \in Modes,
                                                      with \in Name}
Waits(w) == UNION {Executed(w, Wait(w, amount)) : amount \in 0 .. 1}
Invocations(w) == {UseAbility(w, power, name) : power \in Power, name \in Name}

Move == \E done \in Moves(Load(saved)) : PlayTurn(done)
Talk == \E done \in Talks(Load(saved)) : PlayTurn(done)
TakeAnItem == \E done \in Takes(Load(saved)) : PlayTurn(done)
DropAnItem == \E done \in Drops(Load(saved)) : PlayTurn(done)
HandleItem == \E done \in Interactions(Load(saved)) : PlayTurn(done)
Pass == \E done \in Waits(Load(saved)) : PlayTurn(done)
Invoke == \E done \in Invocations(Load(saved)) : PlayTurn(done)
\* Observing, sensing, attacking, and what the parser is not sure of.
Other == PlayTurn(Refused(Load(saved)))

Next == \/ Move
        \/ Talk
        \/ TakeAnItem
        \/ DropAnItem
        \/ HandleItem
        \/ Pass
        \/ Invoke
        \/ Other

Spec == Init /\ [][Next]_vars
-----------------------------------------------------------------------------
(* What the player could do alone, and that the authored content is made    *)
(* for it.                                                                  *)

Deeds(w) == Moves(w) \cup Talks(w) \cup Takes(w) \cup Drops(w) \cup Invocations(w)

\* The worlds the player can bring about in n turns or fewer.
TurnFurther(worlds) ==
  worlds \cup {Load(done.world) : done \in UNION {Deeds(v) : v \in worlds}}
WorldsWithin(w, n) ==
  LET reached[k \in 0 .. n] == IF k = 0 THEN {w} ELSE TurnFurther(reached[k - 1])
  IN reached[n]

CanReport(signal, worlds) == \E v \in worlds : \E done \in Deeds(v) : done.signal = signal

\* The player who asks for name is taken by the way from one room to another.
IsWay(from, to, name) ==
  \E k \in ExitsNamed(from, name) : /\ Exits[from][k][2] = to
                                    /\ \A j \in ExitsNamed(from, name) : k <= j

\* An objective names a room, a character or a thing of the world that can
\* be asked for without being mistaken for another.
Attainable(signal) ==
  \/ \E room \in Room : signal = <<"room_entered", room>>
  \/ \E n \in Npc : /\ signal = <<"npc_spoken_to", n>>
                    /\ \E name \in Name : \A m \in Npc : name \in NpcNames[m] <=> m = n
  \/ \E i \in Portable \cap DOMAIN DefaultPlace :
       /\ signal = <<"item_acquired", i>>
       /\ \E name \in Name : \A j \in Item : name \in ItemNames[j] <=> j = i

\* The authored map is connected (from any rooms but all of them a way leads
\* to another), and the authored quests are about what is in it.
ASSUME ContentAssumption ==
  /\ IsFiniteSet(Room) /\ Cardinality(Room) > 1
  /\ \A rooms \in SUBSET Room : rooms \notin {{}, Room} =>
       \E from \in rooms, to \in Room \ rooms, name \in Name : IsWay(from, to, name)
  /\ \A q \in Quest : \A k \in DOMAIN Objective[q] : Attainable(Objective[q][k])
-----------------------------------------------------------------------------
\* The world has its type (nobody is in a room there is not, and what is
\* open or lit can be), and the facts their limit.
TypeOK == /\ saved \in WorldState
          /\ saved.tick <= MaxTick
          /\ saved.clues \subseteq Clue
          /\ IsFiniteSet(saved.facts) /\ Cardinality(saved.facts) <= MaxFacts

\* As every reader of the campaign state sees it.
World == Load(saved)

\* In a turn at most one item changes place, and then between the room the
\* player is in and the player's hands: no reading or rewriting of an old
\* inventory list, no name that fits something elsewhere, and no ability
\* brings or takes an item from where the player is not.
ThingsStayPut ==
  [][LET next == World'
         moved == {i \in Item : World.place[i] # next.place[i]}
     IN /\ Cardinality(moved) <= 1
        /\ \A i \in moved : {World.place[i], next.place[i]} = {World.room, Inventory}]_vars

\* An objective passes only in a turn in which what it names came about:
\* the player came into the room, spoke to one who was present, or got the
\* item that was in the room.
CameAbout(signal, next) ==
  CASE signal[1] = "room_entered" -> World.room # signal[2] /\ next.room = signal[2]
    [] signal[1] = "npc_spoken_to" -> World.npc[signal[2]] = [at |-> World.room, status |-> "active"]
    [] signal[1] = "item_acquired" -> /\ World.place[signal[2]] = World.room
                                      /\ next.place[signal[2]] = Inventory
StoryFollowsWorld ==
  [][\A q \in Quest :
       LET passed == Story!Passed(q)'
       IN Story!Passed(q) # passed => CameAbout(Objective[q][passed], World')]_vars

\* Whatever the player and the Director have done, and in whatever order,
\* the next objective of a quest is still within the player's reach if the
\* NPCs are present, in no more turns than there are rooms: what was taken
\* too early can be put back and taken again, a room can be entered again,
\* and nobody is where one cannot go.
AllPresent(w) == [w EXCEPT !.npc = [n \in Npc |-> [w.npc[n] EXCEPT !.status = "active"]]]
QuestNeverStranded ==
  \A q \in Quest : Story!Passed(q) < Len(Objective[q]) =>
    CanReport(Objective[q][Story!Passed(q) + 1],
              WorldsWithin(AllPresent(World), Cardinality(Room) - 1))

\* A clue comes out only in a turn that ends with its objective active: not
\* before the player has got so far, and not after the turn that passed it.
CluesAreDue ==
  [][\A c \in saved'.clues \ saved.clues :
       Story!Readable'[ClueQuest[c]].objectives[CluePlace[c]] = "active"]_vars

\* The turns of a campaign are those of StoryProgression: what a tool did,
\* what is stored and what the Director adds never get between a signal and
\* the objective and reward it is for.
ImplementsStory == Story!Spec
=============================================================================
