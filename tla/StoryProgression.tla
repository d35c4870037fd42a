-------------------------- MODULE StoryProgression --------------------------
(***************************************************************************)
(* Quests, their objectives and the completion reward: app/game/story.py,  *)
(* app/game/progression_rewards.py and app/game/character_progression.py.  *)
(* The operators take and return the story and player namespaces of the    *)
(* campaign state, so that a whole turn can be built from them; the state  *)
(* machine below is what handle_chat does with them turn by turn, together *)
(* with the one thing it does not control: a save whose quest record no     *)
(* longer fits the definitions of the release that loads it.               *)
(* An objective is named by its place in its quest (ids and orders are     *)
(* validated to be unique and contiguous).  Bug<Name> is a plausible wrong *)
(* <Name> that no action uses.                                             *)
(***************************************************************************)
EXTENDS Naturals, Sequences, FiniteSets

CONSTANTS Quest,           \* STORY_QUESTS
          Signal,          \* typed story signals: <<signal_type, value>>
          NoSignal,        \* none
          Objective,       \* [Quest -> Seq(Signal)]: trigger conditions
          Track, Ability,  \* progression tracks, ability ids
          MaxTrackPoints,  \* MAX_TRACK_POINTS
          Reward,          \* AUTHORED_QUEST_COMPLETION_REWARDS, in order
          OldSave,         \* [Quest -> set of stored records that do not fit]
          Word,            \* the strings a stored record may hold
          Malformed        \* a stored value of the wrong shape, or none

ObjectiveStatus == {"locked", "active", "completed"}
QuestStatus == {"inactive", "active", "completed"}
Places(q) == 1 .. Len(Objective[q])

\* Every objective with its quest.  A signal, a pair of a type and a value,
\* matches at most one of them.
AllObjectives == UNION {{q} \X Places(q) : q \in Quest}
BugObjectivesMatching(sig) == {m \in AllObjectives : Objective[m[1]][m[2]][1] = sig[1]}
ObjectivesMatching(sig) == {m \in AllObjectives : Objective[m[1]][m[2]] = sig}

\* The record of a quest whose first k objectives are passed.
ReachedProgress(q, k) ==
  [status |-> IF Objective[q] = <<>> THEN "inactive"
              ELSE IF k = Len(Objective[q]) THEN "completed" ELSE "active",
   objectives |-> [i \in Places(q) |-> IF i <= k THEN "completed"
                                       ELSE IF i = k + 1 THEN "active" ELSE "locked"]]

\* A trigger condition belongs to one objective.
ValidateStoryDefinitions ==
  /\ Objective \in [Quest -> Seq(Signal)]
  /\ \A m, n \in AllObjectives :
       Objective[m[1]][m[2]] = Objective[n[1]][n[2]] => m = n

\* Rewards have distinct ids, known quests, tracks and abilities.
ValidateProgressionRewardDefinitions ==
  /\ Reward \in Seq([id : STRING, quest : Quest,
                     grants : [Track -> 0 .. MaxTrackPoints], unlocks : SUBSET Ability])
  /\ \A i, j \in DOMAIN Reward : Reward[i].id = Reward[j].id => i = j

\* What the validated definitions are to the records that are stored: no
\* record of play is one that does not fit, no list of claims a damaged one.
DefinitionsFit ==
  /\ ValidateStoryDefinitions
  /\ ObjectiveStatus \cup QuestStatus \subseteq Word
  /\ \A q \in Quest : \A k \in 0 .. Len(Objective[q]) :
       ReachedProgress(q, k) \notin OldSave[q] \cup {Malformed}

RewardsFit ==
  /\ MaxTrackPoints \in Nat
  /\ ValidateProgressionRewardDefinitions
  /\ \A ids \in SUBSET {Reward[i].id : i \in DOMAIN Reward} : ids # Malformed

ASSUME DefinitionsAssumption == DefinitionsFit
ASSUME RewardAssumption == RewardsFit
-----------------------------------------------------------------------------
(* Reading stored progress.                                                 *)

\* A quest without objectives starts inactive.
FreshQuestProgress(q) ==
  [status |-> IF Objective[q] = <<>> THEN "inactive" ELSE "active",
   objectives |-> [i \in Places(q) |-> IF i = 1 THEN "active" ELSE "locked"]]

\* The scan stays in its phase "completed" while every objective so far is;
\* after that only locked ones may follow.
ScanAccepts(q, marks) ==
  \A i \in Places(q) : /\ marks[i] \in ObjectiveStatus
                       /\ \A j \in 1 .. i - 1 :
                            marks[i] # "locked" => marks[j] = "completed"

DeriveQuestStatus(q, marks) ==
  IF Objective[q] = <<>> THEN "inactive"
  ELSE IF ~ScanAccepts(q, marks) THEN "malformed"
  ELSE IF \A i \in Places(q) : marks[i] = "completed" THEN "completed"
  ELSE IF \E i \in Places(q) : marks[i] = "active" THEN "active"
  ELSE "malformed"

\* A record is kept only if it has the right keys and its status is the one
\* its objectives spell; anything else starts over.
BugNormalizeQuestProgress(q, raw) ==
  IF raw \in [status : Word, objectives : [Places(q) -> Word]]
  THEN raw ELSE FreshQuestProgress(q)
NormalizeQuestProgress(q, raw) ==
  IF /\ raw \in [status : Word, objectives : [Places(q) -> Word]]
     /\ raw.status \in QuestStatus
     /\ raw.status = DeriveQuestStatus(q, raw.objectives)
  THEN raw ELSE FreshQuestProgress(q)

EnsureStoryState(raw) == [q \in Quest |-> NormalizeQuestProgress(q, raw[q])]
-----------------------------------------------------------------------------
(* One signal: at most one objective, the active one of its quest.          *)

Unapplied(raw, outcome) == [changed |-> FALSE, outcome |-> outcome, story |-> raw]

\* _next_objective: the objective with the following order, if there is one.
HasNext(q, i) == i + 1 \in Places(q)

Advance(q, i, p) ==
  [status |-> IF HasNext(q, i) THEN "active" ELSE "completed",
   objectives |-> [j \in Places(q) |-> IF j = i THEN "completed"
                                       ELSE IF j = i + 1 THEN "active"
                                       ELSE p.objectives[j]]]

ApplyStorySignal(raw, sig) ==
  LET story == EnsureStoryState(raw)
      Matching(st) == {m \in ObjectivesMatching(sig) :
                         story[m[1]].objectives[m[2]] = st}
  IN IF Matching("active") # {}
     THEN LET m == CHOOSE n \in Matching("active") : TRUE
              q == m[1]
              next == Advance(q, m[2], story[q])
          IN [changed |-> TRUE, quest |-> q, objective |-> m[2],
              outcome |-> IF HasNext(q, m[2]) THEN "objective_advanced"
                          ELSE "quest_completed",
              from |-> story[q].status, to |-> next.status,
              story |-> [story EXCEPT ![q] = next]]
     ELSE IF Matching("completed") # {} THEN Unapplied(raw, "already_satisfied")
     ELSE Unapplied(raw, "not_applicable")
-----------------------------------------------------------------------------
(* The reward of the quest a signal completed.  A player is a record of     *)
(* claimed reward ids, points per track and unlocked abilities.             *)

Lesser(a, b) == IF a <= b THEN a ELSE b

BugGrantProgress(tracks, grants) == [t \in Track |-> tracks[t] + grants[t]]
GrantProgress(tracks, grants) ==
  [t \in Track |-> Lesser(tracks[t] + grants[t], MaxTrackPoints)]

\* The first authored reward of the quest.
RewardsOf(q) == {i \in DOMAIN Reward : Reward[i].quest = q}
RewardFor(q) == Reward[CHOOSE i \in RewardsOf(q) : \A j \in RewardsOf(q) : i <= j]

\* _proves_canonical_quest_completion: the quest's last objective went from
\* active to completed, and so did the quest, also in the state itself.
ProvesCompletion(result) ==
  /\ result.objective = Len(Objective[result.quest])
  /\ result.from = "active"
  /\ result.to = "completed"
  /\ LET now == EnsureStoryState(result.story)[result.quest]
     IN /\ now.status = "completed"
        /\ now.objectives[Len(Objective[result.quest])] = "completed"

BugClaimable(player, id) == player.claims # Malformed
Claimable(player, id) == player.claims # Malformed /\ id \notin player.claims

BugRewarded(player, reward) ==
  [claims |-> {reward.id},
   tracks |-> GrantProgress(player.tracks, reward.grants),
   unlocked |-> player.unlocked \cup reward.unlocks]
Rewarded(player, reward) ==
  [claims |-> player.claims \cup {reward.id},
   tracks |-> GrantProgress(player.tracks, reward.grants),
   unlocked |-> player.unlocked \cup reward.unlocks]

ApplyQuestCompletionRewards(player, result) ==
  IF \/ ~result.changed
     \/ result.outcome # "quest_completed"
     \/ RewardsOf(result.quest) = {}
     \/ ~ProvesCompletion(result)
  THEN [outcome |-> "not_applicable", player |-> player]
  ELSE LET reward == RewardFor(result.quest)
       IN IF Claimable(player, reward.id)
          THEN [outcome |-> "applied", player |-> Rewarded(player, reward)]
          ELSE [outcome |-> IF player.claims = Malformed THEN "failed"
                            ELSE "already_claimed",
                player |-> player]
-----------------------------------------------------------------------------
(* The turns of one campaign, as far as the story goes.                     *)

VARIABLES story,   \* the stored record of each quest, readable or not
          player,  \* claims, points and abilities, as stored
          reported \* history: the signal of the last turn
vars == <<story, player, reported>>

NewPlayer(claims) == [claims |-> claims, tracks |-> [t \in Track |-> 0], unlocked |-> {}]

\* A new campaign has no story namespace; a stored claim list may be damaged.
Init == /\ story = [q \in Quest |-> Malformed]
        /\ player \in {NewPlayer({}), NewPlayer(Malformed)}
        /\ reported = NoSignal

\* A reward that fails ends the turn with status 500 and rolls it back.
Refuses(reward) == reward.outcome = "failed"

\* handle_chat with the signal of a successful action: story, then reward,
\* stored together.
Turn(sig) == LET result == ApplyStorySignal(story, sig)
                 reward == ApplyQuestCompletionRewards(player, result)
             IN /\ reported' = sig
                /\ IF Refuses(reward) THEN UNCHANGED <<story, player>>
                   ELSE /\ story' = result.story
                        /\ player' = reward.player

\* A release whose definition of q the stored record does not fit.
Outdate(q) == /\ \E raw \in OldSave[q] : story' = [story EXCEPT ![q] = raw]
              /\ reported' = NoSignal
              /\ UNCHANGED player

Next == \/ \E sig \in Signal : Turn(sig)
        \/ \E q \in Quest : Outdate(q)

Spec == Init /\ [][Next]_vars
-----------------------------------------------------------------------------
RewardIds == {Reward[i].id : i \in DOMAIN Reward}
StoredProgress(q) == {ReachedProgress(q, k) : k \in 0 .. Len(Objective[q])}
                       \cup OldSave[q] \cup {Malformed}

\* Every stored record is a reached one, or one that fits no definition.
TypeOK == /\ story \in [Quest -> UNION {StoredProgress(q) : q \in Quest}]
          /\ \A q \in Quest : story[q] \in StoredProgress(q)
          /\ reported \in Signal \cup {NoSignal}
          /\ player \in [claims : {Malformed} \cup SUBSET RewardIds,
                         tracks : [Track -> 0 .. MaxTrackPoints],
                         unlocked : SUBSET Ability]

Readable == EnsureStoryState(story)
ClaimedIds == IF player.claims = Malformed THEN {} ELSE player.claims

\* A quest that reads as completed has had its reward: no unreadable record and
\* none of OldSave, which do not fit the definitions, reads as a completion
\* ("never granting completion from unreadable data", ensure_story_state), and
\* a turn cannot complete a quest and leave its reward out.  A record that fits
\* is one of play: a completion under other definitions that fits these is not
\* told apart from theirs and is no subject here.
CompletedIsRewarded ==
  \A q \in Quest : Readable[q].status = "completed" /\ RewardsOf(q) # {} =>
                   RewardFor(q).id \in ClaimedIds

\* Points and abilities are those of the claimed rewards, each granted once
\* and whole, however often a quest starts over and is completed again.
GrantedBy(ids, t) == LET earned[n \in 0 .. Len(Reward)] ==
                           IF n = 0 THEN 0
                           ELSE earned[n - 1] + IF Reward[n].id \in ids
                                                THEN Reward[n].grants[t] ELSE 0
                     IN earned[Len(Reward)]
PointsAreEarned ==
  /\ \A t \in Track : player.tracks[t] = Lesser(GrantedBy(ClaimedIds, t), MaxTrackPoints)
  /\ player.unlocked = UNION {Reward[i].unlocks :
                              i \in {j \in DOMAIN Reward : Reward[j].id \in ClaimedIds}}

\* What is kept or lost over a step: claims, points and abilities are never
\* taken back, and points or abilities only come with a new claim.
NothingTakenBack ==
  [][/\ player.claims # Malformed => player.claims \subseteq player'.claims
     /\ \A t \in Track : player.tracks[t] <= player'.tracks[t]
     /\ player.unlocked \subseteq player'.unlocked
     /\ player' # player => player'.claims # player.claims]_vars

\* The promise: a turn passes the objective that waits for its signal, pays
\* a quest with its last one, and changes nothing else; only a record that
\* does not fit starts a quest over.
Passed(q) == CHOOSE k \in 0 .. Len(Objective[q]) : Readable[q] = ReachedProgress(q, k)
Line == INSTANCE QuestLine WITH
          Rewarding <- {q \in Quest : RewardsOf(q) # {}},
          done <- [q \in Quest |-> Passed(q)],
          rewarded <- {q \in Quest : RewardsOf(q) # {} /\ RewardFor(q).id \in ClaimedIds}
ImplementsQuestLine == Line!Spec
=============================================================================
