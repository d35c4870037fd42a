----------------------- MODULE PlayerAbilitiesProofs -----------------------
(***************************************************************************)
(* Theorems about PlayerAbilities, for any built-in and generated           *)
(* abilities, legacy saves, rewards, rooms, texts and models.               *)
(***************************************************************************)
EXTENDS PlayerAbilities, WellFoundedInduction, SequenceTheorems, TLAPS

Player == [claims : SUBSET Story!RewardIds, tracks : [Track -> 0 .. MaxTrackPoints],
           unlocked : SUBSET Ability]

\* What a definition is, wherever it comes from.
Definition(a) == /\ a.id \in Ability /\ a.id \in Seq(STRING) \ {<<>>}
                 /\ a.name \in Seq(STRING) \ {<<>>}
                 /\ a.track \in Track /\ a.minimum \in 0 .. MaxTrackPoints

\* Where the stored starters come from.
Stored == starters = <<>> \/ starters \in Generated \X Generated \/ starters \in LegacyStarters

\* The inductive invariant.
IInv == TypeOK /\ Stored /\ OwnedIsAvailable /\ AcceptedIsCarriedOut
-----------------------------------------------------------------------------
(* Stored definitions.                                                      *)

\* The starters are two.
LEMMA TwoStarters ==
  ASSUME Stored, Loads(starters), starters # <<>>
  PROVE  /\ MembersOf(starters) = {starters[1], starters[2]}
         /\ ValidateStarters(starters, TRUE)
<1>1. DOMAIN starters = 1 .. 2
  <2>1. CASE starters \in Generated \X Generated
    BY <2>1
  <2>2. CASE starters \in LegacyStarters
    BY <2>2, AbilityAssumption
  <2> QED  BY <2>1, <2>2 DEF Stored
<1>2. {starters[i] : i \in 1 .. 2} = {starters[1], starters[2]}
  OBVIOUS
<1>3. ValidateStarters(starters, TRUE)
  BY DEF Loads
<1> QED  BY <1>1, <1>2, <1>3 DEF MembersOf

LEMMA NoStarters == ASSUME starters = <<>> PROVE MembersOf(starters) = {}
  BY DEF MembersOf

LEMMA KnownAreDefinitions ==
  ASSUME Stored, NEW a \in Known
  PROVE  Definition(a)
<1>1. a \in BuiltIn \cup Generated \cup UNION {MembersOf(ds) : ds \in LegacyStarters}
  <2>1. CASE a \in BuiltIn
    BY <2>1
  <2>2. CASE a \in MembersOf(starters) /\ starters \in LegacyStarters
    BY <2>2
  <2>3. CASE a \in MembersOf(starters) /\ starters \in Generated \X Generated
    BY <2>3 DEF MembersOf
  <2> QED  BY <2>1, <2>2, <2>3, NoStarters DEF Known, Stored
<1> QED  BY <1>1, AbilityAssumption DEF Definition

\* What loading a starter promises.
LEMMA StarterFacts ==
  ASSUME Stored, Loads(starters), NEW d \in MembersOf(starters)
  PROVE  /\ d.minimum = 0
         /\ \A a \in BuiltIn : d.id # a.id
         /\ <<d.kind, d.effect>> \in Mechanics
<1>1. starters # <<>>
  BY NoStarters
<1>2. PICK i \in 1 .. 2 : d = starters[i]
  BY <1>1, TwoStarters
<1> QED  BY <1>1, <1>2, TwoStarters DEF ValidateStarters, ValidateGenerated

\* An id names one definition.
LEMMA IdsDiffer ==
  ASSUME Stored, Loads(starters), NEW a \in Known, NEW b \in Known, a.id = b.id
  PROVE  a = b
<1>1. CASE a \in BuiltIn /\ b \in BuiltIn
  BY <1>1, AbilityAssumption DEF References
<1>2. CASE a \in MembersOf(starters) /\ b \in MembersOf(starters)
  <2>1. starters # <<>>
    BY <1>2, NoStarters
  <2> QED  BY <1>2, <2>1, TwoStarters DEF ValidateStarters
<1> QED  BY <1>1, <1>2, StarterFacts DEF Known

\* In a campaign that was checked when it was created, a reference stands for
\* one ability, unlocked or not.
LEMMA ReferencesDiffer ==
  ASSUME Stored, Fresh, NEW a \in Known, NEW b \in Known, a # b
  PROVE  References(a) \cap References(b) = {}
<1>1. CASE a \in BuiltIn /\ b \in BuiltIn
  BY <1>1, AbilityAssumption
<1>2. ASSUME starters # <<>>
      PROVE  /\ MembersOf(starters) = {starters[1], starters[2]}
             /\ NewStarters(starters[1], starters[2])
  <2>1. ValidateStarters(starters, FALSE)
    BY <1>2 DEF Fresh
  <2>2. Loads(starters)
    BY <2>1 DEF ValidateStarters, Loads
  <2> QED  BY <1>2, <2>1, <2>2, TwoStarters DEF ValidateStarters
<1>3. ASSUME NEW d \in MembersOf(starters), NEW e \in BuiltIn
      PROVE  References(d) \cap References(e) = {}
  <2>1. References(e) \subseteq BuiltInReferences
    BY DEF BuiltInReferences
  <2> QED  BY <1>2, <2>1, NoStarters DEF NewStarters
<1>4. CASE a \in MembersOf(starters) /\ b \in MembersOf(starters)
  BY <1>2, <1>4, NoStarters DEF NewStarters
<1> QED  BY <1>1, <1>3, <1>4 DEF Known

\* So every reference of an ability is its own, whatever is available.
LEMMA AllAreUnique ==
  ASSUME Stored, Fresh, NEW a \in Known, NEW S \in SUBSET Known
  PROVE  UniqueReferences(a, S) = References(a)
BY ReferencesDiffer DEF UniqueReferences
-----------------------------------------------------------------------------
(* What a step does to the player.                                          *)

\* The reward of a quest that has one is one of those there are.
LEMMA FirstReward ==
  ASSUME NEW q, Story!RewardsOf(q) # {}
  PROVE  \E i \in DOMAIN Reward : Story!RewardFor(q) = Reward[i]
<1> DEFINE S == Story!RewardsOf(q)
           First(i) == \A j \in S : i <= j
           R == OpToRel(<, Nat)
<1>1. S # {} /\ S \subseteq DOMAIN Reward /\ S \subseteq Nat
  BY AbilityAssumption DEF Story!RewardsOf, Story!ValidateProgressionRewardDefinitions
<1>2. R = {p \in Nat \X Nat : p[1] < p[2]}
  BY DEF OpToRel
<1>3. PICK i \in S : \A j \in S : <<j, i>> \notin R
  <2>1. IsWellFoundedOn(R, Nat)
    BY NatLessThanWellFounded
  <2> HIDE DEF R, S
  <2> QED  BY <1>1, <2>1, WFMin
<1>4. First(i)
  <2> SUFFICES ASSUME NEW j \in S PROVE i <= j
    OBVIOUS
  <2>1. i \in Nat /\ j \in Nat
    BY <1>1
  <2>2. j < i => <<j, i>> \in R
    BY <1>2, <2>1
  <2> HIDE DEF R
  <2> QED  BY <1>3, <2>1, <2>2
<1>5. (CHOOSE n \in S : First(n)) \in S
  BY <1>4
<1> QED  BY <1>1, <1>5 DEF Story!RewardFor

LEMMA RewardTypes ==
  ASSUME NEW i \in DOMAIN Reward
  PROVE  /\ Reward[i].id \in Story!RewardIds
         /\ Reward[i].grants \in [Track -> 0 .. MaxTrackPoints]
         /\ Reward[i].unlocks \subseteq Ability
<1> DEFINE T == [id : STRING, quest : Quest,
                 grants : [Track -> 0 .. MaxTrackPoints], unlocks : SUBSET Ability]
<1>1. Reward \in Seq(T)
  BY AbilityAssumption DEF Story!ValidateProgressionRewardDefinitions
<1>2. Reward[i] \in T
  <2> HIDE DEF T
  <2> QED  BY <1>1
<1> QED  BY <1>2 DEF Story!RewardIds

\* What a turn may do to the player's record: nothing, or add a reward.
Gains(i) == player' = Story!Rewarded(player, Reward[i])

LEMMA TurnGains ==
  ASSUME NEW sig, Story!Turn(sig)
  PROVE  player' = player \/ \E i \in DOMAIN Reward : Gains(i)
<1> DEFINE result == Story!ApplyStorySignal(story, sig)
           reward == Story!ApplyQuestCompletionRewards(player, result)
<1>1. player' = player \/ player' = reward.player
  BY DEF Story!Turn
<1>2. reward.player = player \/ \E i \in DOMAIN Reward :
                                  reward.player = Story!Rewarded(player, Reward[i])
  <2> HIDE DEF result
  <2>1. CASE Story!RewardsOf(result.quest) = {}
    BY <2>1 DEF Story!ApplyQuestCompletionRewards
  <2>2. CASE Story!RewardsOf(result.quest) # {}
    <3>1. PICK i \in DOMAIN Reward : Story!RewardFor(result.quest) = Reward[i]
      BY <2>2, FirstReward
    <3> QED  BY <3>1 DEF Story!ApplyQuestCompletionRewards
  <2> QED  BY <2>1, <2>2
<1> QED  BY <1>1, <1>2 DEF Gains

LEMMA StepGains ==
  ASSUME [Next]_vars
  PROVE  /\ starters' = starters
         /\ player' = player \/ \E i \in DOMAIN Reward : Gains(i)
BY TurnGains DEF Next, Play, Ask, Tells, vars

\* Points only grow, and whatever is newly owned has come with its points.
LEMMA GainKeeps ==
  ASSUME Stored, Loads(starters), OwnedIsAvailable, player \in Player, starters' = starters,
         NEW i \in DOMAIN Reward, Gains(i)
  PROVE  player' \in Player /\ OwnedIsAvailable' /\ Available \subseteq Available'
<1> DEFINE g == Reward[i].grants
<1>1. player' = [claims |-> player.claims \cup {Reward[i].id},
                 tracks |-> [t \in Track |-> Story!Lesser(player.tracks[t] + g[t], MaxTrackPoints)],
                 unlocked |-> player.unlocked \cup Reward[i].unlocks]
  BY DEF Gains, Story!Rewarded, Story!GrantProgress
<1>2. ASSUME NEW t \in Track
      PROVE  /\ player'.tracks[t] \in 0 .. MaxTrackPoints
             /\ player.tracks[t] \in 0 .. MaxTrackPoints
             /\ g[t] \in 0 .. MaxTrackPoints
             /\ player.tracks[t] <= player'.tracks[t]
             /\ g[t] <= player'.tracks[t]
  <2>1. player.tracks[t] \in 0 .. MaxTrackPoints /\ g[t] \in 0 .. MaxTrackPoints
    BY RewardTypes DEF Player
  <2>2. player'.tracks[t] = Story!Lesser(player.tracks[t] + g[t], MaxTrackPoints)
    BY <1>1
  <2> QED  BY <2>1, <2>2, AbilityAssumption DEF Story!Lesser
<1>3. player' \in Player
  <2>1. player'.tracks \in [Track -> 0 .. MaxTrackPoints]
    BY <1>1, <1>2
  <2> QED  BY <1>1, <2>1, RewardTypes DEF Player
<1>4. Known' = Known
  BY DEF Known, MembersOf
<1>5. ASSUME NEW a \in Known, Owned(a)'
      PROVE  player'.tracks[a.track] >= a.minimum
  <2>1. a.track \in Track /\ a.minimum \in 0 .. MaxTrackPoints
    BY KnownAreDefinitions DEF Definition
  <2>2. CASE Owned(a)
    <3>1. player.tracks[a.track] >= a.minimum
      BY <2>2 DEF OwnedIsAvailable, Available, Enough
    <3> QED  BY <1>2, <2>1, <3>1
  <2>3. CASE a.id \in Reward[i].unlocks
    <3>1. PICK b \in BuiltIn : b.id = a.id /\ g[b.track] >= b.minimum
      BY <2>3, AbilityAssumption
    <3>2. b = a
      BY <3>1, IdsDiffer DEF Known
    <3> QED  BY <1>2, <2>1, <3>1, <3>2
  <2> QED  BY <1>1, <1>5, <2>2, <2>3 DEF Owned
<1>6. OwnedIsAvailable'
  BY <1>4, <1>5 DEF OwnedIsAvailable, Available, Enough, Owned
<1>7. Available \subseteq Available'
  BY <1>1, <1>4, <1>5 DEF Available, Enough, Owned
<1> QED  BY <1>3, <1>6, <1>7

LEMMA StepKeeps ==
  ASSUME IInv, [Next]_vars
  PROVE  /\ starters' = starters
         /\ player' \in Player
         /\ OwnedIsAvailable'
         /\ Available \subseteq Available'
<1>1. player \in Player /\ Stored /\ Loads(starters) /\ OwnedIsAvailable
  BY DEF IInv, TypeOK, Player
<1>2. CASE player' = player
  BY <1>1, <1>2, StepGains DEF OwnedIsAvailable, Available, Enough, Owned, Known, MembersOf
<1>3. CASE \E i \in DOMAIN Reward : Gains(i)
  BY <1>1, <1>3, StepGains, GainKeeps
<1> QED  BY <1>2, <1>3, StepGains
-----------------------------------------------------------------------------
(* What the executor makes of a request.                                    *)

LEMMA AvailableResolve ==
  ASSUME IInv, NEW a \in Available, NEW room
  PROVE  Resolve(a.id, room) \notin {"unknown", "unavailable", "failure"}
<1>1. a \in Known /\ Stored /\ Loads(starters) /\ player \in Player
  BY DEF IInv, TypeOK, Available, Player
<1>2. (CHOOSE b \in Known : b.id = a.id) = a
  BY <1>1, IdsDiffer
<1>3. CASE a \in BuiltIn
  <2>1. CASE a.id = Check.ability
    <3>1. /\ player.tracks[a.track] >= a.minimum
          /\ a.track \in Track /\ a.minimum \in 0 .. MaxTrackPoints
          /\ Check.difficulty \in Nat /\ Check.difficulty <= a.minimum
      BY <1>1, <1>3, <2>1, AbilityAssumption, KnownAreDefinitions DEF Available, Enough, Definition
    <3>2. player.tracks[a.track] \in 0 .. MaxTrackPoints
      BY <1>1, <3>1 DEF Player
    <3>3. ResolveCheck(a) = "success"
      BY <3>1, <3>2, AbilityAssumption DEF ResolveCheck
    <3> QED  BY <1>1, <1>2, <1>3, <3>3 DEF Resolve
  <2>2. CASE a.id # Check.ability
    BY <1>1, <1>2, <1>3, <2>2 DEF Resolve
  <2> QED  BY <2>1, <2>2
<1>4. CASE a \notin BuiltIn
  <2>1. <<a.kind, a.effect>> \in Mechanics
    BY <1>1, <1>4, StarterFacts DEF Known
  <2>2. a.effect \in {"sense", "traverse", "minor_utility", "move", "toggle"}
    BY <2>1 DEF Mechanics
  <2>3. Resolve(a.id, room) = IF Generic(a) THEN "unsupported" ELSE a.effect
    BY <1>1, <1>2, <1>4 DEF Resolve
  <2> QED  BY <2>2, <2>3
<1> QED  BY <1>3, <1>4

LEMMA AskResolves ==
  ASSUME IInv, NEW scene, NEW text, NEW output, Ask(scene, text, output)
  PROVE  AcceptedIsCarriedOut' /\ asked'.status \in {"none", "ok", "ambiguous", "invalid"}
<1>1. CASE Understands(Available, scene, text, output)
  <2>1. PICK a \in Available : a.id = output.ability
    BY <1>1 DEF Understands
  <2>2. asked'.status = "ok" /\ asked'.result = Resolve(output.ability, scene.room)
    BY <1>1 DEF Ask
  <2> QED  BY <2>1, <2>2, AvailableResolve DEF AcceptedIsCarriedOut
<1>2. CASE ~Understands(Available, scene, text, output)
  <2>1. asked'.status \in {"ambiguous", "invalid"}
    BY <1>2 DEF Ask, NoRequest
  <2> QED  BY <2>1 DEF AcceptedIsCarriedOut
<1> QED  BY <1>1, <1>2
-----------------------------------------------------------------------------
(* The invariant.                                                           *)

LEMMA InitInvariant == Init => IInv
<1> SUFFICES ASSUME Init PROVE IInv
  OBVIOUS
<1>1. Stored
  BY DEF Init, Stored
<1>2. Loads(starters)
  <2>1. CASE starters \in LegacyStarters
    BY <2>1, AbilityAssumption DEF Loads
  <2>2. CASE ValidateStarters(starters, FALSE)
    BY <2>2 DEF Loads, ValidateStarters
  <2> QED  BY <2>1, <2>2 DEF Init, Loads
<1>3. player = [claims |-> {}, tracks |-> [t \in Track |-> 0],
                unlocked |-> {d.id : d \in MembersOf(starters)}]
  BY DEF Init, Story!NewPlayer
<1>4. player \in Player
  <2>1. \A d \in MembersOf(starters) : d.id \in Ability
    BY <1>1, KnownAreDefinitions DEF Definition, Known
  <2> QED  BY <1>3, <2>1, AbilityAssumption DEF Player
<1>5. ASSUME NEW a \in Known, Owned(a)
      PROVE  Enough(a)
  <2>1. PICK d \in MembersOf(starters) : d.id = a.id
    BY <1>3, <1>5 DEF Owned
  <2>2. d = a /\ d.minimum = 0
    BY <1>1, <1>2, <2>1, IdsDiffer, StarterFacts DEF Known
  <2>3. player.tracks[a.track] = 0
    BY <1>1, <1>3, KnownAreDefinitions DEF Definition
  <2> QED  BY <2>2, <2>3 DEF Enough
<1>6. OwnedIsAvailable
  BY <1>5 DEF OwnedIsAvailable, Available
<1> QED  BY <1>1, <1>2, <1>4, <1>6 DEF IInv, TypeOK, Player, Init, NoRequest, AcceptedIsCarriedOut

LEMMA Invariance == IInv /\ [Next]_vars => IInv'
<1> SUFFICES ASSUME IInv, [Next]_vars PROVE IInv'
  OBVIOUS
<1>1. starters' = starters /\ player' \in Player /\ OwnedIsAvailable'
  BY StepKeeps
<1>2. Stored' /\ Loads(starters)'
  BY <1>1 DEF IInv, TypeOK, Stored, Loads
<1>3. AcceptedIsCarriedOut' /\ asked'.status \in {"none", "ok", "ambiguous", "invalid"}
  <2>1. CASE UNCHANGED asked
    BY <2>1 DEF IInv, TypeOK, AcceptedIsCarriedOut
  <2>2. CASE asked' = NoRequest
    BY <2>2 DEF NoRequest, AcceptedIsCarriedOut
  <2> QED  BY <2>1, <2>2, AskResolves DEF Next, Play, vars
<1> QED  BY <1>1, <1>2, <1>3 DEF IInv, TypeOK, Player

LEMMA SpecInvariant == Spec => []IInv
  BY InitInvariant, Invariance, PTL DEF Spec

\* Every variable keeps its type, and what is stored loads.
THEOREM TypeCorrect == Spec => []TypeOK
<1>1. IInv => TypeOK
  BY DEF IInv
<1> QED  BY <1>1, SpecInvariant, PTL

\* No ability is owned and short of its points.
THEOREM OwnedAreAvailable == Spec => []OwnedIsAvailable
<1>1. IInv => OwnedIsAvailable
  BY DEF IInv
<1> QED  BY <1>1, SpecInvariant, PTL

\* The parser lets nothing through that the executor turns away.
THEOREM AcceptedAreCarriedOut == Spec => []AcceptedIsCarriedOut
<1>1. IInv => AcceptedIsCarriedOut
  BY DEF IInv
<1> QED  BY <1>1, SpecInvariant, PTL
-----------------------------------------------------------------------------
(* Words.                                                                   *)

\* More abilities to choose from change nothing for one of them, as long as
\* no two share a reference.
LEMMA WordsStay ==
  ASSUME Stored, Fresh, NEW S \in SUBSET Known, NEW T \in SUBSET Known, S \subseteq T,
         NEW scene, NEW text, NEW output, Understands(S, scene, text, output)
  PROVE  Understands(T, scene, text, output)
<1>1. PICK a \in S : a.id = output.ability /\ Accepts(a, S, scene, text, output)
  BY DEF Understands
<1>2. UniqueReferences(a, S) = UniqueReferences(a, T)
  BY AllAreUnique
<1>3. Occurrences(a, S, scene, text) = Occurrences(a, T, scene, text)
  BY <1>2 DEF Occurrences
<1>4. Accepts(a, T, scene, text, output)
  BY <1>1, <1>3 DEF Accepts
<1> QED  BY <1>1, <1>4 DEF Understands

\* A reward never makes words ambiguous that were not.
THEOREM UnlockingIsHarmless == Spec => WordsKeepTheirMeaning
<1>1. IInv /\ [Next]_vars =>
        [Fresh /\ player' # player => Understood \subseteq Understood']_vars
  <2> SUFFICES ASSUME IInv, [Next]_vars, Fresh,
                      NEW said \in Scene \X Text \X Output,
                      Understands(Available, said[1], said[2], said[3])
               PROVE  Understands(Available, said[1], said[2], said[3])'
    BY DEF Understood
  <2>1. Stored /\ starters' = starters /\ Available \subseteq Available'
    BY StepKeeps DEF IInv
  <2>2. Known' = Known
    BY <2>1 DEF Known, MembersOf
  <2>3. Available \in SUBSET Known /\ Available' \in SUBSET Known
    BY <2>2 DEF Available
  <2>4. Understands(Available', said[1], said[2], said[3])
    BY <2>1, <2>3, WordsStay
  <2> QED  BY <2>4 DEF Understands, Accepts, Occurrences, UniqueReferences, OfKind
<1> QED  BY <1>1, SpecInvariant, PTL DEF Spec, WordsKeepTheirMeaning

\* Taking the article off leaves a word.
LEMMA CanonicalIsSeq ==
  ASSUME NEW words \in Seq(STRING) \ {<<>>}
  PROVE  Canonical(words) \in Seq(STRING) \ {<<>>}
<1>1. CASE Len(words) > 1
  <2>1. Tail(words) \in Seq(STRING) /\ Len(Tail(words)) = Len(words) - 1 /\ Len(words) \in Nat
    BY <1>1
  <2>2. Tail(words) # <<>>
    <3>1. Len(Tail(words)) # 0
      BY <1>1, <2>1
    <3>2. Len(<<>>) = 0
      BY EmptySeq
    <3> QED  BY ONLY <3>1, <3>2
  <2> QED  BY <2>1, <2>2 DEF Canonical
<1>2. CASE ~ (Len(words) > 1)
  BY <1>2 DEF Canonical
<1> QED  BY <1>1, <1>2

\* Saying it plainly puts the word "ability" before a reference and the target
\* after it.
LEMMA PlainWords ==
  ASSUME NEW S, "ability" \in S,
         NEW ws \in Seq(S) \ {<<>>}, NEW target \in Seq(S) \ {<<>>},
         NEW text, text = <<"ability">> \o ws \o target
  PROVE  /\ text \in Seq(S)
         /\ Len(text) = 1 + Len(ws) + Len(target)
         /\ text[1] = "ability"
         /\ \A j \in DOMAIN ws : j + 1 \in DOMAIN text /\ text[j + 1] = ws[j]
         /\ SubSeq(text, Len(ws) + 2, Len(text)) = target
<1> DEFINE front == <<"ability">> \o ws
<1>1. /\ front \in Seq(S) /\ Len(front) = 1 + Len(ws)
      /\ front[1] = "ability"
      /\ \A j \in 1 .. Len(ws) : front[j + 1] = ws[j]
  <2>1. <<"ability">> \in Seq(S) /\ Len(<<"ability">>) = 1
    OBVIOUS
  <2>2. Len(ws) \in Nat
    OBVIOUS
  <2>3. /\ front \in Seq(S) /\ Len(front) = 1 + Len(ws)
        /\ \A j \in 1 .. 1 + Len(ws) :
             front[j] = IF j <= 1 THEN <<"ability">>[j] ELSE ws[j - 1]
    BY <2>1, ConcatProperties
  <2> HIDE DEF front
  <2> QED  BY <2>2, <2>3
<1>2. text = front \o target
  OBVIOUS
<1> HIDE DEF front
<1>3. /\ text \in Seq(S) /\ Len(text) = Len(front) + Len(target)
      /\ \A j \in 1 .. Len(front) : text[j] = front[j]
      /\ \A j \in 1 .. Len(target) : text[Len(front) + j] = target[j]
  BY <1>1, <1>2
<1>4. SubSeq(text, Len(ws) + 2, Len(text)) = target
  <2>1. Len(ws) \in Nat /\ Len(target) \in Nat
    OBVIOUS
  <2>2. SubSeq(text, Len(ws) + 2, Len(text)) = [j \in 1 .. Len(target) |-> text[Len(ws) + 1 + j]]
    BY <1>1, <1>3, <2>1
  <2>3. target = [j \in 1 .. Len(target) |-> target[j]]
    OBVIOUS
  <2> QED  BY <1>1, <1>3, <2>1, <2>2, <2>3
<1>5. \A j \in DOMAIN ws : j + 1 \in DOMAIN text /\ text[j + 1] = ws[j]
  BY <1>1, <1>3
<1> QED  BY <1>1, <1>3, <1>4, <1>5

LEMMA PlainlyUnderstood ==
  ASSUME Stored, Fresh, NEW a \in Available, NEW scene, NEW target \in Target
  PROVE  Understands(Available, scene, Plainly(a, target),
                     [ability |-> a.id, target |-> target, status |-> "ok"])
<1> DEFINE ws == Canonical(Canonical(a.id))
           text == Plainly(a, target)
           span == [from |-> 2, to |-> 1 + Len(ws)]
           output == [ability |-> a.id, target |-> target, status |-> "ok"]
           S == STRING \cup {"ability"}
<1>1. a \in Known /\ Available \in SUBSET Known
  BY DEF Available
<1>2. ws \in Seq(STRING) \ {<<>>}
  BY <1>1, KnownAreDefinitions, CanonicalIsSeq DEF Definition
<1>3. target \in Seq(STRING) \ {<<>>} /\ Len(target) <= 8 /\ Len(target) \in Nat
  BY AbilityAssumption
<1>4. Canonical(a.id) \in UniqueReferences(a, Available)
  BY <1>1, AllAreUnique DEF References
<1>5. /\ text \in Seq(S)
      /\ Len(text) = 1 + Len(ws) + Len(target)
      /\ text[1] = "ability"
      /\ \A j \in DOMAIN ws : j + 1 \in DOMAIN text /\ text[j + 1] = ws[j]
      /\ SubSeq(text, Len(ws) + 2, Len(text)) = target
  <2>1. /\ "ability" \in S
        /\ ws \in Seq(S) \ {<<>>} /\ target \in Seq(S) \ {<<>>}
    BY <1>2, <1>3, SeqMonotonic
  <2>2. text = <<"ability">> \o ws \o target
    BY DEF Plainly
  <2> HIDE DEF S, ws, text
  <2> QED  BY <2>1, <2>2, PlainWords
<1>6. Len(ws) \in Nat \ {0} /\ DOMAIN text = 1 .. Len(text) /\ DOMAIN ws = 1 .. Len(ws)
  BY <1>2, <1>5
<1> HIDE DEF S, ws, text
<1>7. span \in Spans(text, Canonical(a.id))
  <2>1. ws = Canonical(Canonical(a.id))
    BY DEF ws
  <2>2. 2 \in DOMAIN text /\ 2 + Len(ws) - 1 = 1 + Len(ws)
    BY <1>3, <1>5, <1>6
  <2>3. \A j \in DOMAIN ws : 2 + j - 1 \in DOMAIN text /\ text[2 + j - 1] = ws[j]
    <3>1. \A j \in DOMAIN ws : 2 + j - 1 = j + 1
      BY <1>6
    <3> QED  BY <1>5, <3>1
  <2> QED  BY <2>1, <2>2, <2>3 DEF Spans
<1>8. Qualified(text, span)
  <2>1. 1 \in DOMAIN text /\ 1 + 1 = span.from
    BY <1>5, <1>6, <1>3
  <2> QED  BY <1>5, <2>1 DEF Qualified
<1>9. span \in Occurrences(a, Available, scene, text)
  BY <1>4, <1>7, <1>8 DEF Occurrences
<1>10. Grounded(text, target, span)
  <2> DEFINE i == Len(ws) + 2
             j == Len(text)
  <2>1. i \in DOMAIN text /\ j \in DOMAIN text /\ i <= j /\ j < i + 8
    BY <1>3, <1>5, <1>6
  <2>2. ~Overlap([from |-> i, to |-> j], span)
    BY <1>6 DEF Overlap
  <2> QED  BY <1>5, <2>1, <2>2 DEF Grounded
<1>11. Accepts(a, Available, scene, text, output)
  BY <1>3, <1>9, <1>10 DEF Accepts, NoTarget
<1> QED  BY <1>11 DEF Understands, text

\* Whatever is in the room and whatever has been unlocked, there are words for
\* every ability that is available.
THEOREM EveryAbilityHasWords == Spec => []AvailableCanBeInvoked
<1>1. IInv => AvailableCanBeInvoked
  BY PlainlyUnderstood DEF IInv, AvailableCanBeInvoked
<1> QED  BY <1>1, SpecInvariant, PTL
=============================================================================
