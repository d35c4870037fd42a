----------------------- MODULE StoryProgressionProofs -----------------------
(***************************************************************************)
(* StoryProgression for every set of quests, signals and rewards: what a    *)
(* stored record reads as, that a completed quest has had its reward, that  *)
(* the turns implement QuestLine, and that the points are those of the      *)
(* claims.  A record is kept only if it is a reached one, whatever it was   *)
(* before; only the points, sums over the rewards, need an induction.       *)
(***************************************************************************)
EXTENDS StoryProgression, Induction, TLAPS

USE DEF Places, DefinitionsFit, RewardsFit,
        ValidateStoryDefinitions, ValidateProgressionRewardDefinitions

(* A record of the game itself is kept as it is. *)
LEMMA ReachedIsKept ==
  ASSUME NEW q \in Quest, NEW k \in 0 .. Len(Objective[q])
  PROVE  NormalizeQuestProgress(q, ReachedProgress(q, k)) = ReachedProgress(q, k)
<1> DEFINE p == ReachedProgress(q, k)
<1>1. Len(Objective[q]) \in Nat /\ (Objective[q] = <<>> <=> Len(Objective[q]) = 0)
  BY DefinitionsAssumption
<1>2. /\ p \in [status : Word, objectives : [Places(q) -> Word]]
      /\ p.status \in QuestStatus
  <2>1. p.status \in QuestStatus /\ p.status \in Word
    BY DefinitionsAssumption DEF ReachedProgress, QuestStatus
  <2>2. p.objectives \in [Places(q) -> Word]
    <3>1. \A i \in Places(q) : p.objectives[i] \in ObjectiveStatus
      BY DEF ReachedProgress, ObjectiveStatus
    <3>2. p.objectives = [i \in Places(q) |-> p.objectives[i]]
      BY DEF ReachedProgress
    <3> HIDE DEF p
    <3> QED BY <3>1, <3>2, DefinitionsAssumption
  <2>3. p = [status |-> p.status, objectives |-> p.objectives]
    BY DEF ReachedProgress
  <2> HIDE DEF p
  <2> QED BY <2>1, <2>2, <2>3
<1>3. p.status = DeriveQuestStatus(q, p.objectives)
  <2>1. CASE Objective[q] = <<>>
    BY <2>1 DEF ReachedProgress, DeriveQuestStatus
  <2>2. CASE Objective[q] # <<>>
    <3>1. ScanAccepts(q, p.objectives)
      BY <1>1 DEF ScanAccepts, ReachedProgress, ObjectiveStatus
    <3>2. CASE k = Len(Objective[q])
      BY <1>1, <2>2, <3>1, <3>2 DEF ReachedProgress, DeriveQuestStatus
    <3>3. CASE k < Len(Objective[q])
      <4>1. k + 1 \in Places(q) /\ p.objectives[k + 1] = "active"
        BY <1>1, <3>3 DEF ReachedProgress
      <4> QED BY <1>1, <2>2, <3>1, <3>3, <4>1 DEF ReachedProgress, DeriveQuestStatus
    <3> QED BY <1>1, <3>2, <3>3
  <2> QED BY <2>1, <2>2
<1> QED BY <1>2, <1>3 DEF NormalizeQuestProgress

LEMMA FreshIsReached ==
  ASSUME NEW q \in Quest
  PROVE  /\ 0 \in 0 .. Len(Objective[q])
         /\ FreshQuestProgress(q) = ReachedProgress(q, 0)
<1>1. Len(Objective[q]) \in Nat /\ (Objective[q] = <<>> <=> Len(Objective[q]) = 0)
  BY DefinitionsAssumption
<1> QED BY <1>1 DEF FreshQuestProgress, ReachedProgress

(* A kept record is a reached one: the scan forces its objectives in line. *)
LEMMA KeptIsReached ==
  ASSUME NEW q \in Quest, NEW raw,
         raw \in [status : Word, objectives : [Places(q) -> Word]],
         raw.status \in QuestStatus,
         raw.status = DeriveQuestStatus(q, raw.objectives)
  PROVE  \E k \in 0 .. Len(Objective[q]) : raw = ReachedProgress(q, k)
<1> DEFINE N == Len(Objective[q])
           o == raw.objectives
<1>1. N \in Nat /\ (Objective[q] = <<>> <=> N = 0)
  BY DefinitionsAssumption
<1>2. CASE Objective[q] = <<>>
  <2>1. raw = ReachedProgress(q, 0)
    BY <1>1, <1>2 DEF ReachedProgress, DeriveQuestStatus
  <2> QED BY <1>1, <2>1
<1>3. CASE Objective[q] # <<>>
  <2>1. ScanAccepts(q, o)
    BY <1>3 DEF DeriveQuestStatus, QuestStatus
  <2>2. CASE \A i \in Places(q) : o[i] = "completed"
    <3>1. raw.status = "completed"
      BY <1>3, <2>1, <2>2 DEF DeriveQuestStatus
    <3>2. raw = ReachedProgress(q, N)
      BY <1>1, <1>3, <2>2, <3>1 DEF ReachedProgress
    <3> QED BY <1>1, <3>2
  <2>3. CASE ~\A i \in Places(q) : o[i] = "completed"
    <3>1. raw.status = "active" /\ \E i \in Places(q) : o[i] = "active"
      BY <1>3, <2>1, <2>3 DEF DeriveQuestStatus, QuestStatus
    <3>2. PICK i \in Places(q) : o[i] = "active"
      BY <3>1
    <3>3. \A j \in 1 .. i - 1 : o[j] = "completed"
      BY <2>1, <3>2 DEF ScanAccepts
    <3>4. \A j \in Places(q) : j > i => o[j] = "locked"
      <4> SUFFICES ASSUME NEW j \in Places(q), j > i, o[j] # "locked"
                   PROVE  FALSE
        OBVIOUS
      <4>1. i \in 1 .. j - 1
        BY <1>1, <3>2
      <4>2. o[i] = "completed"
        BY <2>1, <4>1 DEF ScanAccepts
      <4> QED BY <3>2, <4>2
    <3>5. raw = ReachedProgress(q, i - 1)
      BY <1>1, <1>3, <3>1, <3>2, <3>3, <3>4 DEF ReachedProgress
    <3> QED BY <1>1, <3>2, <3>5
  <2> QED BY <2>2, <2>3
<1> QED BY <1>2, <1>3

(* Whatever is stored, a quest reads as one of the records play can reach. *)
LEMMA ReadsAsReached ==
  ASSUME NEW q \in Quest, NEW raw
  PROVE  \E k \in 0 .. Len(Objective[q]) :
           NormalizeQuestProgress(q, raw) = ReachedProgress(q, k)
BY KeptIsReached, FreshIsReached DEF NormalizeQuestProgress

(* A record no play can have stored starts its quest over. *)
LEMMA UnreachedStartsOver ==
  ASSUME NEW q \in Quest, NEW raw \in OldSave[q] \cup {Malformed}
  PROVE  NormalizeQuestProgress(q, raw) = ReachedProgress(q, 0)
<1>1. \A k \in 0 .. Len(Objective[q]) : raw # ReachedProgress(q, k)
  BY DefinitionsAssumption
<1> QED BY <1>1, KeptIsReached, FreshIsReached DEF NormalizeQuestProgress

(* Records of different lengths of play differ. *)
LEMMA ReachedIsInjective ==
  ASSUME NEW q \in Quest, NEW j \in 0 .. Len(Objective[q]),
         NEW k \in 0 .. Len(Objective[q]),
         ReachedProgress(q, j) = ReachedProgress(q, k)
  PROVE  j = k
<1>1. Len(Objective[q]) \in Nat
  BY DefinitionsAssumption
<1>2. ASSUME NEW a \in 0 .. Len(Objective[q]), NEW b \in 0 .. Len(Objective[q]), a < b
      PROVE  ReachedProgress(q, a) # ReachedProgress(q, b)
  <2>1. b \in Places(q)
    BY <1>1, <1>2
  <2>2. /\ ReachedProgress(q, b).objectives[b] = "completed"
        /\ ReachedProgress(q, a).objectives[b] # "completed"
    BY <1>1, <1>2, <2>1 DEF ReachedProgress
  <2> QED BY <2>2
<1> QED BY <1>1, <1>2
-----------------------------------------------------------------------------
(* One signal.                                                              *)

LEMMA AdvanceReached ==
  ASSUME NEW q \in Quest, NEW k \in 0 .. Len(Objective[q]) - 1
  PROVE  Advance(q, k + 1, ReachedProgress(q, k)) = ReachedProgress(q, k + 1)
<1>1. /\ Len(Objective[q]) \in Nat
      /\ Objective[q] # <<>>
      /\ k \in Nat /\ k + 1 \in Places(q)
  BY DefinitionsAssumption
<1>2. HasNext(q, k + 1) <=> k + 1 # Len(Objective[q])
  BY <1>1 DEF HasNext
<1> DEFINE next == Advance(q, k + 1, ReachedProgress(q, k)).objectives
           goal == ReachedProgress(q, k + 1).objectives
<1>3. \A j \in Places(q) : next[j] = goal[j]
  BY <1>1 DEF Advance, ReachedProgress
<1>4. next = [j \in Places(q) |-> next[j]] /\ goal = [j \in Places(q) |-> goal[j]]
  BY DEF Advance, ReachedProgress
<1>5. next = goal
  <2> HIDE DEF next, goal
  <2> QED BY <1>3, <1>4
<1> QED BY <1>1, <1>2, <1>5 DEF Advance, ReachedProgress

\* The result r says that sig passed objective k + 1 of q.
Passes(raw, sig, r, q, k) ==
  /\ NormalizeQuestProgress(q, raw[q]) = ReachedProgress(q, k)
  /\ Objective[q][k + 1] = sig
  /\ r.changed
  /\ r.quest = q
  /\ r.objective = k + 1
  /\ r.outcome = IF k + 1 = Len(Objective[q]) THEN "quest_completed"
                 ELSE "objective_advanced"
  /\ r.from = "active"
  /\ r.to = ReachedProgress(q, k + 1).status
  /\ r.story = [EnsureStoryState(raw) EXCEPT ![q] = ReachedProgress(q, k + 1)]

\* Objective k + 1 of q waits for sig.
Awaited(raw, sig, q, k) ==
  /\ NormalizeQuestProgress(q, raw[q]) = ReachedProgress(q, k)
  /\ Objective[q][k + 1] = sig

LEMMA SignalPassesOrNot ==
  ASSUME NEW sig \in Signal, NEW raw
  PROVE  LET r == ApplyStorySignal(raw, sig)
         IN \/ /\ ~r.changed /\ r.story = raw
               /\ \A q \in Quest : \A k \in 0 .. Len(Objective[q]) - 1 :
                    ~Awaited(raw, sig, q, k)
            \/ \E q \in Quest : \E k \in 0 .. Len(Objective[q]) - 1 : Passes(raw, sig, r, q, k)
<1> DEFINE r == ApplyStorySignal(raw, sig)
           st == EnsureStoryState(raw)
           Active == {m \in ObjectivesMatching(sig) : st[m[1]].objectives[m[2]] = "active"}
<1>1. CASE Active = {}
  <2>1. ~r.changed /\ r.story = raw
    BY <1>1 DEF ApplyStorySignal, Unapplied
  <2>2. ASSUME NEW q \in Quest, NEW k \in 0 .. Len(Objective[q]) - 1, Awaited(raw, sig, q, k)
        PROVE  FALSE
    <3>1. Len(Objective[q]) \in Nat /\ k + 1 \in Places(q)
      BY DefinitionsAssumption
    <3>2. st[q].objectives[k + 1] = "active"
      BY <2>2, <3>1 DEF Awaited, EnsureStoryState, ReachedProgress
    <3>3. <<q, k + 1>> \in ObjectivesMatching(sig)
      <4>1. <<q, k + 1>> \in AllObjectives
        BY <3>1 DEF AllObjectives
      <4> QED BY <2>2, <4>1 DEF Awaited, ObjectivesMatching
    <3>4. <<q, k + 1>> \in Active
      BY <3>2, <3>3
    <3> QED BY <1>1, <3>4
  <2> HIDE DEF r
  <2> QED BY <2>1, <2>2 DEF r
<1>2. CASE Active # {}
  <2>1. PICK m \in Active :
          r = [changed |-> TRUE, quest |-> m[1], objective |-> m[2],
               outcome |-> IF HasNext(m[1], m[2]) THEN "objective_advanced"
                           ELSE "quest_completed",
               from |-> st[m[1]].status,
               to |-> Advance(m[1], m[2], st[m[1]]).status,
               story |-> [st EXCEPT ![m[1]] = Advance(m[1], m[2], st[m[1]])]]
    <3> DEFINE n == CHOOSE n \in Active : TRUE
    <3>1. n \in Active
      BY <1>2
    <3> QED BY <1>2, <3>1 DEF ApplyStorySignal
  <2> DEFINE q == m[1]
             next == Advance(q, m[2], st[q])
  <2>2. /\ q \in Quest /\ m[2] \in Places(q)
        /\ Objective[q][m[2]] = sig
        /\ st[q].objectives[m[2]] = "active"
    BY <2>1 DEF ObjectivesMatching, AllObjectives
  <2>3. Len(Objective[q]) \in Nat
    BY <2>2, DefinitionsAssumption
  <2>4. PICK k \in 0 .. Len(Objective[q]) : NormalizeQuestProgress(q, raw[q]) = ReachedProgress(q, k)
    BY <2>2, ReadsAsReached
  <2>5. st[q] = ReachedProgress(q, k)
    BY <2>2, <2>4 DEF EnsureStoryState
  <2>6. m[2] = k + 1 /\ k \in 0 .. Len(Objective[q]) - 1
    BY <2>2, <2>3, <2>5 DEF ReachedProgress
  <2>7. next = ReachedProgress(q, k + 1)
    BY <2>2, <2>5, <2>6, AdvanceReached
  <2>9. st[q].status = "active"
    BY <2>2, <2>3, <2>5, <2>6, DefinitionsAssumption DEF ReachedProgress
  <2>10. HasNext(q, m[2]) <=> k + 1 # Len(Objective[q])
    BY <2>3, <2>6 DEF HasNext
  <2> HIDE DEF st, r
  <2>11. Passes(raw, sig, r, q, k)
    BY <2>2, <2>4, <2>6, <2>7, <2>1, <2>9, <2>10 DEF Passes, st
  <2> QED BY <2>2, <2>6, <2>11 DEF r
<1> QED BY <1>1, <1>2
-----------------------------------------------------------------------------
(* The reward of a passed objective.                                        *)

\* What the reward step makes of a signal that passed objective k + 1 of q:
\* nothing, unless it was the last one and q has a reward; then the reward
\* whole, or nothing because it was claimed, or a failure.
Pays(pl, w, q, k) ==
  IF k + 1 # Len(Objective[q]) \/ RewardsOf(q) = {}
  THEN w = [outcome |-> "not_applicable", player |-> pl]
  ELSE IF Claimable(pl, RewardFor(q).id)
  THEN w = [outcome |-> "applied", player |-> Rewarded(pl, RewardFor(q))]
  ELSE w = [outcome |-> IF pl.claims = Malformed THEN "failed" ELSE "already_claimed",
            player |-> pl]

LEMMA PassedIsPaid ==
  ASSUME NEW raw, NEW sig, NEW r, NEW pl, NEW q \in Quest,
         NEW k \in 0 .. Len(Objective[q]) - 1, Passes(raw, sig, r, q, k)
  PROVE  Pays(pl, ApplyQuestCompletionRewards(pl, r), q, k)
<1>1. Len(Objective[q]) \in Nat /\ k + 1 \in 0 .. Len(Objective[q]) /\ Objective[q] # <<>>
  BY DefinitionsAssumption
<1>2. r.changed /\ r.quest = q
  BY DEF Passes
<1>3. CASE k + 1 # Len(Objective[q])
  <2>1. r.outcome # "quest_completed"
    BY <1>3 DEF Passes
  <2> QED BY <1>3, <2>1 DEF ApplyQuestCompletionRewards, Pays
<1>4. CASE k + 1 = Len(Objective[q])
  <2>1. /\ r.outcome = "quest_completed"
        /\ r.objective = Len(Objective[q])
        /\ r.from = "active"
        /\ r.to = "completed"
    BY <1>1, <1>4 DEF Passes, ReachedProgress
  <2>2. EnsureStoryState(r.story)[q] = ReachedProgress(q, k + 1)
    <3>1. r.story[q] = ReachedProgress(q, k + 1)
      BY DEF Passes, EnsureStoryState
    <3> QED BY <1>1, <3>1, ReachedIsKept DEF EnsureStoryState
  <2>3. ProvesCompletion(r)
    <3>1. Len(Objective[q]) \in Places(q)
      BY <1>1, <1>4
    <3> QED BY <1>1, <1>2, <1>4, <2>1, <2>2, <3>1 DEF ProvesCompletion, ReachedProgress
  <2> QED BY <1>2, <1>4, <2>1, <2>3 DEF ApplyQuestCompletionRewards, Pays
<1> QED BY <1>3, <1>4

LEMMA FirstReward ==
  ASSUME NEW q \in Quest, RewardsOf(q) # {}
  PROVE  \E i \in RewardsOf(q) : RewardFor(q) = Reward[i]
<1> DEFINE First(i) == \A j \in RewardsOf(q) : i <= j
           R == OpToRel(<, Nat)
<1>1. RewardsOf(q) \subseteq Nat
  BY RewardAssumption DEF RewardsOf
<1>2. PICK i \in RewardsOf(q) : \A j \in RewardsOf(q) : ~ (<<j, i>> \in R)
  <2> HIDE DEF R
  <2>1. IsWellFoundedOn(R, Nat)
    BY NatLessThanWellFounded DEF R
  <2> QED BY <1>1, <2>1, WFMin
<1>3. R = {ss \in Nat \X Nat : ss[1] < ss[2]}
  BY DEF OpToRel
<1>4. First(i)
  <2> SUFFICES ASSUME NEW j \in RewardsOf(q)
               PROVE  i <= j
    OBVIOUS
  <2>1. i \in Nat /\ j \in Nat
    BY <1>1
  <2>2. j < i => <<j, i>> \in {ss \in Nat \X Nat : ss[1] < ss[2]}
    BY <2>1
  <2>3. <<j, i>> \notin R
    BY <1>2
  <2> HIDE DEF R
  <2> QED BY <1>3, <2>1, <2>2, <2>3
<1>5. (CHOOSE n \in RewardsOf(q) : First(n)) \in RewardsOf(q)
  BY <1>4
<1> QED BY <1>5 DEF RewardFor

LEMMA RewardFacts ==
  ASSUME NEW q \in Quest, RewardsOf(q) # {}
  PROVE  /\ RewardFor(q).id \in RewardIds
         /\ RewardFor(q).grants \in [Track -> 0 .. MaxTrackPoints]
         /\ RewardFor(q).unlocks \subseteq Ability
<1>1. PICK i \in DOMAIN Reward : RewardFor(q) = Reward[i]
  BY FirstReward DEF RewardsOf
<1> DEFINE Definition == [id : STRING, quest : Quest,
                          grants : [Track -> 0 .. MaxTrackPoints], unlocks : SUBSET Ability]
<1>2. Reward[i] \in Definition
  <2>1. Reward \in Seq(Definition)
    BY RewardAssumption
  <2> HIDE DEF Definition
  <2> QED BY <2>1
<1> QED BY <1>1, <1>2 DEF RewardIds

(* Two quests never share a reward. *)
LEMMA RewardsDiffer ==
  ASSUME NEW q \in Quest, NEW x \in Quest, RewardsOf(q) # {}, RewardsOf(x) # {},
         RewardFor(q).id = RewardFor(x).id
  PROVE  q = x
<1>1. PICK i \in RewardsOf(q) : RewardFor(q) = Reward[i]
  BY FirstReward
<1>2. PICK j \in RewardsOf(x) : RewardFor(x) = Reward[j]
  BY FirstReward
<1>3. i = j
  BY <1>1, <1>2, RewardAssumption DEF RewardsOf
<1> QED BY <1>3 DEF RewardsOf
-----------------------------------------------------------------------------
(* The invariant: what is stored fits its types and a completed quest has   *)
(* had its reward.                                                          *)

IInv == TypeOK /\ CompletedIsRewarded

\* What a turn that changes something does, in the terms of QuestLine.
Progresses(sig, q, k) ==
  /\ Readable[q] = ReachedProgress(q, k)
  /\ Objective[q][k + 1] = sig
  /\ story' = [Readable EXCEPT ![q] = ReachedProgress(q, k + 1)]
  /\ IF k + 1 = Len(Objective[q]) /\ RewardsOf(q) # {}
     THEN /\ player.claims # Malformed
          /\ player' = IF RewardFor(q).id \in player.claims THEN player
                       ELSE Rewarded(player, RewardFor(q))
     ELSE player' = player

\* What a turn that changes nothing means: no objective waits for its
\* signal, or the last one of a quest whose reward cannot be claimed.
Ignores(sig) ==
  /\ UNCHANGED <<story, player>>
  /\ \A q \in Quest : \A k \in 0 .. Len(Objective[q]) - 1 :
       Awaited(story, sig, q, k) => /\ k + 1 = Len(Objective[q])
                                    /\ RewardsOf(q) # {}
                                    /\ player.claims = Malformed

LEMMA TurnProgresses ==
  ASSUME NEW sig \in Signal, Turn(sig)
  PROVE  /\ reported' = sig
         /\ \/ Ignores(sig)
            \/ \E q \in Quest : \E k \in 0 .. Len(Objective[q]) - 1 : Progresses(sig, q, k)
<1> DEFINE r == ApplyStorySignal(story, sig)
           w == ApplyQuestCompletionRewards(player, r)
<1>0. reported' = sig
  BY DEF Turn
<1>1. ASSUME NEW q \in Quest, NEW k \in 0 .. Len(Objective[q]) - 1,
             Passes(story, sig, r, q, k), Refuses(w)
      PROVE  Ignores(sig)
  <2>1. Pays(player, w, q, k)
    BY <1>1, PassedIsPaid
  <2>2. UNCHANGED <<story, player>>
    BY <1>1 DEF Turn
  <2> HIDE DEF w
  <2>3. k + 1 = Len(Objective[q]) /\ RewardsOf(q) # {} /\ player.claims = Malformed
    BY <1>1, <2>1 DEF Pays, Refuses
  <2>4. ASSUME NEW x \in Quest, NEW j \in 0 .. Len(Objective[x]) - 1, Awaited(story, sig, x, j)
        PROVE  x = q /\ j = k
    <3>1. Len(Objective[q]) \in Nat /\ Len(Objective[x]) \in Nat
      BY DefinitionsAssumption
    <3>2. <<q, k + 1>> \in AllObjectives /\ <<x, j + 1>> \in AllObjectives
      BY <3>1 DEF AllObjectives
    <3>3. Objective[q][k + 1] = Objective[x][j + 1]
      BY <1>1, <2>4 DEF Passes, Awaited
    <3>4. <<q, k + 1>> = <<x, j + 1>>
      BY <3>2, <3>3, DefinitionsAssumption
    <3> QED BY <3>1, <3>4
  <2> QED BY <2>2, <2>3, <2>4 DEF Ignores
<1>2. CASE /\ ~r.changed /\ r.story = story
           /\ \A q \in Quest : \A k \in 0 .. Len(Objective[q]) - 1 : ~Awaited(story, sig, q, k)
  <2>1. w = [outcome |-> "not_applicable", player |-> player]
    BY <1>2 DEF ApplyQuestCompletionRewards
  <2>2. ~Refuses(w)
    BY <2>1 DEF Refuses
  <2>3. story' = r.story /\ player' = w.player
    BY <2>2 DEF Turn
  <2> HIDE DEF r, w
  <2>4. Ignores(sig)
    BY <1>2, <2>1, <2>3 DEF Ignores
  <2> QED BY <1>0, <2>4
<1>3. ASSUME NEW q \in Quest, NEW k \in 0 .. Len(Objective[q]) - 1,
             Passes(story, sig, r, q, k), ~Refuses(w)
      PROVE  Progresses(sig, q, k)
  <2>1. Pays(player, w, q, k)
    BY <1>3, PassedIsPaid
  <2>2. story' = r.story /\ player' = w.player
    BY <1>3 DEF Turn
  <2>3. /\ Readable[q] = ReachedProgress(q, k)
        /\ Objective[q][k + 1] = sig
        /\ story' = [Readable EXCEPT ![q] = ReachedProgress(q, k + 1)]
    BY <1>3, <2>2 DEF Passes, Readable, EnsureStoryState
  <2> HIDE DEF r, w
  <2>4. CASE k + 1 = Len(Objective[q]) /\ RewardsOf(q) # {}
    BY <1>3, <2>1, <2>2, <2>3, <2>4 DEF Pays, Progresses, Refuses, Claimable
  <2>5. CASE ~(k + 1 = Len(Objective[q]) /\ RewardsOf(q) # {})
    BY <2>1, <2>2, <2>3, <2>5 DEF Pays, Progresses
  <2> QED BY <2>4, <2>5
<1> HIDE DEF w
<1>4. \/ /\ ~r.changed /\ r.story = story
         /\ \A q \in Quest : \A k \in 0 .. Len(Objective[q]) - 1 : ~Awaited(story, sig, q, k)
      \/ \E q \in Quest : \E k \in 0 .. Len(Objective[q]) - 1 : Passes(story, sig, r, q, k)
  BY SignalPassesOrNot
<1> HIDE DEF r
<1> QED BY <1>0, <1>1, <1>2, <1>3, <1>4

(* After such a turn every other quest reads as it did, and q one further. *)
LEMMA ReadsAfterTurn ==
  ASSUME NEW q \in Quest, NEW k \in 0 .. Len(Objective[q]) - 1, NEW sig,
         Progresses(sig, q, k)
  PROVE  Readable' = [Readable EXCEPT ![q] = ReachedProgress(q, k + 1)]
<1>1. Len(Objective[q]) \in Nat /\ k + 1 \in 0 .. Len(Objective[q])
  BY DefinitionsAssumption
<1>2. ASSUME NEW x \in Quest, x # q
      PROVE  NormalizeQuestProgress(x, story'[x]) = Readable[x]
  <2>1. story'[x] = Readable[x]
    BY <1>2 DEF Progresses, Readable, EnsureStoryState
  <2>2. \E j \in 0 .. Len(Objective[x]) : Readable[x] = ReachedProgress(x, j)
    BY ReadsAsReached DEF Readable, EnsureStoryState
  <2> QED BY <2>1, <2>2, ReachedIsKept
<1>3. NormalizeQuestProgress(q, story'[q]) = ReachedProgress(q, k + 1)
  <2>1. story'[q] = ReachedProgress(q, k + 1)
    BY DEF Progresses, Readable, EnsureStoryState
  <2> QED BY <1>1, <2>1, ReachedIsKept
<1>4. Readable' = [x \in Quest |-> NormalizeQuestProgress(x, story'[x])]
  BY DEF Readable, EnsureStoryState
<1>5. Readable = [x \in Quest |-> Readable[x]]
  BY DEF Readable, EnsureStoryState
<1> QED BY <1>2, <1>3, <1>4, <1>5

LEMMA ReadsAfterOutdate ==
  ASSUME NEW q \in Quest, TypeOK, Outdate(q)
  PROVE  Readable' = [Readable EXCEPT ![q] = ReachedProgress(q, 0)]
<1>1. PICK raw \in OldSave[q] : story' = [story EXCEPT ![q] = raw]
  BY DEF Outdate
<1>2. story \in [Quest -> UNION {StoredProgress(x) : x \in Quest}]
  BY DEF TypeOK
<1>3. NormalizeQuestProgress(q, story'[q]) = ReachedProgress(q, 0)
  BY <1>1, <1>2, UnreachedStartsOver
<1>4. \A x \in Quest : x # q => story'[x] = story[x]
  BY <1>1, <1>2
<1> QED BY <1>3, <1>4 DEF Readable, EnsureStoryState
-----------------------------------------------------------------------------
(* The invariant holds at first and after every step.                       *)

LEMMA IdsAreNoMalformed ==
  \A ids \in SUBSET RewardIds : ids # Malformed
BY RewardAssumption DEF RewardIds

\* The initial records all read as quests not begun.
LEMMA InitReads ==
  ASSUME Init, NEW q \in Quest
  PROVE  Readable[q] = ReachedProgress(q, 0)
BY UnreachedStartsOver DEF Init, Readable, EnsureStoryState

LEMMA UnbegunIsNotCompleted ==
  ASSUME NEW q \in Quest
  PROVE  ReachedProgress(q, 0).status # "completed"
<1>1. Len(Objective[q]) \in Nat /\ (Objective[q] = <<>> <=> Len(Objective[q]) = 0)
  BY DefinitionsAssumption
<1> QED BY <1>1 DEF ReachedProgress

LEMMA InitInvariant == Init => IInv
<1> SUFFICES ASSUME Init PROVE IInv
  OBVIOUS
<1>1. story \in [Quest -> UNION {StoredProgress(q) : q \in Quest}]
      /\ \A q \in Quest : story[q] \in StoredProgress(q)
  BY DEF Init, StoredProgress
<1>2. player \in [claims : {Malformed} \cup SUBSET RewardIds,
                  tracks : [Track -> 0 .. MaxTrackPoints], unlocked : SUBSET Ability]
  <2>1. [t \in Track |-> 0] \in [Track -> 0 .. MaxTrackPoints]
    BY RewardAssumption
  <2> QED BY <2>1 DEF Init, NewPlayer
<1>3. CompletedIsRewarded
  BY InitReads, UnbegunIsNotCompleted DEF CompletedIsRewarded
<1>4. reported \in Signal \cup {NoSignal}
  BY DEF Init
<1> QED BY <1>1, <1>2, <1>3, <1>4 DEF IInv, TypeOK

\* A turn adds at most a claim of an authored reward.
LEMMA PlayerAfterTurn ==
  ASSUME TypeOK, NEW sig \in Signal, NEW q \in Quest,
         NEW k \in 0 .. Len(Objective[q]) - 1, Progresses(sig, q, k)
  PROVE  /\ player' \in [claims : {Malformed} \cup SUBSET RewardIds,
                         tracks : [Track -> 0 .. MaxTrackPoints],
                         unlocked : SUBSET Ability]
         /\ ClaimedIds' = IF k + 1 = Len(Objective[q]) /\ RewardsOf(q) # {}
                          THEN ClaimedIds \cup {RewardFor(q).id} ELSE ClaimedIds
<1> DEFINE Player == [claims : {Malformed} \cup SUBSET RewardIds,
                      tracks : [Track -> 0 .. MaxTrackPoints],
                      unlocked : SUBSET Ability]
<1>1. player \in Player
  BY DEF TypeOK
<1>2. CASE ~(k + 1 = Len(Objective[q]) /\ RewardsOf(q) # {})
  <2>1. player' = player
    BY <1>2 DEF Progresses
  <2> QED BY <1>1, <1>2, <2>1 DEF ClaimedIds
<1>3. CASE k + 1 = Len(Objective[q]) /\ RewardsOf(q) # {}
  <2> DEFINE reward == RewardFor(q)
  <2>1. /\ reward.id \in RewardIds
        /\ reward.grants \in [Track -> 0 .. MaxTrackPoints]
        /\ reward.unlocks \subseteq Ability
    BY <1>3, RewardFacts
  <2>2. player.claims \in SUBSET RewardIds /\ ClaimedIds = player.claims
    BY <1>1, <1>3 DEF Progresses, ClaimedIds
  <2>3. CASE reward.id \in player.claims
    <3>1. player' = player
      BY <1>3, <2>3 DEF Progresses
    <3> QED BY <1>1, <1>3, <2>2, <2>3, <3>1 DEF ClaimedIds
  <2>4. CASE reward.id \notin player.claims
    <3>1. player' = Rewarded(player, reward)
      BY <1>3, <2>4 DEF Progresses
    <3>2. GrantProgress(player.tracks, reward.grants) \in [Track -> 0 .. MaxTrackPoints]
      <4>1. player.tracks \in [Track -> 0 .. MaxTrackPoints]
        BY <1>1
      <4> HIDE DEF reward
      <4> QED BY <2>1, <4>1, RewardAssumption DEF GrantProgress, Lesser
    <3>3. player.claims \cup {reward.id} \in SUBSET RewardIds
      BY <2>1, <2>2
    <3>4. player'.claims = player.claims \cup {reward.id}
      BY <3>1 DEF Rewarded
    <3>5. player' \in Player
      <4>1. player.unlocked \cup reward.unlocks \in SUBSET Ability
        BY <1>1, <2>1
      <4> HIDE DEF reward
      <4> QED BY <3>1, <3>2, <3>3, <4>1 DEF Rewarded
    <3>6. ClaimedIds' = player.claims \cup {reward.id}
      BY <3>3, <3>4, IdsAreNoMalformed DEF ClaimedIds
    <3> QED BY <1>3, <2>2, <3>5, <3>6
  <2> QED BY <2>3, <2>4
<1> QED BY <1>2, <1>3

LEMMA StoryAfterTurn ==
  ASSUME TypeOK, NEW sig \in Signal, NEW q \in Quest,
         NEW k \in 0 .. Len(Objective[q]) - 1, Progresses(sig, q, k)
  PROVE  /\ story' \in [Quest -> UNION {StoredProgress(x) : x \in Quest}]
         /\ \A x \in Quest : story'[x] \in StoredProgress(x)
<1>1. Len(Objective[q]) \in Nat /\ k + 1 \in 0 .. Len(Objective[q])
  BY DefinitionsAssumption
<1>2. Readable = [x \in Quest |-> Readable[x]]
  BY DEF Readable, EnsureStoryState
<1>3. \A x \in Quest : Readable[x] \in StoredProgress(x)
  BY ReadsAsReached DEF Readable, EnsureStoryState, StoredProgress
<1>4. ReachedProgress(q, k + 1) \in StoredProgress(q)
  BY <1>1 DEF StoredProgress
<1>5. story' = [Readable EXCEPT ![q] = ReachedProgress(q, k + 1)]
  BY DEF Progresses
<1>6. \A x \in Quest : story'[x] \in StoredProgress(x)
  <2> HIDE DEF StoredProgress
  <2> QED BY <1>2, <1>3, <1>4, <1>5
<1>7. story' = [x \in Quest |-> story'[x]]
  BY <1>2, <1>5
<1> QED BY <1>6, <1>7

LEMMA TurnInvariant ==
  ASSUME IInv, NEW sig \in Signal, Turn(sig)
  PROVE  IInv'
<1>0. reported' = sig
  BY DEF Turn
<1>1. CASE Ignores(sig)
  BY <1>0, <1>1 DEF Ignores, IInv, TypeOK, CompletedIsRewarded, Readable, ClaimedIds
<1>2. ASSUME NEW q \in Quest, NEW k \in 0 .. Len(Objective[q]) - 1, Progresses(sig, q, k)
      PROVE  IInv'
  <2>1. TypeOK'
    BY <1>0, <1>2, StoryAfterTurn, PlayerAfterTurn DEF IInv, TypeOK
  <2>2. CompletedIsRewarded'
    <3> SUFFICES ASSUME NEW x \in Quest, Readable'[x].status = "completed", RewardsOf(x) # {}
                 PROVE  RewardFor(x).id \in ClaimedIds'
      BY DEF CompletedIsRewarded
    <3>1. Readable' = [Readable EXCEPT ![q] = ReachedProgress(q, k + 1)]
      BY <1>2, ReadsAfterTurn
    <3>2. ClaimedIds' = IF k + 1 = Len(Objective[q]) /\ RewardsOf(q) # {}
                        THEN ClaimedIds \cup {RewardFor(q).id} ELSE ClaimedIds
      BY <1>2, PlayerAfterTurn DEF IInv
    <3>3. CASE x # q
      <4>1. Readable'[x] = Readable[x]
        BY <3>1, <3>3 DEF Readable, EnsureStoryState
      <4> QED BY <3>2, <4>1 DEF IInv, CompletedIsRewarded
    <3>4. CASE x = q
      <4>1. Readable'[q] = ReachedProgress(q, k + 1)
        BY <3>1 DEF Readable, EnsureStoryState
      <4>2. k + 1 = Len(Objective[q])
        BY <3>4, <4>1 DEF ReachedProgress
      <4> QED BY <3>2, <3>4, <4>2
    <3> QED BY <3>3, <3>4
  <2> QED BY <2>1, <2>2 DEF IInv
<1> QED BY <1>1, <1>2, TurnProgresses

LEMMA OutdateInvariant ==
  ASSUME IInv, NEW q \in Quest, Outdate(q)
  PROVE  IInv'
<1>1. PICK raw \in OldSave[q] : story' = [story EXCEPT ![q] = raw]
  BY DEF Outdate
<1>2. player' = player /\ ClaimedIds' = ClaimedIds /\ reported' = NoSignal
  BY DEF Outdate, ClaimedIds
<1>3. /\ story' \in [Quest -> UNION {StoredProgress(x) : x \in Quest}]
      /\ \A x \in Quest : story'[x] \in StoredProgress(x)
  <2>1. raw \in StoredProgress(q)
    BY DEF StoredProgress
  <2> HIDE DEF StoredProgress
  <2> QED BY <1>1, <2>1 DEF IInv, TypeOK
<1>4. CompletedIsRewarded'
  <2>1. Readable' = [Readable EXCEPT ![q] = ReachedProgress(q, 0)]
    BY ReadsAfterOutdate DEF IInv
  <2>2. \A x \in Quest : Readable'[x] = IF x = q THEN ReachedProgress(q, 0) ELSE Readable[x]
    BY <2>1 DEF Readable, EnsureStoryState
  <2> QED BY <1>2, <2>2, UnbegunIsNotCompleted DEF IInv, CompletedIsRewarded
<1> QED BY <1>2, <1>3, <1>4 DEF IInv, TypeOK

LEMMA Invariance == IInv /\ [Next]_vars => IInv'
<1>1. IInv /\ UNCHANGED vars => IInv'
  BY DEF IInv, TypeOK, CompletedIsRewarded, Readable, ClaimedIds, vars
<1> QED BY <1>1, TurnInvariant, OutdateInvariant DEF Next

LEMMA SpecInvariant == Spec => []IInv
BY InitInvariant, Invariance, PTL DEF Spec

(* Whatever is stored and whatever is reported, the stored records stay     *)
(* reached ones or unreadable ones, and points stay within the cap          *)
(* (grant_progress clips at MAX_TRACK_POINTS).                              *)
THEOREM TypeCorrect == Spec => []TypeOK
<1>1. IInv => TypeOK
  BY DEF IInv
<1> QED BY <1>1, SpecInvariant, PTL

(* A quest that reads as completed has had its reward: no record that is     *)
(* unreadable or does not fit the definitions reads as a completion          *)
(* (ensure_story_state), and no turn stores a completion without its reward  *)
(* (apply_quest_completion_rewards and the roll-back in handle_chat).        *)
THEOREM CompletedQuestsAreRewarded == Spec => []CompletedIsRewarded
<1>1. IInv => CompletedIsRewarded
  BY DEF IInv
<1> QED BY <1>1, SpecInvariant, PTL
-----------------------------------------------------------------------------
(* What a step keeps of the player.                                         *)

\* NothingTakenBack for one step.
PlayerKept ==
  /\ player.claims # Malformed => player.claims \subseteq player'.claims
  /\ \A t \in Track : player.tracks[t] <= player'.tracks[t]
  /\ player.unlocked \subseteq player'.unlocked
  /\ player' # player => player'.claims # player.claims

LEMMA UnchangedIsKept ==
  ASSUME TypeOK, player' = player
  PROVE  PlayerKept
<1>1. player.tracks \in [Track -> 0 .. MaxTrackPoints]
  BY DEF TypeOK
<1>2. \A t \in Track : player.tracks[t] <= player.tracks[t]
  BY <1>1, RewardAssumption
<1> QED BY <1>2 DEF PlayerKept

LEMMA RewardedIsKept ==
  ASSUME TypeOK, NEW q \in Quest, RewardsOf(q) # {}, player.claims # Malformed,
         RewardFor(q).id \notin player.claims, player' = Rewarded(player, RewardFor(q))
  PROVE  PlayerKept
<1> DEFINE reward == RewardFor(q)
<1>1. player.tracks \in [Track -> 0 .. MaxTrackPoints]
  BY DEF TypeOK
<1>2. reward.grants \in [Track -> 0 .. MaxTrackPoints]
  BY RewardFacts
<1>3. /\ player'.claims = player.claims \cup {reward.id}
      /\ player'.tracks = GrantProgress(player.tracks, reward.grants)
      /\ player'.unlocked = player.unlocked \cup reward.unlocks
  BY DEF Rewarded
<1>4. ASSUME NEW t \in Track
      PROVE  player.tracks[t] <= player'.tracks[t]
  <2>1. player'.tracks[t] = Lesser(player.tracks[t] + reward.grants[t], MaxTrackPoints)
    BY <1>3 DEF GrantProgress
  <2> HIDE DEF reward
  <2> QED BY <1>1, <1>2, <2>1, RewardAssumption DEF Lesser
<1>5. player'.claims # player.claims
  BY <1>3
<1> QED BY <1>3, <1>4, <1>5 DEF PlayerKept

LEMMA StepKeeps == IInv /\ [Next]_vars => [PlayerKept]_vars
<1> SUFFICES ASSUME IInv, Next PROVE PlayerKept \/ UNCHANGED vars
  OBVIOUS
<1>1. TypeOK
  BY DEF IInv
<1>2. ASSUME NEW q \in Quest, Outdate(q) PROVE PlayerKept
  BY <1>1, <1>2, UnchangedIsKept DEF Outdate
<1>3. ASSUME NEW sig \in Signal, NEW q \in Quest,
             NEW k \in 0 .. Len(Objective[q]) - 1, Progresses(sig, q, k)
      PROVE  PlayerKept
  <2>1. CASE player' = player
    BY <1>1, <2>1, UnchangedIsKept
  <2>2. CASE player' # player
    <3>1. /\ RewardsOf(q) # {} /\ player.claims # Malformed
          /\ RewardFor(q).id \notin player.claims
          /\ player' = Rewarded(player, RewardFor(q))
      BY <1>3, <2>2 DEF Progresses
    <3> QED BY <1>1, <3>1, RewardedIsKept
  <2> QED BY <2>1, <2>2
<1>4. ASSUME NEW sig \in Signal, Ignores(sig) PROVE PlayerKept
  BY <1>1, <1>4, UnchangedIsKept DEF Ignores
<1> QED BY <1>2, <1>3, <1>4, TurnProgresses DEF Next

(* Claims, points and abilities are never taken back, and points or         *)
(* abilities only come with a new claim                                     *)
(* (apply_quest_completion_rewards, grant_progress).                        *)
THEOREM RewardsAreKept == Spec => NothingTakenBack
<1>1. IInv /\ [Next]_vars =>
        [/\ player.claims # Malformed => player.claims \subseteq player'.claims
         /\ \A t \in Track : player.tracks[t] <= player'.tracks[t]
         /\ player.unlocked \subseteq player'.unlocked
         /\ player' # player => player'.claims # player.claims]_vars
  BY StepKeeps DEF PlayerKept
<1> QED BY <1>1, SpecInvariant, PTL DEF Spec, NothingTakenBack
-----------------------------------------------------------------------------
(* Points are those of the claimed rewards.                                 *)

\* What the n-th authored reward adds to track t.
Part(ids, t) == [n \in 1 .. Len(Reward) |->
                   IF Reward[n].id \in ids THEN Reward[n].grants[t] ELSE 0]

LEMMA RewardTypes ==
  /\ Len(Reward) \in Nat /\ DOMAIN Reward = 1 .. Len(Reward)
  /\ \A n \in 1 .. Len(Reward) : /\ Reward[n].grants \in [Track -> 0 .. MaxTrackPoints]
                                /\ Reward[n].unlocks \subseteq Ability
<1> DEFINE Definition == [id : STRING, quest : Quest,
                          grants : [Track -> 0 .. MaxTrackPoints], unlocks : SUBSET Ability]
<1>1. Reward \in Seq(Definition)
  BY RewardAssumption
<1> HIDE DEF Definition
<1>2. Len(Reward) \in Nat /\ DOMAIN Reward = 1 .. Len(Reward)
      /\ \A n \in 1 .. Len(Reward) : Reward[n] \in Definition
  BY <1>1
<1> QED BY <1>2 DEF Definition

\* The recursion of GrantedBy has its function, which sums the parts.
LEMMA GrantedBySums ==
  ASSUME NEW ids, NEW t \in Track
  PROVE  \E f \in [0 .. Len(Reward) -> Nat] :
           /\ GrantedBy(ids, t) = f[Len(Reward)]
           /\ f[0] = 0
           /\ \A n \in 1 .. Len(Reward) : f[n] = f[n - 1] + Part(ids, t)[n]
<1> DEFINE N == Len(Reward)
           Sums(f) == [n \in 0 .. N |->
                         IF n = 0 THEN 0
                         ELSE f[n - 1] + IF Reward[n].id \in ids
                                         THEN Reward[n].grants[t] ELSE 0]
           sum == CHOOSE f : f = Sums(f)
<1>1. N \in Nat /\ Part(ids, t) \in [1 .. N -> Nat]
  BY RewardTypes, RewardAssumption DEF Part
<1>2. PICK f \in [0 .. N -> Nat] :
        f = [n \in 0 .. N |-> IF n = 0 THEN 0 ELSE f[n - 1] + Part(ids, t)[n]]
  <2> HIDE DEF N
  <2> QED BY <1>1, PrefixSums
<1>3. f = Sums(f)
  <2>1. \A n \in 0 .. N : f[n] = Sums(f)[n]
    <3> SUFFICES ASSUME NEW n \in 0 .. N PROVE f[n] = Sums(f)[n]
      OBVIOUS
    <3>1. n # 0 => n \in 1 .. N
      BY <1>1
    <3>2. f[n] = IF n = 0 THEN 0 ELSE f[n - 1] + Part(ids, t)[n]
      BY <1>2
    <3> QED BY <3>1, <3>2 DEF Part
  <2>2. f = [n \in 0 .. N |-> f[n]] /\ Sums(f) = [n \in 0 .. N |-> Sums(f)[n]]
    OBVIOUS
  <2> HIDE DEF Sums
  <2> QED BY <2>1, <2>2
<1>4. sum = Sums(sum)
  <2> HIDE DEF Sums
  <2> QED BY <1>3
<1>5. ASSUME NEW n \in 1 .. N PROVE sum[n] = sum[n - 1] + Part(ids, t)[n]
  <2> HIDE DEF sum
  <2> QED BY <1>1, <1>4 DEF Part
<1>6. sum[0] = 0 /\ sum = [n \in 0 .. N |-> sum[n]]
  <2> HIDE DEF sum
  <2> QED BY <1>1, <1>4
<1>7. GrantedBy(ids, t) = sum[N]
  BY DEF GrantedBy
<1> HIDE DEF sum
<1> DEFINE Summed == {n \in Nat : sum[n] \in Nat}
<1>8. 0 .. N \subseteq Summed
  <2>1. ASSUME NEW n \in 0 .. N - 1, n \in Summed PROVE n + 1 \in Summed
    <3>1. n + 1 \in 1 .. N /\ (n + 1) - 1 = n
      BY <1>1
    <3>2. sum[n + 1] = sum[n] + Part(ids, t)[n + 1]
      BY <1>5, <3>1
    <3> QED BY <1>1, <2>1, <3>1, <3>2
  <2>2. 0 \in Summed
    BY <1>6
  <2> HIDE DEF Summed, N
  <2> QED BY <1>1, <2>1, <2>2, IntervalInduction
<1>9. sum \in [0 .. N -> Nat]
  BY <1>6, <1>8
<1> QED BY <1>5, <1>6, <1>7, <1>9

\* No claims, no points; and with a claim what its reward grants is added.
LEMMA GrantedByNone ==
  ASSUME NEW t \in Track
  PROVE  GrantedBy({}, t) = 0
<1>1. PICK f \in [0 .. Len(Reward) -> Nat] :
        /\ GrantedBy({}, t) = f[Len(Reward)]
        /\ f[0] = 0
        /\ \A n \in 1 .. Len(Reward) : f[n] = f[n - 1] + Part({}, t)[n]
  BY GrantedBySums
<1>2. Len(Reward) \in Nat
  BY RewardTypes
<1> DEFINE Zero == {n \in Nat : f[n] = 0}
<1>3. ASSUME NEW n \in 0 .. Len(Reward) - 1, n \in Zero PROVE n + 1 \in Zero
  <2>1. n + 1 \in 1 .. Len(Reward) /\ (n + 1) - 1 = n
    BY <1>2
  <2>2. Part({}, t)[n + 1] = 0
    BY <2>1 DEF Part
  <2> QED BY <1>1, <1>3, <2>1, <2>2
<1>4. 0 .. Len(Reward) \subseteq Zero
  <2>1. 0 \in Zero
    BY <1>1
  <2> HIDE DEF Zero
  <2> QED BY <1>2, <1>3, <2>1, IntervalInduction
<1> QED BY <1>1, <1>2, <1>4

LEMMA GrantedByMore ==
  ASSUME NEW ids, NEW t \in Track, NEW i \in 1 .. Len(Reward), Reward[i].id \notin ids
  PROVE  /\ GrantedBy(ids, t) \in Nat
         /\ GrantedBy(ids \cup {Reward[i].id}, t) = GrantedBy(ids, t) + Reward[i].grants[t]
<1> DEFINE N == Len(Reward)
           more == ids \cup {Reward[i].id}
           grant == Reward[i].grants[t]
<1>1. N \in Nat /\ grant \in Nat
  BY RewardTypes, RewardAssumption
<1>2. PICK f \in [0 .. N -> Nat] :
        /\ GrantedBy(ids, t) = f[N]
        /\ f[0] = 0
        /\ \A n \in 1 .. N : f[n] = f[n - 1] + Part(ids, t)[n]
  BY GrantedBySums
<1>3. PICK g \in [0 .. N -> Nat] :
        /\ GrantedBy(more, t) = g[N]
        /\ g[0] = 0
        /\ \A n \in 1 .. N : g[n] = g[n - 1] + Part(more, t)[n]
  BY GrantedBySums
<1>4. \A n \in 1 .. N : Part(more, t)[n] = IF n = i THEN grant ELSE Part(ids, t)[n]
  <2>1. \A n \in 1 .. N : Reward[n].id = Reward[i].id => n = i
    BY RewardTypes, RewardAssumption
  <2> QED BY <2>1 DEF Part
<1>5. Part(ids, t) \in [1 .. N -> Nat] /\ Part(ids, t)[i] = 0
  BY RewardTypes, RewardAssumption DEF Part
<1> HIDE DEF grant, more, N
<1> DEFINE Ahead == {n \in Nat : g[n] = f[n] + IF n >= i THEN grant ELSE 0}
<1>6. ASSUME NEW n \in 0 .. N - 1, n \in Ahead PROVE n + 1 \in Ahead
  <2>1. n + 1 \in 1 .. N /\ (n + 1) - 1 = n /\ n \in 0 .. N /\ i \in Nat
    BY <1>1 DEF N
  <2>2. f[n + 1] = f[n] + Part(ids, t)[n + 1] /\ g[n + 1] = g[n] + Part(more, t)[n + 1]
    BY <1>2, <1>3, <2>1
  <2>3. f[n] \in Nat /\ g[n] \in Nat /\ Part(ids, t)[n + 1] \in Nat
    BY <1>5, <2>1
  <2>4. g[n] = f[n] + IF n >= i THEN grant ELSE 0
    BY <1>6
  <2>5. CASE n + 1 = i
    <3>1. Part(ids, t)[n + 1] = 0 /\ Part(more, t)[n + 1] = grant /\ ~(n >= i)
      BY <1>4, <1>5, <2>1, <2>5
    <3>2. g[n + 1] = f[n + 1] + grant /\ n + 1 >= i /\ n + 1 \in Nat
      BY <1>1, <2>1, <2>2, <2>3, <2>4, <2>5, <3>1
    <3> QED BY <3>2
  <2>6. CASE n + 1 # i
    <3>1. Part(more, t)[n + 1] = Part(ids, t)[n + 1] /\ (n >= i <=> n + 1 >= i)
      BY <1>4, <2>1, <2>6
    <3> DEFINE p == Part(ids, t)[n + 1]
    <3>2. CASE n >= i
      <4>1. f[n + 1] = f[n] + p /\ g[n + 1] = g[n] + p /\ g[n] = f[n] + grant
        BY <2>2, <2>4, <3>1, <3>2
      <4> HIDE DEF p
      <4>2. p \in Nat /\ f[n] \in Nat
        BY <2>3 DEF p
      <4>3. g[n + 1] = f[n + 1] + grant
        BY <1>1, <4>1, <4>2
      <4> QED BY <2>1, <3>1, <3>2, <4>3
    <3>3. CASE ~(n >= i)
      BY <1>1, <2>1, <2>2, <2>3, <2>4, <3>1, <3>3
    <3> QED BY <3>2, <3>3
  <2> QED BY <2>5, <2>6
<1>7. 0 \in Ahead
  BY <1>2, <1>3
<1>8. 0 .. N \subseteq Ahead
  <2> HIDE DEF Ahead
  <2> QED BY <1>1, <1>6, <1>7, IntervalInduction
<1>9. g[N] = f[N] + grant
  BY <1>1, <1>8 DEF N
<1> QED BY <1>1, <1>2, <1>3, <1>9 DEF N, more, grant

LEMMA NewPlayersPoints == Init => PointsAreEarned
<1> SUFFICES ASSUME Init PROVE PointsAreEarned
  OBVIOUS
<1>1. ClaimedIds = {} /\ player.tracks = [t \in Track |-> 0] /\ player.unlocked = {}
  BY DEF Init, NewPlayer, ClaimedIds
<1>2. \A t \in Track : player.tracks[t] = Lesser(GrantedBy(ClaimedIds, t), MaxTrackPoints)
  BY <1>1, GrantedByNone, RewardAssumption DEF Lesser
<1> QED BY <1>1, <1>2 DEF PointsAreEarned

\* A reward is added to what the others gave, and capped with it.
LEMMA RewardedPoints ==
  ASSUME TypeOK, PointsAreEarned, NEW q \in Quest, RewardsOf(q) # {},
         player.claims # Malformed, RewardFor(q).id \notin player.claims,
         player' = Rewarded(player, RewardFor(q))
  PROVE  PointsAreEarned'
<1>1. PICK i \in 1 .. Len(Reward) : RewardFor(q) = Reward[i]
  BY FirstReward, RewardTypes DEF RewardsOf
<1>2. player.claims \in SUBSET RewardIds /\ ClaimedIds = player.claims
  BY DEF TypeOK, ClaimedIds
<1>3. /\ player'.claims = player.claims \cup {Reward[i].id}
      /\ player'.tracks = GrantProgress(player.tracks, Reward[i].grants)
      /\ player'.unlocked = player.unlocked \cup Reward[i].unlocks
  BY <1>1 DEF Rewarded
<1>4. ClaimedIds' = ClaimedIds \cup {Reward[i].id}
  <2>1. Reward[i].id \in RewardIds
    BY RewardTypes DEF RewardIds
  <2>2. player'.claims # Malformed
    BY <1>2, <1>3, <2>1, IdsAreNoMalformed
  <2> QED BY <1>2, <1>3, <2>2 DEF ClaimedIds
<1>5. ASSUME NEW t \in Track
      PROVE  player'.tracks[t] = Lesser(GrantedBy(ClaimedIds', t), MaxTrackPoints)
  <2> DEFINE had == GrantedBy(ClaimedIds, t)
             grant == Reward[i].grants[t]
             has == GrantedBy(ClaimedIds \cup {Reward[i].id}, t)
  <2>1. had \in Nat /\ has = had + grant
    BY <1>1, <1>2, GrantedByMore
  <2>2. grant \in Nat /\ MaxTrackPoints \in Nat
    BY RewardTypes, RewardAssumption
  <2>3. player.tracks[t] = Lesser(had, MaxTrackPoints)
    BY DEF PointsAreEarned
  <2>4. player'.tracks[t] = Lesser(player.tracks[t] + grant, MaxTrackPoints)
    BY <1>3 DEF GrantProgress
  <2> HIDE DEF had, grant, has
  <2>5. player'.tracks[t] = Lesser(has, MaxTrackPoints)
    BY <2>1, <2>2, <2>3, <2>4 DEF Lesser
  <2> QED BY <1>4, <2>5 DEF has
<1>6. player'.unlocked = UNION {Reward[n].unlocks :
                                n \in {j \in DOMAIN Reward : Reward[j].id \in ClaimedIds'}}
  <2>1. \A j \in DOMAIN Reward : Reward[j].id = Reward[i].id <=> j = i
    BY RewardTypes, RewardAssumption
  <2>2. {j \in DOMAIN Reward : Reward[j].id \in ClaimedIds'} =
        {j \in DOMAIN Reward : Reward[j].id \in ClaimedIds} \cup {i}
    BY <1>4, <2>1, RewardTypes
  <2> QED BY <1>3, <2>2 DEF PointsAreEarned
<1> QED BY <1>5, <1>6 DEF PointsAreEarned

LEMMA PointsStep == IInv /\ PointsAreEarned /\ [Next]_vars => PointsAreEarned'
<1> SUFFICES ASSUME IInv, PointsAreEarned, [Next]_vars PROVE PointsAreEarned'
  OBVIOUS
<1>1. CASE player' = player
  <2>1. ClaimedIds' = ClaimedIds
    BY <1>1 DEF ClaimedIds
  <2> QED BY <1>1, <2>1 DEF PointsAreEarned
<1>2. ASSUME NEW sig \in Signal, NEW q \in Quest,
             NEW k \in 0 .. Len(Objective[q]) - 1, Progresses(sig, q, k), player' # player
      PROVE  PointsAreEarned'
  <2>1. /\ RewardsOf(q) # {} /\ player.claims # Malformed
        /\ RewardFor(q).id \notin player.claims
        /\ player' = Rewarded(player, RewardFor(q))
    BY <1>2 DEF Progresses
  <2> QED BY <2>1, RewardedPoints DEF IInv
<1>3. player' = player \/ \E sig \in Signal : \E q \in Quest :
        \E k \in 0 .. Len(Objective[q]) - 1 : Progresses(sig, q, k)
  BY TurnProgresses DEF Next, Outdate, Ignores, vars
<1> QED BY <1>1, <1>2, <1>3

(* A player's points and abilities are exactly those of the rewards         *)
(* claimed, each counted once and the sum capped, however often a quest     *)
(* starts over and is completed again and in whatever order rewards come    *)
(* (apply_quest_completion_rewards, grant_progress).                        *)
THEOREM PointsComeFromRewards == Spec => []PointsAreEarned
BY NewPlayersPoints, PointsStep, SpecInvariant, PTL DEF Spec
-----------------------------------------------------------------------------
(* The turns implement QuestLine.                                           *)

LEMMA LengthOfReached ==
  ASSUME NEW q \in Quest, NEW k \in 0 .. Len(Objective[q]), NEW R,
         R[q] = ReachedProgress(q, k)
  PROVE  (CHOOSE j \in 0 .. Len(Objective[q]) : R[q] = ReachedProgress(q, j)) = k
<1> DEFINE j == CHOOSE j \in 0 .. Len(Objective[q]) : R[q] = ReachedProgress(q, j)
<1>1. j \in 0 .. Len(Objective[q]) /\ R[q] = ReachedProgress(q, j)
  OBVIOUS
<1>2. ReachedProgress(q, j) = ReachedProgress(q, k)
  BY <1>1
<1> HIDE DEF j
<1>3. j = k
  BY <1>1, <1>2, ReachedIsInjective
<1> QED BY <1>3 DEF j

\* The two variables of QuestLine as StoryProgression has them.
Done == [q \in Quest |-> Passed(q)]
Rewarding == {q \in Quest : RewardsOf(q) # {}}
Paid == {q \in Quest : RewardsOf(q) # {} /\ RewardFor(q).id \in ClaimedIds}

LEMMA PassedNow ==
  ASSUME NEW q \in Quest, NEW k \in 0 .. Len(Objective[q]),
         Readable[q] = ReachedProgress(q, k)
  PROVE  Done[q] = k
BY LengthOfReached DEF Done, Passed

LEMMA DoneAfter ==
  ASSUME NEW q \in Quest, NEW k \in 0 .. Len(Objective[q]),
         Readable' = [Readable EXCEPT ![q] = ReachedProgress(q, k)]
  PROVE  Done' = [Done EXCEPT ![q] = k]
<1>1. Readable = [x \in Quest |-> Readable[x]]
  BY DEF Readable, EnsureStoryState
<1>2. Readable'[q] = ReachedProgress(q, k)
  BY <1>1
<1>3. Passed(q)' = k
  BY <1>2, LengthOfReached DEF Passed
<1>4. \A x \in Quest : x # q => Passed(x)' = Passed(x)
  BY <1>1 DEF Passed
<1> QED BY <1>3, <1>4 DEF Done

\* A step that changes nothing passes and pays nothing.
LEMMA UnchangedReads ==
  ASSUME UNCHANGED vars
  PROVE  UNCHANGED <<Done, Paid, reported>>
BY DEF vars, Done, Paid, Passed, Readable, ClaimedIds

LEMMA TurnRefines ==
  ASSUME IInv, NEW sig \in Signal, Turn(sig)
  PROVE  Line!Report(sig)
<1>0. reported' = sig
  BY DEF Turn
<1>1. CASE Ignores(sig)
  <2>1. UNCHANGED <<Done, Paid>>
    BY <1>1 DEF Ignores, Done, Paid, Passed, Readable, ClaimedIds
  <2>2. ASSUME NEW q \in Quest, Done[q] < Len(Objective[q]), Objective[q][Done[q] + 1] = sig
        PROVE  Done[q] + 1 = Len(Objective[q]) /\ q \in Rewarding \ Paid
    <3>1. PICK k \in 0 .. Len(Objective[q]) : Readable[q] = ReachedProgress(q, k)
      BY ReadsAsReached DEF Readable, EnsureStoryState
    <3>2. Done[q] = k
      BY <3>1, PassedNow
    <3>3. Len(Objective[q]) \in Nat /\ k \in 0 .. Len(Objective[q]) - 1
      BY <2>2, <3>2, DefinitionsAssumption
    <3>4. Awaited(story, sig, q, k)
      BY <2>2, <3>1, <3>2 DEF Awaited, Readable, EnsureStoryState
    <3>5. k + 1 = Len(Objective[q]) /\ RewardsOf(q) # {} /\ player.claims = Malformed
      BY <1>1, <3>3, <3>4 DEF Ignores
    <3> QED BY <3>2, <3>5 DEF Rewarding, Paid, ClaimedIds
  <2>3. Line!Ignore(sig)
    BY <2>1, <2>2 DEF Line!Ignore, Line!Awaits, Line!AwaitsLast, Done, Paid, Rewarding
  <2> QED BY <1>0, <2>3 DEF Line!Report
<1>2. ASSUME NEW q \in Quest, NEW k \in 0 .. Len(Objective[q]) - 1, Progresses(sig, q, k)
      PROVE  Line!Report(sig)
  <2>1. Len(Objective[q]) \in Nat /\ k \in 0 .. Len(Objective[q]) /\ k + 1 \in 0 .. Len(Objective[q])
    BY DefinitionsAssumption
  <2>2. Done[q] = k
    BY <1>2, <2>1, PassedNow DEF Progresses
  <2>3. Done' = [Done EXCEPT ![q] = k + 1]
    BY <1>2, <2>1, ReadsAfterTurn, DoneAfter
  <2>4. Objective[q][k + 1] = sig
    BY <1>2 DEF Progresses
  <2>5. Paid' = IF k + 1 = Len(Objective[q]) /\ q \in Rewarding
                THEN Paid \cup {q} ELSE Paid
    <3>1. ClaimedIds' = IF k + 1 = Len(Objective[q]) /\ RewardsOf(q) # {}
                        THEN ClaimedIds \cup {RewardFor(q).id} ELSE ClaimedIds
      BY <1>2, PlayerAfterTurn DEF IInv
    <3>2. CASE ~(k + 1 = Len(Objective[q]) /\ RewardsOf(q) # {})
      BY <3>1, <3>2 DEF Paid, Rewarding
    <3>3. CASE k + 1 = Len(Objective[q]) /\ RewardsOf(q) # {}
      <4>1. ClaimedIds' = ClaimedIds \cup {RewardFor(q).id}
        BY <3>1, <3>3
      <4>2. \A x \in Quest : x \in Paid' <=> x \in Paid \cup {q}
        BY <3>3, <4>1, RewardsDiffer DEF Paid
      <4> QED BY <3>3, <4>2 DEF Paid, Rewarding
    <3> QED BY <3>2, <3>3
  <2>6. Done[q] < Len(Objective[q])
    BY <2>1, <2>2
  <2>7. Line!Pass(q, sig)
    BY <2>2, <2>3, <2>4, <2>5, <2>6
    DEF Line!Pass, Line!Awaits, Line!AwaitsLast, Done, Paid, Rewarding
  <2> QED BY <1>0, <2>7 DEF Line!Report
<1> QED BY <1>1, <1>2, TurnProgresses

LEMMA OutdateRefines ==
  ASSUME IInv, NEW q \in Quest, Outdate(q)
  PROVE  Line!StartOver(q)
<1>1. 0 \in 0 .. Len(Objective[q])
  BY FreshIsReached
<1>2. Done' = [Done EXCEPT ![q] = 0]
  BY <1>1, ReadsAfterOutdate, DoneAfter DEF IInv
<1>3. Paid' = Paid /\ reported' = NoSignal
  BY DEF Outdate, Paid, ClaimedIds
<1> QED BY <1>2, <1>3 DEF Line!StartOver, Done, Paid

(* A turn passes the objective that waits for its signal and pays a quest   *)
(* with its last one, and changes nothing else; only a record that does not *)
(* fit its quest starts it over, and that keeps the payment                 *)
(* (apply_story_signal, apply_quest_completion_rewards, handle_chat).       *)
THEOREM ImplementsTheQuestLine == Spec => ImplementsQuestLine
<1>1. Init => Line!Init
  <2> SUFFICES ASSUME Init PROVE Line!Init
    OBVIOUS
  <2>1. \A q \in Quest : Passed(q) = 0
    BY InitReads, FreshIsReached, PassedNow DEF Done
  <2>2. ClaimedIds = {}
    BY DEF Init, NewPlayer, ClaimedIds
  <2>3. reported = NoSignal
    BY DEF Init
  <2> QED BY <2>1, <2>2, <2>3 DEF Line!Init
<1>2. IInv /\ [Next]_vars => [Line!Next]_<<Done, Paid, reported>>
  BY TurnRefines, OutdateRefines, UnchangedReads DEF Next, Line!Next
<1>3. IInv /\ [Next]_vars =>
        [Line!Next]_<<[q \in Quest |-> Passed(q)],
                      {q \in Quest : RewardsOf(q) # {} /\ RewardFor(q).id \in ClaimedIds},
                      reported>>
  BY <1>2 DEF Done, Paid
<1> QED BY <1>1, <1>3, SpecInvariant, PTL DEF Spec, ImplementsQuestLine, Line!Spec
=============================================================================
