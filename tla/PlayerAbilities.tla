-------------------------- MODULE PlayerAbilities --------------------------
(***************************************************************************)
(* Abilities from the creation of a campaign to their use:                 *)
(* app/game/abilities.py and the grounding of requests in                  *)
(* app/agents/action_parser.py.  Two generated starters are validated and  *)
(* stored once; built-in abilities are unlocked by the rewards of           *)
(* StoryProgression; a request names an ability in the player's words, a   *)
(* language model says which it thinks it is, and the parser accepts that  *)
(* only if the words bear it out.  What an ability does to the world is    *)
(* GameWorld's.                                                            *)
(* A text, a name and an id are sequences of words: of the spellings that  *)
(* normalize_identifier makes one, only the leading article is kept apart. *)
(* Bug<Name> is a plausible wrong <Name> that no action uses.              *)
(***************************************************************************)
EXTENDS Naturals, Sequences

CONSTANTS Quest, Signal, NoSignal, Objective, Track, Ability, MaxTrackPoints, \* see
          Reward, OldSave, Word, Malformed,                  \* StoryProgression
          BuiltIn,        \* CANONICAL_ABILITY_DEFINITIONS
          Generated,      \* definitions a generator can return
          LegacyStarters, \* starters stored by earlier releases
          Taxonomy,       \* taxonomy_terms: words that make no name
          Text,           \* what players write
          Target,         \* phrases that can be meant as a target
          Output,         \* what a model may answer: ability, target, status
          Scene,          \* rooms with the references of what is there
          Check           \* the authored check: ability, room, difficulty

VARIABLES starters,                \* player.generated_abilities
          story, player, reported, \* see StoryProgression
          asked                    \* history: the last request and its answer
vars == <<starters, story, player, reported, asked>>

Story == INSTANCE StoryProgression

\* No target; the request before the first one.
NoTarget == <<>>
NoRequest == [status |-> "none", text |-> <<>>, ability |-> <<>>, target |-> NoTarget,
              result |-> "none"]
-----------------------------------------------------------------------------
(* References: the words that stand for an ability.                         *)

\* normalize_identifier takes one article off the front.  Case, "_", "-" and the
\* punctuation around a text are gone in the words; the punctuation between two
\* words, which the code keeps, is not modelled: texts are written without it.
Canonical(words) ==
  IF Len(words) > 1 /\ Head(words) \in {"the", "a", "an"} THEN Tail(words) ELSE words

\* canonical_ability_invocation_references, of an id and a display name.
References(a) == {Canonical(a.id), Canonical(a.name)}

MembersOf(ds) == {ds[i] : i \in DOMAIN ds}

BuiltInReferences == UNION {References(a) : a \in BuiltIn}
-----------------------------------------------------------------------------
(* Generated definitions.                                                   *)

\* What each kind may do (the schema has more spellings of the same).
Mechanics == {<<"sensory", "sense">>, <<"traversal", "traverse">>}
               \cup {"utility"} \X {"minor_utility", "move", "toggle"}

\* A mechanic of the first release, which no operation is mapped to.
Generic(d) == d.effect \in {"sense", "minor_utility"} /\ d.detail = "none"

ValidateGenerated(d) ==
  /\ \A a \in BuiltIn : d.id # a.id /\ d.name # a.name
  /\ d.name # <<>>
  /\ <<d.kind, d.effect>> \in Mechanics
  /\ ~Generic(d) => d.nearby

Thematic(name) == Len(name) \in 1 .. 3 /\ \E i \in DOMAIN name : name[i] \notin Taxonomy

\* What only new starters have to meet: names that say something, and words
\* and mechanics that are nobody else's.
BugNewStarters(d, e) ==
  /\ \A s \in {d, e} : ~Generic(s) /\ Thematic(s.name)
  /\ References(d) \cap References(e) = {}
  /\ <<d.effect, d.detail>> # <<e.effect, e.detail>>
NewStarters(d, e) ==
  /\ \A s \in {d, e} : /\ ~Generic(s) /\ Thematic(s.name)
                       /\ References(s) \cap BuiltInReferences = {}
  /\ References(d) \cap References(e) = {}
  /\ <<d.effect, d.detail>> # <<e.effect, e.detail>>

\* validate_starter_ability_definitions.
ValidateStarters(ds, allowLegacy) ==
  /\ Len(ds) = 2
  /\ \A i \in 1 .. 2 : ValidateGenerated(ds[i]) /\ ds[i].minimum = 0
  /\ ds[1].id # ds[2].id /\ ds[1].name # ds[2].name
  /\ allowLegacy \/ NewStarters(ds[1], ds[2])

\* generated_ability_definitions: no field is a legacy campaign; anything
\* else that is not valid is an error 500.
BugLoads(ds) == ds = <<>> \/ ValidateStarters(ds, FALSE)
Loads(ds) == ds = <<>> \/ ValidateStarters(ds, TRUE)
-----------------------------------------------------------------------------
\* The authored data: the words of a built-in ability are no other one's, a
\* reward that unlocks it grants the points it takes, and the check asks for no
\* more.
ASSUME AbilityAssumption ==
  /\ MaxTrackPoints \in Nat /\ Story!ValidateProgressionRewardDefinitions
  /\ \A a \in BuiltIn \cup Generated \cup UNION {MembersOf(ds) : ds \in LegacyStarters} :
       /\ a.id \in Ability /\ a.id \in Seq(STRING) \ {<<>>}
       /\ a.name \in Seq(STRING) \ {<<>>}
       /\ a.track \in Track /\ a.minimum \in 0 .. MaxTrackPoints
  /\ \A a, b \in BuiltIn : a # b => References(a) \cap References(b) = {}
  /\ \A ds \in LegacyStarters : DOMAIN ds = 1 .. 2 /\ ValidateStarters(ds, TRUE)
  /\ \A i \in DOMAIN Reward : \A id \in Reward[i].unlocks :
       \E a \in BuiltIn : a.id = id /\ Reward[i].grants[a.track] >= a.minimum
  /\ Check.difficulty \in Nat
  /\ \A a \in BuiltIn : a.id = Check.ability => Check.difficulty <= a.minimum
  /\ \A target \in Target : target \in Seq(STRING) \ {<<>>} /\ Len(target) <= 8
-----------------------------------------------------------------------------
(* Availability, from the progression as it is stored.                      *)

Known == BuiltIn \cup MembersOf(starters)

Owned(a) == a.id \in player.unlocked
BugEnough(a) == player.tracks[a.track] > a.minimum
Enough(a) == player.tracks[a.track] >= a.minimum
\* project_owned_abilities, those of them that can be used.
Available == {a \in Known : Owned(a) /\ Enough(a)}

\* resolve_ability_check: no luck, points against difficulty.
BugResolveCheck(a) == IF player.tracks[a.track] > Check.difficulty THEN "success" ELSE "failure"
ResolveCheck(a) == IF player.tracks[a.track] >= Check.difficulty THEN "success" ELSE "failure"

\* resolve_gameplay_ability_check, for the ability of this id.
Resolve(id, room) ==
  IF \A a \in Known : a.id # id THEN "unknown"
  ELSE LET a == CHOOSE b \in Known : b.id = id
       IN IF a \notin Available THEN "unavailable"
          ELSE IF a \notin BuiltIn THEN IF Generic(a) THEN "unsupported" ELSE a.effect
          ELSE IF id = Check.ability /\ room = Check.room THEN ResolveCheck(a)
          ELSE "ineligible"
-----------------------------------------------------------------------------
(* The grounding of a request in the player's text.                         *)

Overlap(s, t) == s.from <= t.to /\ t.from <= s.to

\* _canonical_phrase_spans, which normalises its reference once more.  (A
\* match inside another match of the same reference is skipped by finditer:
\* no reference of different words has one.)
Spans(text, reference) ==
  LET words == Canonical(reference)
  IN {[from |-> i, to |-> i + Len(words) - 1] :
        i \in {k \in DOMAIN text : \A j \in DOMAIN words :
                 k + j - 1 \in DOMAIN text /\ text[k + j - 1] = words[j]}}

\* _has_ability_namespace_qualifier: the word stands beside this occurrence.
BugQualified(text, span) == \E i \in DOMAIN text : text[i] = "ability" /\ i > span.to
Qualified(text, span) ==
  \E i \in DOMAIN text : text[i] = "ability" /\ (i + 1 = span.from \/ i = span.to + 1)

\* _grounded_player_phrase: up to eight words (of 80 characters) outside the
\* occurrence.
Grounded(text, phrase, span) ==
  \E i, j \in DOMAIN text : /\ i <= j /\ j < i + 8
                            /\ ~Overlap([from |-> i, to |-> j], span)
                            /\ Canonical(SubSeq(text, i, j)) = Canonical(phrase)

\* The references of a that stand in the text and are nobody else's.
UniqueReferences(a, abilities) ==
  {r \in References(a) : \A b \in abilities : r \in References(b) => b.id = a.id}

\* Where they stand, unless the words may as well mean a thing or a crossing.
Occurrences(a, abilities, scene, text) ==
  UNION {{span \in Spans(text, r) :
            \/ /\ r \notin scene.items
               /\ \A route \in scene.routes : \A s \in Spans(text, route) : ~Overlap(s, span)
            \/ Qualified(text, span)} : r \in UniqueReferences(a, abilities)}

OfKind(a, kinds) == a \notin BuiltIn /\ a.kind \in kinds

\* _validate_model_ability_request accepts the ability output names.
Accepts(a, abilities, scene, text, output) ==
  /\ output.status = "ok"
  /\ Occurrences(a, abilities, scene, text) # {}
  /\ OfKind(a, {"utility"}) => output.target # NoTarget
  /\ output.target # NoTarget =>
       \E span \in Occurrences(a, abilities, scene, text) : Grounded(text, output.target, span)

Understands(abilities, scene, text, output) ==
  \E a \in abilities : a.id = output.ability /\ Accepts(a, abilities, scene, text, output)

\* A request that is not accepted is no ability check any more; the answer
\* tells whether all that names the ability names another one, too.
Unclear(abilities, text, output) ==
  \E a \in abilities : /\ a.id = output.ability /\ output.status = "ok"
                       /\ \E r \in References(a) : Spans(text, r) # {}
                       /\ \A r \in UniqueReferences(a, abilities) : Spans(text, r) = {}
-----------------------------------------------------------------------------
(* The turns of one campaign.                                               *)

\* _build_initial_campaign_state: the starters are stored and owned.
Init == /\ starters \in {ds \in Generated \X Generated : ValidateStarters(ds, FALSE)}
                          \cup LegacyStarters \cup {<<>>}
        /\ player = [Story!NewPlayer({}) EXCEPT !.unlocked = {d.id : d \in MembersOf(starters)}]
        /\ story = [q \in Quest |-> Malformed]
        /\ reported = NoSignal
        /\ asked = NoRequest

\* A turn that is no ability request.
Play(sig) == /\ Loads(starters)
             /\ Story!Turn(sig)
             /\ asked' = NoRequest
             /\ UNCHANGED starters

\* What the executor's effect on the world tells the story, if it had one: an
\* item drawn into the hand is acquired, the room behind a crossing is entered.
Tells == \/ UNCHANGED <<story, player, reported>>
         \/ \E sig \in Signal :
              /\ <<asked'.result, sig[1]>> \in {<<"move", "item_acquired">>,
                                              <<"traverse", "room_entered">>}
              /\ Story!Turn(sig)

\* A turn that the model takes for an ability request.
Ask(scene, text, output) ==
  /\ Loads(starters)
  /\ asked' = IF Understands(Available, scene, text, output)
              THEN [status |-> "ok", text |-> text, ability |-> output.ability,
                    target |-> Canonical(output.target),
                    result |-> Resolve(output.ability, scene.room)]
              ELSE [NoRequest EXCEPT
                      !.status = IF Unclear(Available, text, output) THEN "ambiguous"
                                 ELSE "invalid", !.text = text]
  /\ Tells
  /\ UNCHANGED starters

Next == \/ \E sig \in Signal : Play(sig)
        \/ \E scene \in Scene, text \in Text, output \in Output : Ask(scene, text, output)

Spec == Init /\ [][Next]_vars
-----------------------------------------------------------------------------
\* The player's record has its type, an answer is one of those there are,
\* and what is stored loads, whichever release stored it.
TypeOK ==
  /\ Loads(starters)
  /\ player \in [claims : SUBSET Story!RewardIds, tracks : [Track -> 0 .. MaxTrackPoints],
                 unlocked : SUBSET Ability]
  /\ asked.status \in {"none", "ok", "ambiguous", "invalid"}

\* What is owned can be used: a starter from the first turn on, and a
\* built-in ability from the reward that unlocks it, whose points are never
\* lost again.
OwnedIsAvailable == \A a \in Known : Owned(a) => a \in Available

\* The campaign's words were checked when it was created.
Fresh == starters = <<>> \/ ValidateStarters(starters, FALSE)

\* However the room is furnished and whatever has been unlocked since, there
\* are words for each ability that is available: "ability", its id, and the
\* target.
Plainly(a, target) == <<"ability">> \o Canonical(Canonical(a.id)) \o target
AvailableCanBeInvoked ==
  Fresh => \A a \in Available, scene \in Scene, target \in Target :
             Understands(Available, scene, Plainly(a, target),
                         [ability |-> a.id, target |-> target, status |-> "ok"])

\* What could be said before a reward can be said after it: a new ability
\* never makes the words for another one ambiguous.
Understood == {said \in Scene \X Text \X Output :
                 Understands(Available, said[1], said[2], said[3])}
WordsKeepTheirMeaning == [][Fresh /\ player' # player => Understood \subseteq Understood']_vars

\* A request that the parser let through is carried out or has nothing to act
\* on here: it is never one of an ability that the executor does not know or
\* does not find available, and the authored check cannot be failed by who
\* owns the ability for it.
AcceptedIsCarriedOut ==
  asked.status = "ok" => asked.result \notin {"unknown", "unavailable", "failure"}

\* "Pairing it with a non-overlapping player-supplied target" (docs/
\* project-status.md:137): the words that name the ability, all of them, are
\* not the target as well.
Whole(a, text) ==
  LET spans == UNION {Spans(text, r) : r \in References(a)}
  IN {s \in spans : \A t \in spans : t.from <= s.from /\ s.to <= t.to => t = s}
TargetStandsApart ==
  asked.status = "ok" /\ asked.target # NoTarget =>
    \E a \in Known : /\ a.id = asked.ability
                     /\ \E span \in Whole(a, asked.text) : Grounded(asked.text, asked.target, span)
=============================================================================
