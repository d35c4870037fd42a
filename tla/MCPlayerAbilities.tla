------------------------- MODULE MCPlayerAbilities -------------------------
(***************************************************************************)
(* The authored quest and reward with one objective, the built-in ability   *)
(* it unlocks, generated abilities whose words meet those of the built-in   *)
(* one, of each other, of an item and of a crossing, and legacy saves.      *)
(***************************************************************************)
EXTENDS PlayerAbilities, TLC

CONSTANT q1

KeenEye == <<"keen", "eye">>
Steady == <<"steady", "nerves">>
Book == <<"item_acquired", "old_book">>
Signals == {Book, <<"room_entered", "crypt">>}
Objectives == q1 :> <<Book>>
Rewards == <<[id |-> "librarys_whisper_completion", quest |-> q1,
              grants |-> "investigation" :> 2 @@ "resolve" :> 0, unlocks |-> {KeenEye}]>>
NoOldSave == q1 :> {}

BuiltIns == {[id |-> KeenEye, name |-> KeenEye, track |-> "investigation", minimum |-> 2],
             [id |-> Steady, name |-> Steady, track |-> "resolve", minimum |-> 2]}

Sensing(id, name, detail) ==
  [id |-> id, name |-> name, track |-> "investigation", minimum |-> 0,
   kind |-> "sensory", effect |-> "sense", detail |-> detail, nearby |-> TRUE]
Pulling(id, name) ==
  [id |-> id, name |-> name, track |-> "resolve", minimum |-> 0,
   kind |-> "utility", effect |-> "move", detail |-> "toward_player", nearby |-> TRUE]
Floating(id, name) ==
  [id |-> id, name |-> name, track |-> "resolve", minimum |-> 0,
   kind |-> "traversal", effect |-> "traverse", detail |-> "levitation", nearby |-> TRUE]

Recall == Pulling(<<"recall", "object">>, <<"recall">>)
Hush == Sensing(<<"echo">>, <<"the", "book">>, "presence")
Definitions ==
  {Recall, Hush,
   Sensing(<<"the", "keen", "eye">>, <<"shade">>, "presence"),
   Floating(<<"stair">>, <<"float">>),
   [Floating(<<"rise">>, <<"rise">>) EXCEPT !.minimum = 1],
   [Floating(<<"soar">>, <<"minor", "ability">>) EXCEPT !.nearby = FALSE]}

\* A starter of the first release that reads like the built-in ability, and
\* two that share a name but for the article.
LegacySaves == {<<Sensing(<<"shade">>, <<"the", "keen", "eye">>, "none"), Recall>>,
                <<Sensing(<<"echo">>, <<"the", "recall">>, "none"), Recall>>}

Scenes == {[room |-> "library", items |-> {<<"book">>, <<"object">>}, routes |-> {}],
           [room |-> "hall", items |-> {}, routes |-> {<<"stair">>, <<"recall", "stair">>}]}

KeenEyeInLibrary == [ability |-> KeenEye, room |-> "library", difficulty |-> 2]

Targets == {<<"object">>, <<"the", "book">>}
Named == {KeenEye, <<"recall">>, <<"recall", "object">>, <<"book">>, <<"stair">>}
Texts == Named \cup {<<"ability">> \o name : name \in Named \ {KeenEye}}
           \cup {<<"recall", "the", "object">>, <<"book", "ability", "object">>}
Abilities == {a.id : a \in BuiltIns \cup Definitions}
               \cup {<<"shade">>}
Outputs == [ability : Abilities, target : Targets \cup {NoTarget}, status : {"ok"}]
             \cup {[ability |-> KeenEye, target |-> NoTarget, status |-> "ambiguous"]}
=============================================================================
