----------------------------- MODULE MCGameTurn -----------------------------
(***************************************************************************)
(* Two small worlds.  Quest* is the authored quest on the three rooms it    *)
(* takes, with a Director and the authored clue; Gear* is a world of names  *)
(* that fit several items, inventories of earlier releases, items that     *)
(* need one another, and a crossing to a room with another way back.        *)
(***************************************************************************)
EXTENDS GameTurn, TLC

CONSTANTS q1

Nothing == <<>>
NoOldSave == q1 :> {}

QuestExits == "hall" :> << <<"north", "corridor">> >>
              @@ "corridor" :> << <<"south", "hall">>, <<"east", "library">> >>
              @@ "library" :> << <<"west", "corridor">> >>
QuestRoomNames == [r \in Room |-> {r}]
QuestItemNames == "old_book" :> {"old_book", "book"}
QuestNpcNames == "library_ghost" :> {"ghost"}
QuestPlace == "old_book" :> "library"
QuestNpcStart == "library_ghost" :> "library"
QuestObjectives == q1 :> << <<"room_entered", "library">>,
                            <<"npc_spoken_to", "library_ghost">>,
                            <<"item_acquired", "old_book">> >>
QuestReward == << [id |-> "librarys_whisper_completion", quest |-> q1,
                   grants |-> "investigation" :> 2, unlocks |-> {"keen_eye"}] >>
QuestSignals == ({"room_entered"} \X Room) \cup ({"npc_spoken_to"} \X Npc)
                \cup ({"item_acquired"} \X Item)
QuestPowers == {<<"sense", "presence">>, <<"move", "toward_player">>}
QuestProposals ==
  {<<"none">>, <<"advance_clock", 1>>, <<"advance_clock", 11>>,
   <<"record_fact", "rain">>, <<"record_fact", "dust">>,
   <<"reveal_clue", "ghost_points_to_old_book">>}
  \cup {<<"move_npc", "library_ghost", room>> : room \in Room \cup {"attic"}}
  \cup {<<"set_npc_status", "library_ghost", status>> : status \in {"active", "absent"}}
ClueQuests == "ghost_points_to_old_book" :> q1
CluePlaces == "ghost_points_to_old_book" :> 3

GearExits == "corridor" :> << <<"west", "court">> >>
             @@ "court" :> << <<"north", "corridor">>, <<"stairs", "gallery">> >>
             @@ "gallery" :> << <<"stairs", "court">> >>
GearRoutes == {[from |-> "court", to |-> "gallery", names |-> {"ascent", "gallery"},
                kind |-> "vertical", clear |-> TRUE, support |-> TRUE, water |-> FALSE,
                metres |-> 2, stable |-> TRUE],
               [from |-> "court", to |-> "gallery", names |-> {"ivy", "gallery"},
                kind |-> "surface", clear |-> FALSE, support |-> TRUE, water |-> FALSE,
                metres |-> 5, stable |-> TRUE]}
GearItemNames == "old_book" :> {"old_book", "book"} @@ "worn_journal" :> {"worn_journal", "book"}
                 @@ "candle" :> {"candle", "light"} @@ "matches" :> {"matches", "light"}
GearPlace == "old_book" :> "corridor" @@ "candle" :> "court"
GearPowers == {<<"toggle", "open">>, <<"toggle", "lit">>, <<"move", "toward_player">>,
               <<"traverse", "levitation">>, <<"traverse", "supernatural_jump">>}

GearProposals == {<<"none">>}

\* Saves without items but with inventories, and one whose list names what
\* is stored to be elsewhere, partly in words that fit two items.
GearLegacy ==
  LET fresh == CHOOSE w \in FreshWorlds : TRUE
      without == [fresh EXCEPT !.place = [i \in Item |-> Absent]]
  IN {[without EXCEPT !.inventory = names] : names \in {{}, {"book"}, {"light", "old_book"}}}
     \cup {[fresh EXCEPT !.inventory = names] : names \in {{"book", "light"}, {"candle", "book"}}}
NoLegacy == {}
=============================================================================
