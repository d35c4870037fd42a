------------------------- MODULE MCStoryProgression -------------------------
(***************************************************************************)
(* Two quests with rewards on one track whose sum passes the cap, and one  *)
(* quest without objectives.  q1 is the authored quest.      *)
(***************************************************************************)
EXTENDS StoryProgression, TLC

CONSTANTS q1, q2, q3

Enter == <<"room_entered", "library">>
Speak == <<"npc_spoken_to", "library_ghost">>
Acquire == <<"item_acquired", "old_book">>
Other == <<"item_acquired", "candle">>
Idle == <<"room_entered", "crypt">>
Signals == {Enter, Speak, Acquire, Other, Idle}
Objectives == q1 :> <<Enter, Speak, Acquire>> @@ q2 :> <<Other>> @@ q3 :> <<>>
Rewards == <<[id |-> "librarys_whisper_completion", quest |-> q1,
              grants |-> "investigation" :> 2 @@ "occult" :> 0, unlocks |-> {"keen_eye"}],
             [id |-> "second", quest |-> q2,
              grants |-> "investigation" :> 2 @@ "occult" :> 1, unlocks |-> {}]>>

\* Records no play can have stored: a completion its objectives do not spell,
\* objectives out of line, an unknown status, a missing objective.
Records(st, objectives) == [status : {st}, objectives : objectives]
Unfit == Records("completed", [1 .. 3 -> {"locked", "active", "completed"}])
         \cup Records("active", {<<"completed", "completed", "completed">>,
                                 <<"active", "active", "locked">>,
                                 <<"locked", "locked", "locked">>})
         \cup Records("completed", {<<"completed", "completed", "skipped">>,
                                    <<"completed", "completed">>})
         \cup Records("failed", {<<"completed", "completed", "completed">>})
Played(q) == {ReachedProgress(q, k) : k \in 0 .. Len(Objectives[q])}
OldSaves == q1 :> Unfit \ Played(q1)
            @@ q2 :> Records("completed", {<<"active">>})
            @@ q3 :> {}
=============================================================================
