----------------------------- MODULE QuestLine -----------------------------
(***************************************************************************)
(* What the story promises a player, without how it is stored: each quest   *)
(* is a line of objectives passed one at a time, each by its own signal; a  *)
(* signal no objective waits for changes nothing, one that is waited for    *)
(* passes its objective, and the step that passes the last also hands out   *)
(* the quest's reward, or does nothing if it cannot; a quest that starts    *)
(* over has not lost, and is not paid again, its reward.                    *)
(***************************************************************************)
EXTENDS Naturals, Sequences

CONSTANTS Quest,      \* the authored quests
          Signal,     \* what the game can report
          NoSignal,   \* no report
          Objective,  \* [Quest -> Seq(Signal)]: the trigger of each objective
          Rewarding   \* the quests with an authored completion reward

VARIABLES done,       \* the number of objectives passed, per quest
          rewarded,   \* the quests whose reward was handed out
          reported    \* the last report

Init == /\ done = [q \in Quest |-> 0]
        /\ rewarded = {}
        /\ reported = NoSignal

AwaitsLast(q) == done[q] + 1 = Len(Objective[q])
Awaits(q, sig) == /\ done[q] < Len(Objective[q])
                  /\ Objective[q][done[q] + 1] = sig

Pass(q, sig) == /\ Awaits(q, sig)
                /\ done' = [done EXCEPT ![q] = done[q] + 1]
                /\ rewarded' = IF AwaitsLast(q) /\ q \in Rewarding
                               THEN rewarded \cup {q} ELSE rewarded

\* Only a reward still due can keep a signal from passing its objective.
Ignore(sig) == /\ \A q \in Quest : Awaits(q, sig) =>
                                   AwaitsLast(q) /\ q \in Rewarding \ rewarded
               /\ UNCHANGED <<done, rewarded>>

Report(sig) == /\ reported' = sig
               /\ Ignore(sig) \/ \E q \in Quest : Pass(q, sig)

StartOver(q) == /\ reported' = NoSignal
                /\ done' = [done EXCEPT ![q] = 0]
                /\ UNCHANGED rewarded

Next == \/ \E sig \in Signal : Report(sig)
        \/ \E q \in Quest : StartOver(q)

Spec == Init /\ [][Next]_<<done, rewarded, reported>>
=============================================================================
