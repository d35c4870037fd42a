--------------------------- MODULE WorldAuthority ---------------------------
(***************************************************************************)
(* The Director's side of the world: app/services/world_authority.py and   *)
(* app/game/narrative.py.  Each action takes a loaded world and returns the *)
(* changed world, or the same one when it is refused or already so; the    *)
(* quests a clue depends on are passed as they read.                        *)
(***************************************************************************)
EXTENDS GameWorld

CONSTANTS Clue,      \* NARRATIVE_CLUES
          ClueQuest, \* [Clue -> quest]
          CluePlace, \* [Clue -> the place of its objective]
          MaxFacts   \* the limit of unique facts, 256 in the code

\* list_revealable_clues: the clue's quest and its objective are both active.
BugListRevealableClues(w, quests) ==
  {c \in Clue \ w.clues : quests[ClueQuest[c]].status = "active"}
ListRevealableClues(w, quests) ==
  {c \in Clue \ w.clues : /\ quests[ClueQuest[c]].status = "active"
                          /\ quests[ClueQuest[c]].objectives[CluePlace[c]] = "active"}

\* The destination is a room, and exactly one exit of the room leads to it.
OneHop(from, to) == /\ to \in Room
                    /\ Cardinality({k \in DOMAIN Exits[from] : Exits[from][k][2] = to}) = 1

MoveNpc(w, n, to) ==
  IF n \in Npc /\ w.npc[n].at \in Room /\ OneHop(w.npc[n].at, to)
  THEN [w EXCEPT !.npc[n].at = to] ELSE w

SetNpcStatus(w, n, status) ==
  IF n \in Npc /\ status \in NpcStatus /\ w.npc[n].status \in NpcStatus
  THEN [w EXCEPT !.npc[n].status = status] ELSE w

AdvanceClock(w, ticks) ==
  IF ticks \in 1 .. 10 THEN [w EXCEPT !.tick = @ + ticks] ELSE w

BugRecordFact(w, fact) ==
  IF Cardinality(w.facts) <= MaxFacts THEN [w EXCEPT !.facts = @ \cup {fact}] ELSE w
RecordFact(w, fact) ==
  IF Cardinality(w.facts) < MaxFacts THEN [w EXCEPT !.facts = @ \cup {fact}] ELSE w

RevealClue(w, c, quests) ==
  IF c \in ListRevealableClues(w, quests) THEN [w EXCEPT !.clues = @ \cup {c}] ELSE w

\* execute: a proposal is the name of an action with its arguments.
WorldAction(w, proposal, quests) ==
  LET arg == proposal[2]
  IN CASE proposal[1] = "move_npc" -> MoveNpc(w, arg, proposal[3])
       [] proposal[1] = "set_npc_status" -> SetNpcStatus(w, arg, proposal[3])
       [] proposal[1] = "advance_clock" -> AdvanceClock(w, arg)
       [] proposal[1] = "record_fact" -> RecordFact(w, arg)
       [] proposal[1] = "reveal_clue" -> RevealClue(w, arg, quests)
       [] OTHER -> w
=============================================================================
