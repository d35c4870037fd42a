# Haunted Halls engine: a TLA+ verification project

The Haunted Halls engine is the Python back end of a text adventure. A player
sends messages; the engine runs each as a *turn*: an action parser (a model
call), deterministic game rules, a Director (a model call that may propose one
world action), a Narrator (a model call), and memory maintenance, all in one
database transaction. This directory holds TLA+ modules translated from that
code, TLC configurations that check them, and theorems checked by TLAPS.

Run everything from this directory: `tlc -config <name>.cfg <module>.tla` for
the runs below, `tlapm <module>.tla` for the proofs.

## 1. Inventory

| Component | State | Operations | What makes it correct |
| --- | --- | --- | --- |
| Chat orchestration (`app/orchestration/orchestrator.py`, `handle_chat`) | one transaction per request; copies of what it has read | idempotency lookup and claim, validation, five to seven model calls, state writes, commit | a key runs one turn; a replay is that turn; a failure leaves no trace; nothing half-written; every request ends |
| Repository and session (`app/db`) | tables campaigns, turns, model_requests, chat_request_idempotency, events, summaries, memories, users | one statement per method; `session()` commits or rolls back | claims are owned; foreign keys hold; users are unique |
| Usage limits (`app/guardrails`) | none of their own; counts over the tables | turn, campaign, daily request and token checks before acting | counted use stays within the limits |
| Campaign API (`app/api/routes/campaign.py`) | campaigns | create, read, list, delete | delete takes all that belongs to a campaign, and only that |
| Story and rewards (`app/game/story.py`, `progression_rewards.py`, `character_progression.py`) | quest progress, objectives, reward claims, tracks and unlocks in the state JSON | derive and apply a story signal, reset, apply the reward, normalise on load | objectives in order; the reward granted exactly once and whole |
| World authority (`app/services/world_authority.py`) | NPC places and status, clock, facts, clues | the Director's five actions | at most one action per turn; one-exit moves; bounded facts; clues once |
| Tool executor, items, traversal (`app/services/tool_executor.py`, `app/game/items.py`, `world.py`, `traversal.py`) | player room, inventory, item places | move, observe, talk, interact, take, drop | an item is in one place; moves follow exits |
| Abilities (`app/game/abilities.py`, grounding in `app/agents/action_parser.py`) | generated definitions, unlocks and points in the state JSON | validate and store starters, evaluate availability, ground a request, check, toggle, presence and traversal effects | nothing unowned is used; what is owned can be used, and named |
| State loading (`app/game/campaign_state.py`) | the JSON of a campaign | validate, normalise | idempotent; never invents progress |
| Internal users (`resolve_internal_user`) | table internal_users | look up or insert an identity, authenticate | one user per identity whatever races; no login fails for having lost a race |
| Memory layers (`app/memory`, `_maybe_update_memory_layers`) | summaries, memories, their calls' records | store, summarise and reflect every N turns | maintenance never costs the player the turn; what is due is tried; no summary forgets |
| Tool registry and MCP client (`app/tools`) | none | remote call with local fallback | one result per action |
| Agents and model client (`app/agents`, `app/ai`) | none | provider I/O, parsing | a call is an answer, counted, or a failure |
| Contexts, observability, evals, migrations | none of the game's | projections, telemetry | out of scope (section 8) |

How they interact: an HTTP handler (`async def`) calls `handle_chat`, which
opens `session()` and keeps that one transaction open across every `await`. The
driver is synchronous, so a statement runs (and waits) inside the event loop; the
loop runs another request only where a coroutine awaits a model. Several engine
processes may share one PostgreSQL database at READ COMMITTED. Shared state is
therefore: the committed tables, PostgreSQL's row locks and advisory locks, and
the event loop of each process.

The behaviours that are hard to test: duplicates and retries of a request at
every step of another; a crash or a lost answer around the commit; campaigns
deleted under a running turn; whole-state writes based on an old read; limits
checked long before they are used up; failure paths that commit; locks held
across awaits. `PROJECT.json` lists each at its line.

## 2. Modules

| Module | Models |
| --- | --- |
| `ChatRequests` | the vocabulary: requests, owners, keys, fingerprints, answers |
| `ChatOnce` | abstract: what `POST /api/chat` promises a client that may retry |
| `ChatOrchestrator` | detailed: `handle_chat`, `DELETE /api/campaign/{id}`, the database and the event loops; implements `ChatOnce` |
| `MCChatOrchestrator` | instances for TLC |
| `ChatOrchestratorProofs` | theorems about `ChatOrchestrator` for every value of its constants |
| `QuestLine` | abstract: what the story promises a player |
| `StoryProgression` | detailed: quest records, story signals, completion rewards; implements `QuestLine` |
| `MCStoryProgression` | instances for TLC |
| `StoryProgressionProofs` | theorems about `StoryProgression` for every value of its constants |
| `GameWorld` | the player's tools as operators: names, scopes, items, rooms, routes, abilities, the loading of a state |
| `WorldAuthority` | the Director's five actions as operators, on a `GameWorld` |
| `GameTurn` | the turns of a campaign: a tool, the story signal, the reward, the store, the Director; composes the two above with `StoryProgression` |
| `MCGameTurn` | two small worlds for TLC |
| `GameTurnProofs` | theorems about `GameTurn` for every value of its constants |
| `UserDirectory` | abstract: what resolving an identity promises |
| `Accounts` | detailed: first logins, `POST` and `DELETE` of a campaign, chat turns as use, the limits over the tables; implements `UserDirectory` |
| `MCAccounts` | an instance for TLC: nine scenarios of three requests |
| `AccountsProofs` | theorems about `Accounts` for every value of its constants |
| `UsageProofs` | the limits of `Accounts`: what is overdrawn, for every value of its constants |
| `MemoryLayers` | the memory maintenance of the turns of one campaign, with its failures and its commit |
| `MCMemoryLayers` | an instance for TLC |
| `MemoryLayersProofs` | theorems about `MemoryLayers` for every value of its constants |
| `PlayerAbilities` | abilities from a campaign's creation to their use: generated starters, unlocks, the grounding of a request in the player's words; uses `StoryProgression` |
| `MCPlayerAbilities` | an instance for TLC |
| `PlayerAbilitiesProofs` | theorems about `PlayerAbilities` for every value of its constants |
| `Induction` | lemmas for the proofs: induction up to a number, minimal sets, recursive sums |

Four modules look at the same handler, each from a side of its own.
`ChatOrchestrator` has the interleavings, failures and transactions of a keyed
turn and one token for its effect on the campaign state; `GameTurn` has that
effect, for the turns that commit, one after the other; `Accounts` has what a
turn uses and what the limits make of it, next to the other handlers that
create and delete what is counted; `MemoryLayers` begins where the Narrator
answers, which `ChatOrchestrator` has as one step. The tables that one of them
leaves out are ones the others do not read.

### How `ChatOrchestrator` corresponds to the code

A request `r` is a process; `pc[r]` is where it stands in `handle_chat`. `tx[r]`
is what its transaction has written and not committed (the claim, the campaign
row, turn rows, whether it wrote the state, model-request records, the advisory
lock), so that `Rollback` is dropping it and `Commit` applies it. Row locks are
read off the open transactions: a turn inserted on a campaign share-locks its row
(`Referenced`, `DELETE` waits for it), a state write locks it against other
writes (`UpdateBlocked`), a claim blocks an `INSERT` of the same key
(`InsertBlocked`). `Locked` is `pg_try_advisory_xact_lock` with an arbitrary hash
`LockId`, so collisions are included.

| Action | Code |
| --- | --- |
| `Lookup` | the read of the claim before validation |
| `ValidateRequest`, `CheckTurnLimit` | `validate_chat_request`, `validate_campaign_turn_limit` |
| `Claim`, `ClaimBusy`, `Reread` | `claim_chat_request_idempotency` and `_claim_chat_request` |
| `Load`, `LoadRefused` | the reads of state, turns and memories; integrity failure, daily limit |
| `StarterAnswers`, `StarterFails` | `_build_initial_campaign_state` of an auto-create; the failing path releases the claim and commits |
| `ParserBudgetRefused` | the budget check that commits for an auto-create |
| `OpenTurn`, `OpenTurnFails` | the campaign row, the user turn; the foreign key when the campaign is gone |
| `ParserAnswers`, `ResolveAction` | the parser; tool, story and reward |
| `UpdateState` | `update_campaign_state`, for the player's action and for the Director's |
| `DirectorAnswers`, `NarratorAnswers` | the Director's and the Narrator's calls, the assistant turn |
| `TurnFails` | every exception that rolls the turn back |
| `Finish` | memory layers, completion of the claim, COMMIT, response (which may be lost) |
| `FinishBroken` | a refused statement of the memory layers, whose exception is swallowed: with a key the completion of the claim fails, without one COMMIT is a rollback and the client is told "ok" |
| `Crash` | the process or the connection ends before the commit |
| `DeleteCampaign`, `DeleteProceeds` | the DELETE handler, at once or after waiting |

`Scheduled(r)` is the event loop: a request runs only when no other request of
its instance is between two awaits and no DELETE of the instance is waiting. So a
statement that waits for a lock stops its whole instance, which is what a
synchronous driver does in a coroutine.

The campaign state JSON is abstracted to the set of turns whose effects it holds
(`effects`, `seen`): a write replaces it by what the request read plus itself.
That is all the properties of this module tell apart; what the rules do to the
state is the subject of `GameTurn`. History variables (`base`,
`executed`, `wrote`) record what the properties need and no action reads them.

What is folded: the daily request and token limits and integrity failures are
refusals that may happen (`LoadRefused`, `TurnFails`, `ParserBudgetRefused`), an
archived campaign is not modelled (no code sets the flag). Memory maintenance is
part of `Finish` and has no effect on these tables, unless PostgreSQL refuses one of
its statements: that breaks the transaction (`FinishBroken`), and an unkeyed client
may be told of a turn that is not stored. `ChatOnce` therefore has `TellUnstored`, for
messages without a key only. How maintenance comes to that, and that nothing else
makes an "ok" untrue, is the subject of `MemoryLayers`. Events have no effect on
these tables either.
`complete_chat_request_idempotency` raises when the claim is not its own; the
guard of `Finish` says so, and `KeyInv` shows that it always holds. SQLite, the
single-user development backend, is not modelled.

### How `StoryProgression` corresponds to the code

`story` is the `story.quests` namespace of the campaign state as it is stored,
`player` what the `player` namespace holds of claims, track points and unlocked
abilities. The operators have the names of the functions and, like them, take and
return these namespaces, so that a whole turn can be composed from them.

| Definition | Code |
| --- | --- |
| `DefinitionsAssumption`, `RewardAssumption` | `validate_story_definitions`, `validate_progression_reward_definitions`: run at import, so what they reject is never loaded |
| `NormalizeQuestProgress`, `DeriveQuestStatus`, `ScanAccepts`, `EnsureStoryState` | `_normalize_quest_progress`, `_derive_quest_status`, `ensure_story_state` |
| `ApplyStorySignal`, `Advance` | `apply_story_signal` |
| `ApplyQuestCompletionRewards`, `ProvesCompletion`, `Claimable`, `Rewarded`, `GrantProgress` | `apply_quest_completion_rewards` and what it calls |
| `Turn` | the story part of `handle_chat`: signal, reward, status 500 when the reward fails, one write |
| `Outdate` | the environment: a stored record that does not fit its quest (below) |

An objective is its place in its quest, a signal the pair of its type and value.
Normalising happens on each read, never in the store, so `story` may hold a
record that does not fit. Two things put one there: the campaign is new and has no
story namespace (`Malformed`), or the definitions of the quest changed after the
record was written (`Outdate`; `OldSave` says which records do not fit). A completion
that was written under other definitions and happens to fit these cannot be told from
one of play, by the code or here, and is not in `OldSave`. A claim list
may be damaged from the start, a case `read_reward_claims` treats on its own: the
reward then fails, the turn ends with status 500 and is rolled back, and the quest
can never be completed. Damaged points read as zero at the next grant
(`_normalize_progression`; only the read-only routes refuse them,
`load_strict_campaign_state_for_read`); they are not modelled.

### How `GameWorld`, `WorldAuthority` and `GameTurn` correspond to the code

A world is a record of the namespaces of the campaign state: the player's room,
the place of each item (a room, the inventory, or `Absent`), the inventory list, what
is open and lit, the NPCs, the clock, facts and clues. `saved` is the world as it
is stored, which `Load` (`load_authoritative_campaign_state`) turns into the one
every reader sees: missing default items put where they start, names of an old
inventory list turned into places, the list rewritten from the places. `story`,
`player` and `reported` are the variables of `StoryProgression`.

| Definition | Code |
| --- | --- |
| `FreshWorlds`, `Defaulted`, `Migrated`, `Synced`, `Load` | `build_fresh_campaign_state`, `ensure_items_state`, `_migrate_legacy_inventory`, `sync_inventory_projection`, `load_authoritative_campaign_state` |
| `MovePlayer`, `TalkToNpc`, `TakeItem`, `DropItem`, `Interact`, `Use`, `Wait` | the tools of `ToolExecutor`, each with its refusals; the signal is `derive_story_signal`'s |
| `ItemInScope` | `_resolve_item_in_scope`, with its search of the whole world when nothing in scope fits |
| `Retrieve`, `ToggleByAbility`, `Traverse`, `Compatible` | `_resolve_generated_ability_effect`, `resolve_local_route`, `validate_route_capability` |
| `MoveNpc`, `SetNpcStatus`, `AdvanceClock`, `RecordFact`, `RevealClue`, `ListRevealableClues` | `WorldAuthorityExecutor`, `list_revealable_clues` |
| `PlayTurn`, `StateChanged`, `Directed` | `handle_chat` between the parser and the Narrator, with `_run_director_step` |
| `Move`, `Talk`, `TakeAnItem`, `DropAnItem`, `HandleItem`, `Pass`, `Invoke`, `Other` | the branches of `ToolExecutor.execute` |

A tool's result is a record of the world it leaves and the signal that follows, so
that a refusal (`Refused`) is one thing whatever its message. What a player
says is a name, and whether a name fits a room, item or character is a set
(`RoomNames`, `ItemNames`, `NpcNames`); how text is normalised to a name is part of
those sets. `Other` stands for what leaves the world alone: observing, sensing, a
plain attack or check, an action the parser is unsure of. A turn that fails is rolled
back (`ChatOrchestrator`) and is no step here, except for a failed reward, which
`StoryProgression` has as a turn without effect.

The one tool that a remote server may have (`Wait`) goes through the registry
(`Executed`): the server's answer with a state, its answer without one, which
changes nothing, or the local tool after a failure.

Abstracted or left out: item quantities, namespaces of
the wrong JSON shape, a player stored to be outside every room. The starter
abilities need no points and are always available; whether a generated ability
is owned and switched on is a check before the effect and part of `Power`. A
save without NPCs is not given the default ones on load, unlike items; the worlds
modelled have theirs.

### How `Accounts` corresponds to the code

A request `r` asks `want[r]`: a login of an identity, or a creation, a turn or a
deletion in a user's name. It stands at `pc[r]`; `tx[r]` is what its transaction
has written and not committed (its user row, its turn and events, its calls'
records). What it creates has its name, so that an id is never given twice,
which is what a UUID and a sequence do. `users`, `live`, `rows` and `calls` are
the committed tables internal_users, campaigns, turns with game_events, and
model_requests.

| Action | Code |
| --- | --- |
| `LookUp`, `Insert`, `Reread`, `SignedIn` | `resolve_internal_user` and `_insert_internal_user`: the read, the `INSERT` in a savepoint that waits for another transaction's and fails once that is committed, the retry, the read after it, the profile and the commit |
| `Authenticate` | `require_authenticated_user_context` |
| `MakeRoom`, `Find`, `DailyLimit` | `_validate_campaign_creation`; the ownership check of `validate_chat_request` with `validate_campaign_turn_limit`; `validate_daily_request_limit` |
| `Ask`, `AskRefused` | `_check_model_call_budget` before each call; with a play's first, the user's turn |
| `Answered`, `CallFails` | the provider's answer and its record; every failure that rolls back |
| `StarterFails` | the starter call of `create_campaign`: the handler returns an error by a normal exit, so that the record alone is committed |
| `Write` | the campaign with its opening, or the assistant turn and its event; COMMIT |
| `Delete` | the `DELETE` with its owner in the statement, waiting for turns that hold the row, and the cascade |
| `Crash`, `Midnight` | the process ends; the UTC date changes |

A statement reads what is committed then (READ COMMITTED) and its own: `Visible`.
Limits are checked before an await and what they limit is committed long after,
so `knew` (history, no action reads it) records what each use knew of the others
when it was checked: `OverdrawnOnlyByOverlap` says that this is the only way past
a limit, which a cap like the documented "campaigns at 20 turns" (`docs/project-status.md`)
does not mention. A chat turn is three calls here, parser, Director and Narrator; the
memory agents' calls are made and counted in the same way and are left to
`MemoryLayers`. An auto-create by a first chat message is `ChatOrchestrator`'s. The
event loop is not modelled here: it only removes behaviours, and what waits for a
lock in it is finding 1.

### How `MemoryLayers` corresponds to the code

A request is a turn of one campaign from the Narrator's answer on. `tx[r]` is its
reply's `created_at`, the kinds of memory it left, its summary's `created_at`, what that
summary is made from and the layers whose call is recorded; `stored` is the
requests whose transaction is committed. Times come from one increasing clock.

| Action | Code |
| --- | --- |
| `Narrate`, `NarratorFails` | the Narrator's call, the assistant turn, `maybe_store_semantic_memories` |
| `Due` | `should_update_summary`, `should_reflect_memory`: a count of the campaign's turns, committed and its own |
| `Refused` | the budget check of a memory agent, whose exception ends the maintenance |
| `Ask` | the latest summary read for the summarizer |
| `Summarized`, `Reflected`, `CallFails` | the agents' calls, what is stored of them and their records |
| `StatementFails` | PostgreSQL refuses a statement of the maintenance; the exception is swallowed, the transaction is broken |
| `Finish` | `complete_chat_request_idempotency` if there is a key, and COMMIT, which of a broken transaction is a rollback without an error |
| `Crash` | the process or the connection dies |

What a summary says is the set of turns it is made from: the turns the agent is
shown (`Window`) and what the summary before it was made from. `Deed` stands for what
the parser and the tool made of the message, which is all that decides which
memories a turn leaves. `saw` (history) is the turns a request counted.

### How `PlayerAbilities` corresponds to the code

`starters` is `player.generated_abilities` as it is stored, `<<>>` for a campaign
older than the field; `story`, `player` and `reported` are the variables of
`StoryProgression`, whose rewards unlock the built-in abilities. `asked` (history)
is the last ability request and what became of it.

| Definition | Code |
| --- | --- |
| `ValidateGenerated`, `NewStarters`, `ValidateStarters` | `validate_generated_ability_definition`, `validate_starter_ability_definitions`; the second is what only new starters have to meet |
| `Init` | `_build_initial_campaign_state`, or a save of an earlier release |
| `Loads` | `generated_ability_definitions`: what is not valid is an error 500 of every turn |
| `Owned`, `Enough`, `Available` | `evaluate_ability_availability`, `project_owned_abilities` |
| `Resolve`, `ResolveCheck` | `resolve_gameplay_ability_check` up to the effect, `resolve_ability_check` |
| `Spans`, `Qualified`, `Grounded`, `UniqueReferences`, `Occurrences`, `Accepts` | `_validate_model_ability_request` of the action parser and its helpers |
| `Play`, `Ask`, `Tells` | a turn of `handle_chat` without and with an ability request; the story signal of an ability |

A text, a name and an id are sequences of words. `normalize_identifier` makes case,
punctuation and runs of blanks alike, which a word abstracts from, and takes one
article off the front, which it does not: an article counts in the comparison of
names and not in that of references, and a reference that is normalised twice
(`Spans` of a reference) may lose two. Texts are written with blanks: a hyphen between words
makes them one token to `_grounded_player_phrase`, which is left out. The model's
answer is arbitrary (`Output`), so that only the parser stands between it and the executor. A
`Scene` is a room and the references of the items in reach and of the crossings
there; which of them a name resolves to, and the effect, is `GameWorld`'s, of
which only the story signal is kept. A refused request ends the turn with 422,
which rolls it back, or, when the reference is ambiguous, in a turn without effect.

## 3. Runs

| Run | Instance | Shows |
| --- | --- | --- |
| `turns` (`ChatTurns.cfg`) | any 3 of 7 messages at once: on one campaign, under a key or without; creating their campaign; the same key with another body or from another user; another user's campaign; a bad body. Each in its own process; DELETE from a fourth | `TypeOK`, `KeyInv`, `OneTurnPerKey`, `ClaimNamesTurn`, `LostOnlyToOverlap`, `TurnsWhole`, `NoStillbornCampaign`, `WaitsEnd`, `RefusalLeavesNoTrace`, refinement `ImplementsOnce` |
| `liveness` (`ChatLiveness.cfg`) | any 2 of all these messages, one request per event loop, fairness | `StepsAdvance`, `EveryRequestAnswered` |
| `story` (`Story.cfg`) | 3 quests (of three, one and no objectives), 5 signals, 2 rewards that together pass the cap on a track, claims intact or damaged, 33 records that do not fit | `TypeOK`, `CompletedIsRewarded`, `PointsAreEarned`, `NothingTakenBack`, refinement `ImplementsQuestLine` |
| `quest` (`Quest.cfg`) | the authored quest: 3 rooms in a row, the ghost, the book, the clue; a Director who moves and hides the ghost, advances the clock, records facts, reveals the clue | `TypeOK`, `QuestNeverStranded`, `StoryFollowsWorld`, `CluesAreDue`, refinement `ImplementsStory` |
| `gear` (`Gear.cfg`) | 4 items whose names overlap, 5 old saves, items used on items, abilities, two routes to a room with another way back | `ThingsStayPut` |
| `accounts` (`Accounts.cfg`) | 3 requests of 2 members and a newcomer, in 9 scenarios; 3 campaigns, 1 turn in a campaign and 1 daily turn allowed, 6 tokens a user, 8 tokens and 5 calls a day in all; one midnight | `TypeOK`, `SignInSucceeds`, `RowsWhole`, `OverdrawnOnlyByOverlap`, `SpendingIsKept`, `TenantsApart`, refinement `ImplementsDirectory` |
| `memory` (`Memory.cfg`) | 3 turns at once, one with a key, of a campaign that had 1 or 5; summaries every 2, reflections every 3 turns | `TypeOK`, `AnsweredIsStored`, `MaintenanceIsFree`, `DueIsTried`, `ForgottenOnlyByOverlap` |
| `abilities` (`Abilities.cfg`) | 2 built-in abilities, one of which a quest of one objective unlocks; every valid pair of 6 generated definitions, 2 old saves, an old campaign without; 2 rooms, 11 texts, 28 model answers | `TypeOK`, `OwnedIsAvailable`, `AvailableCanBeInvoked`, `AcceptedIsCarriedOut`, `WordsKeepTheirMeaning` |
| `ability_target` (`AbilityTarget.cfg`) | the same without old saves | violated: one word is part of the ability's id and its target (finding 4) |
| `one_loop` (`OneLoop.cfg`) | 2 turns on one campaign in one process | violated: the process stops (finding 1) |
| `replay_limit` (`ReplayLimit.cfg`) | a request and its retry, limit 1 | violated: the retry is refused (finding 2) |
| `call_audit` (`CallAudit.cfg`) | a turn that fails after a call | violated: the call is not counted (finding 3) |

Bounds. Three requests are the least at which a duplicate, the original and a
request that interferes with both (another body under the key, or an unkeyed
turn on the same campaign) overlap; the limits (`MaxTurns`, `MaxCampaigns`) are
one to two so that they are reached. One advisory lock id makes every pair of
keys collide. Processes are apart in the safety runs, since that interleaves
most: sharing a loop only removes behaviours. Nothing else is unbounded:
a request takes at most one pass through `handle_chat`. In `liveness` two
requests suffice for a wait on each of the locks; the instance that serves
DELETE serves no chat request there.
`WaitsEnd` and `StepsAdvance` are the safety in `EveryRequestAnswered`: whoever is not answered
can go on or waits for one who can, and each step leads on. `WaitsEnd` is checked in
`turns`, as a line of waiters takes three requests; its premise `OwnLoops` is what
`one_loop` breaks.

In `story` quest `q1` has the objectives of the authored quest; a second quest is
needed for two rewards to meet on a track and pass the cap, the third has no
objectives, the one case in which a record reads as inactive. The records that do
not fit are every completion its objectives do not spell, objectives out of line, an
unknown status and a record of a shorter quest. Nothing is bounded: the state is
finite. `reported` is a history variable: it ties a step of `QuestLine` to the
signal of the turn, so that only `Outdate` may start a quest over.

In `quest` rooms in a row make the ghost reach every room and the player be apart
from it; one fact and one tick are enough to reach both limits (`MaxFacts`,
`MaxTick`: the model's bound on the clock), and the proposals include one beyond each limit
the executor checks (eleven ticks, a room that is not there). In `gear` the clock stands
still and the Director is silent: what it may do to items is nothing, as
`GameTurnProofs` shows for every proposal. Two items share the name "book", two the
name "light", so that every resolution can fit none, one or two; one of the
first pair cannot be taken (the journal there stands for the statue of the code);
the old saves are without items or with a list that contradicts the places.

`QuestNeverStranded` asks of every reachable state whether the player alone can still
report the next objective, all NPCs being present: that the Director lets them be
is not the code's to promise. The search (`WorldsWithin`) ends after as many turns as it takes
to walk a connected map, one less than it has rooms; an objective that takes longer would
be stranded.

In `accounts` the scenarios are what three requests can do to one another: three
first logins of one identity, or two and a login of an old user; a user who is
created, creates and is refused a deletion before the creation is committed; two
creations for one free place, with the deletion that makes another; a creation, the
turn on it and its deletion; two turns, on one campaign or on two, and a deletion; a turn, a creation and a
deletion of different owners; a turn on another's campaign. A call is one token if it
is reported and two by estimate, a creation and a turn are three calls each, so
that six tokens are used up by two requests of one user, five calls and eight tokens by two
requests of different users, with the last call on either side of each limit.
One midnight suffices: nothing relates days further apart. It separates the two limits on
turns: a second turn on the next day is within the daily limit and over the cap of its
campaign, unless it is on another.

In `memory` three turns are the least at which one counts past a multiple that two
others missed, and the least at which a summary is built on another while a third
is made without it. `Before` puts the first due summary at the campaign's second
turn, or its sixth, where reflection is due as well. The two requests without a key are
symmetric (their tools do the same), which no property distinguishes.

In `abilities` a definition is one that is accepted with some partner, or one that each
rule for new starters refuses (the words of a built-in ability behind an article, a
name of taxonomy words, a mechanic without `nearby`, points it would need). Names
meet an item in one room, a crossing in the other, each other in an old save, and the
built-in ability that is unlocked later in the other. The texts name abilities plainly, beside
the word "ability" on either side, with and without a target, and with a target
that overlaps the name. One quest of one objective gives the reward its two times, before and
after.

Fairness (`FairSpec`): weak fairness of each request's steps and of a DELETE
whose lock is free. The code justifies it: model calls carry a timeout of 15 or
20 s, asyncio resumes whoever is ready, PostgreSQL grants a lock when its holder
ends. `Crash` is not fair: nothing relies on it. Deadlock is checked in every
run; `Idle` is the state in which every request has been answered.

## 4. Findings

1. *One event loop stops for good.* `handle_chat` holds the campaign's row lock
   from `update_campaign_state` across the Director's and the Narrator's awaits. A
   second turn on that campaign in the same process (two tabs, or an unkeyed
   retry) runs its `UPDATE` synchronously and the loop waits in the driver for a
   transaction that only this loop can end. A `DELETE` of the campaign during a
   turn does the same. The repository's own rule is to "avoid blocking operations
   in async request paths".
2. *Replay and limits.* A retry that looked up its claim just before its original
   committed is told `campaign_turn_limit`, although replays bypass limits.
3. *Counted calls.* The record of a model call is rolled back with a failing turn.
4. *One word for two.* Grounding is "pairing it with a non-overlapping player-supplied
   target rather than conflating invocation and target vocabulary"
   (`docs/project-status.md`). When an ability's display name is part of its id
   (`recall_object`, shown as "Recall"), "recall object" grounds the ability by its
   name and leaves the id's other word to be its target, "object".
   `test_ability_reference_span_cannot_also_ground_target`
   (`tests/test_action_parser.py`) expects such a request to be refused, of an
   ability whose name and id are the same words.

## 5. Proofs

`ChatOrchestratorProofs` proves, for any number of requests, owners, keys,
campaigns and instances, any messages, limits and any hash of keys to locks:

| Theorem | Statement |
| --- | --- |
| `TypeCorrect` | `Spec => []TypeOK` |
| `KeysAgree` | `Spec => []KeyInv` |
| `AtMostOneTurnPerKey` | `Spec => []OneTurnPerKey` |
| `TurnsStayWhole` | `Spec => []TurnsWhole` |
| `ClaimsNameTurns` | `Spec => []ClaimNamesTurn` |
| `CampaignsComeWithTheirMessage` | `Spec => []NoStillbornCampaign` |
| `ChangesSurvive` | `Spec => []LostOnlyToOverlap` |
| `RefusalsLeaveNoTrace` | `Spec => RefusalLeavesNoTrace` |
| `Refinement` | `Spec => ImplementsOnce`: the handler implements `ChatOnce` |
| `WaitsAlwaysEnd` | `Spec => []WaitsEnd` |
| `RequestsAdvance` | `Spec => StepsAdvance` |

Assumptions: `MessageAssumption` and `ConfigAssumption` (the constants have the
shapes their comments say, the null values are not members of the sets they
extend). Both are evaluated by TLC in every run.

The argument. `OneTurnPerKey` is not inductive: that two committed turns of a key
are one follows from the committed claim naming it, which follows from nobody
being able to finish without its own open claim, which follows from the advisory
lock. `KeyInv` states this chain (who runs a keyed turn holds lock and claim, no
claim of the key is committed, two lock holders never share a lock id, committed
claims and committed turns are in bijection), and `PhaseInv` adds what the program
counter implies (an unopened turn has written nothing, a finishing one has both
rows, an answered request is done). `IInv` is their conjunction with `TypeOK`.
The proof classifies every action once (`StepShapes`): a step moves the request
on, takes the claim, gives up, or finishes; each shape preserves `IInv`
(`AdvancesKeeps`, `TakesClaimKeeps`, `GivesUpKeeps`, `FinishKeeps`,
`DeleteKeeps`) and maps to a stutter, to `Refuse`, `Replay` or `TellUnstored`, or to
`Execute` of `ChatOnce` (`OnceStutters`, `OnceRefuses`, `OnceReplays`,
`OnceTellsUnstored`, `OnceExecutes`).

What is stored rests on two more invariants. `GameInv`: the campaign of an open turn
is locked by it or known only to its own transaction, so a `DELETE` takes whole
exchanges or waits; a committed turn has both rows while its campaign lives; an
implicitly created campaign is there because its turn was committed. `OverlapInv`
is about `LostOnlyToOverlap`, which by itself says too little of turns that are
under way: the state that is stored, and the one each open turn works on, `Covers`
every change committed before it was read, that is, contains the change or one by
a request that had read the campaign before it. Committing keeps this because what
was not seen when the state was read is an overlap. That a refusal leaves no trace is
that giving up, by rollback or by the commit of an empty transaction, touches none
of the tables (`GivesUpChanges`).

Of liveness the safety half is proved. A request waits in three places: for its event loop, for
the key of its claim, for the row of its campaign. Where loops are not shared (`OwnLoops`)
the first is its own; the second never keeps it, as an open claim goes with the
advisory lock, which is tried and not waited for (`DuplicatesNeverWait`); the third has one holder
(`WriterInv`, `OneWriter`: only `UpdateState` makes a writer, and only when there is none), who
is at work and waits for no other. So `WaitsEnd` excludes circles and lines of waiters at once. And
every step of a request leads to a later label (`StepAdvances`), so there are finitely many. What is
missing to `EveryRequestAnswered` is that the step of who can go on is `ENABLED`, and the rule of
weak fairness.

`StoryProgressionProofs` proves, for any quests, signals, rewards, tracks and
any set of records that do not fit:

| Theorem | Statement |
| --- | --- |
| `TypeCorrect` | `Spec => []TypeOK`, which bounds the points |
| `CompletedQuestsAreRewarded` | `Spec => []CompletedIsRewarded` |
| `RewardsAreKept` | `Spec => NothingTakenBack` |
| `ImplementsTheQuestLine` | `Spec => ImplementsQuestLine` |
| `PointsComeFromRewards` | `Spec => []PointsAreEarned` |

Assumptions: `DefinitionsAssumption` and `RewardAssumption`, the checks the code
makes when it is imported, and that a record that does not fit is not one that play
reaches. The argument: a record is kept only if the scan of its objectives spells
its status, and the scan forces them into line (`KeptIsReached`), so whatever is
stored reads as `ReachedProgress(q, k)` for one `k` (`ReadsAsReached`,
`ReachedIsInjective`). A turn takes `k` to `k + 1` for one quest or does nothing
(`SignalPassesOrNot`), and pays when that was the last (`PassedIsPaid`); together
`TurnProgresses`. The invariant is `TypeOK /\ CompletedIsRewarded`, inductive
because a record that does not fit reads as `k = 0`, which is no completion.
`PointsAreEarned` sums what the claimed rewards pay with a recursive function, so
the proof needs an induction over the rewards. That such a function exists and satisfies its
equation (`PrefixSums` of `Induction`) gives that a new claim adds its reward to the sum,
once, as ids differ; capping at each grant comes to the same as capping the sum, as
no grant is negative.

`GameTurnProofs` proves, for any rooms and exits, items and names, characters,
routes, abilities, quests and Directors' proposals:

| Theorem | Statement |
| --- | --- |
| `TypeCorrect` | `Spec => []TypeOK`: with the type, the limit on facts |
| `ItemsStayPut` | `Spec => ThingsStayPut` |
| `CluesComeDue` | `Spec => CluesAreDue` |
| `TellsTheStory` | `Spec => ImplementsStory`: a turn of the whole is a turn of `StoryProgression` |
| `StoryTellsTheWorld` | `Spec => StoryFollowsWorld` |
| `QuestsArePaid` | `Spec => [](Story!CompletedIsRewarded /\ Story!PointsAreEarned)` |
| `TurnsKeepTheQuestLine` | `Spec => Story!ImplementsQuestLine`: the two refinements, put together |
| `QuestsStayInReach` | `Spec => []QuestNeverStranded` |

Assumptions: `WorldAssumption` (exits and routes lead to rooms, an item's id is among
its names, default items start in rooms), `WaysLeadElsewhere` (no exit or route ends
where it starts, which `TraversalRoute` checks of routes and the authored map has of
exits: to "enter" the room one is in would pass an objective without anything coming
about), `TurnAssumption` (what a tool may signal is a signal, an old save has the type) and
`StoryAssumption` (those of `StoryProgression`, which an `INSTANCE` does not check); for
`QuestsStayInReach` alone `ContentAssumption`: there is more than one room, from any rooms but
all of them a way leads to another, and an objective names a room, a character or a portable default item
that some name fits alone. No code checks it; the authored tables have it, and TLC evaluates it for those of the
runs. The argument: loading brings about what `Tidy`
says, the inventory list being the items carried and no default item missing
(`LoadTidies`), and loading a tidy world changes nothing (`TidyIsLoaded`), because
a name in its list is an item's id and so fits that item or several, never another
one alone. Each tool turns a tidy world into a tidy one and moves at most one
item, between room and hands (`Deed`, one lemma per tool); a world action leaves
places and list alone and adds only clues that are due (`ActionKeeps`). So
storing and loading again between the tool, the Director and the next turn is
invisible (`TurnKeeps`). For `StoryFollowsWorld` each `Deed` `Brings` what it signals: the
room that was entered is another one, the character was present, the item was in
the room and is in the player's hands. A signal passes the objective it is for and no
other (`SignalPasses`, from `TurnProgresses` of `StoryProgressionProofs`, of which
`Told` is an instance); a turn that changes the story stores the tool's world, and the
Director moves neither player nor item (`ToldTurnIsStored`). The theorems about the story
hold of whole turns because every turn is one of the story (`TellsTold`).

`QuestNeverStranded` follows from `TypeOK`: in whatever world the play has left, characters are in
rooms and a portable default item is in a room or carried. The rooms reached in n turns of walking
are at least n + 1 of them or all, since a way leads out of any others
(`EveryRoomIsReached`, an induction over the recursive function `WorldsWithin`, whose equation is proved first,
`TurnsReach`); walking moves nothing but the player (`WaysAreGone`). A turn in the right room reports
the objective: a step in from elsewhere, a word, the taking of the item, and if it is carried
already, dropping it is a turn that leaves it to be taken (`CarriedIsDropped`).

`AccountsProofs` proves, for any requests, users, identities and campaigns, any
wishes, any limits, token counts and calendar:

| Theorem | Statement |
| --- | --- |
| `TypeCorrect` | `Spec => []TypeOK` |
| `RowsAreWhole` | `Spec => []RowsWhole` |
| `LoginsSucceed` | `Spec => []SignInSucceeds` |
| `SpendingStays` | `Spec => SpendingIsKept` |
| `TenantsStayApart` | `Spec => TenantsApart` |
| `DirectoryRefinement` | `Spec => ImplementsDirectory`: at READ COMMITTED, with savepoints and a retry, an identity gets one user |

Assumption: `AccountsAssumption` (ids of different kinds differ, members have
different identities, a campaign a request names is an old one or another
request's). The argument: `PhaseInv` says what a request's place means for its
transaction (which rows and records are open, that a play's owner was checked). For
logins (`Resolution`) two open user rows never share an identity, nor an open one
with a committed one, and a request that was refused its `INSERT` twice has a
committed row to read, which is what makes `Reread` find one. For the tables
(`RowsInv`) an open turn keeps its campaign alive through the row lock, so that
no turn is committed onto a deleted campaign. `SpendingIsKept` and `TenantsApart` then follow from a
list of who writes what (`Writers`). The refinement maps `SignedIn` to the abstract
`SignIn` and every other step to a stutter.

`UsageProofs` proves of the same system, for any limits and reported usage:

| Theorem | Statement |
| --- | --- |
| `UsageInvariance` | `Spec => []UsageInv` |
| `OverdraftNeedsOverlap` | `Spec => []OverdrawnOnlyByOverlap` |

It also assumes `SeedsAssumption`: the campaigns there are at the start are finitely
many, and no member has more than `MaxCampaigns` of them (else the limit is passed without
anyone overdrawing it). `OverdrawnOnlyByOverlap` says of the tables that some two uses did not
know of each other; for it to survive the next commit one must know what the open
requests, which will commit theirs, had known. `UsageInv` says it: a check
leaves behind in `knew` what was committed, or the request's own (`KnewInv`, so nobody knew of
what is not finished); of the campaigns, turns and exchanges there are now, an open
request knew fewer than the limit (`RoomInv`: rows go by deletion and come by
requests that it did not know); each call of a request knew exactly the earlier ones
of the same request, and what it knew of today's calls left room for it (`CallsInv`); and the limits
hold of every part of what is there (`LimitsInv`), as a deletion leaves any part. When a
request commits, either it knew all that is there, and then there were fewer than the limit, or
it did not know one of them, which is finished and had not known it either: the
two overlap (`UnknownOverlaps`, `OneMore`). With tokens the last call's own size is not known
when it is asked, so that the call which knew all the others is the `last` in `Fits`
(`LastCall`, `CommitFits`). Midnight empties today's uses. The sum of tokens over a set of records is
an induction over finite sets (`TokensCount`, from `SubsetSums`).

`MemoryLayersProofs` proves, for any number of turns at once, any history, any
intervals and window:

| Theorem | Statement |
| --- | --- |
| `TypeCorrect` | `Spec => []TypeOK` |
| `AnsweredAreStored` | `Spec => []AnsweredIsStored` |
| `MaintenanceStaysFree` | `Spec => MaintenanceIsFree` |
| `DueAreTried` | `Spec => []DueIsTried` |
| `ForgottenByOverlapOnly` | `Spec => []ForgottenOnlyByOverlap` |

Assumption: `MemoryAssumption`. The argument of `DueAreTried`: a turn counts only
stored turns and itself, and with a turn all that one had counted (`OrderInv`). So
of two stored turns that do not overlap one counted the other and strictly more
(`CountsApart`); without overlaps the counts of the n stored turns are n different
numbers from 1 to n, hence all of them (`EveryCountIsMade`), and who counts a multiple tries
the layer before it can be stored (`Trying`). For `ForgottenByOverlapOnly` the
invariant (`BuildInv`) says that no two summaries have one time and that a summary is made from
all that the summaries its turn counted were made from: the latest it reads has,
by the property itself, what the others have (`LatestHasAll`). A turn that is
stored without having counted another overlaps it, as the other was stored before it.

`PlayerAbilitiesProofs` proves, for any abilities, starters, rewards, texts, rooms
and answers of the model:

| Theorem | Statement |
| --- | --- |
| `TypeCorrect` | `Spec => []TypeOK`, with that stored starters load |
| `OwnedAreAvailable` | `Spec => []OwnedIsAvailable` |
| `AcceptedAreCarriedOut` | `Spec => []AcceptedIsCarriedOut` |
| `EveryAbilityHasWords` | `Spec => []AvailableCanBeInvoked` |
| `UnlockingIsHarmless` | `Spec => WordsKeepTheirMeaning` |

Assumption: `AbilityAssumption`: definitions have their types, built-in abilities share no
words, a reward grants the points that what it unlocks takes, and the authored check
asks for no more. Only the types and the legacy saves' validity are checked by
the code; the others are facts of its authored tables, which TLC
evaluates for those of the instance. The argument: an ability that is known
is a definition that was validated (`KnownAreDefinitions`), so that ids are unique
(`IdsDiffer`); starters need no points, points never fall, and a reward brings the
points with the unlock (`TurnGains`, `GainKeeps`), which makes ownership availability and
what is accepted available to the executor (`AvailableResolve`). In a new campaign
no two known abilities share a reference, unlocked or not (`ReferencesDiffer`), so uniqueness
does not depend on which are available (`AllAreUnique`, `WordsStay`); and "ability",
the id and the target, in this order, have an occurrence that is qualified and a phrase
beside it (`PlainWords`, `PlainlyUnderstood`).

`Induction` has what the sums need. A theorem of the library that takes an operator as
the property to prove by induction cannot be instantiated for these provers; one can do without, as
a well-founded order has minimal elements in every set that is not empty: what is to be proved
is then that the set of counterexamples is empty (`IntervalInduction`, `MinimalSet`).

Left to TLC: `EveryRequestAnswered`, since liveness under fairness rests on `ENABLED`, which
these provers do not handle. Every other property of a
passing run is stated by a theorem.

## 6. How the properties are kept honest

An operator named `Bug<Name>`, next to `<Name>`, is a plausible wrong version of
it. No action uses it; each property of a passing run fails when the operator it
is paired with in `PROJECT.json` is replaced by its wrong version.

## 7. Plan

Done: the modules, runs and theorems above. Left, in order of importance:

1. A proof about the abilities in whole turns: `PlayerAbilities` and `GameTurn` both have
   the turns of `StoryProgression`, and what is accepted by the one is the `Power` of
   the other.
2. One module of `ChatOrchestrator`, `Accounts` and `MemoryLayers` together, so that
   the limits, the claims and what the memory layers store are seen at once
   (`ChatOrchestrator` has their broken transactions as one step, `FinishBroken`); its state space is out of TLC's reach unless each is coarser.

## 8. Not modelled

Prompts, provider I/O, the quality of model output, its parsing other than that of
ability requests (`PlayerAbilities`), what an ability senses, and the two context projections:
text in, text out. Observability, evals, migrations and CI: no
state of the service. Authentication of the internal token: a check at the door.
Read-only routes: they see one committed state each. What a remote tool server
does besides returning a state (`Executed` of `GameWorld` has what the engine makes of
its answer, and of its absence): another program's. What a provider bills beyond the
usage it reports: not observable in the code. SQLite, the single-user development
backend. Characters: no code writes them.
