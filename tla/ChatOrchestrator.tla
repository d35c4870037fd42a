-------------------------- MODULE ChatOrchestrator --------------------------
(***************************************************************************)
(* ChatOrchestrator.handle_chat, run by any number of engine instances     *)
(* against one PostgreSQL database (READ COMMITTED).  A request is a       *)
(* process that walks through one transaction; between any two of its      *)
(* steps the requests of other instances run, and wherever it awaits those  *)
(* of its own, so everything it has read may be stale.                     *)
(* Committed tables are variables; what a transaction has written and not  *)
(* committed is its tx record, and its row locks follow from that record.  *)
(* An operator named Bug<Name> is a plausible wrong <Name>: no action uses  *)
(* it, each serves to see a property fail.                                 *)
(***************************************************************************)
EXTENDS ChatRequests, FiniteSets, Naturals

CONSTANTS SeedOwner,    \* [Campaign -> Owner], owners of the seed campaigns
          Lock, LockId, \* advisory lock ids and [Slot -> Lock]: a hash
          Instance,     \* engine processes, each with one event loop
          HomeOf,       \* [Request -> Instance], where a request is served
          DeleteOn,     \* the instances that serve DELETE requests
          MaxTurns,     \* MAX_TURNS_PER_CAMPAIGN
          MaxCampaigns  \* MAX_CAMPAIGNS_PER_PLAYER

ASSUME ConfigAssumption == /\ SeedOwner \in [Campaign -> Owner]
                           /\ LockId \in [Slot -> Lock]
                           /\ HomeOf \in [Request -> Instance]
                           /\ DeleteOn \subseteq Instance
                           /\ NoCampaign \notin Request
                           /\ MaxTurns \in Nat
                           /\ MaxCampaigns \in Nat
                           /\ Campaign \cap Request = {}

VARIABLES
  pc,             \* where each request stands in handle_chat
  tx,             \* its open transaction: what it wrote and has not committed
  seen,           \* the campaign state it works from, as a set of turns
  base,           \* history: the turns committed when it read that state
  answer,         \* what its client was told
  deleting,       \* the campaign whose DELETE statement an instance waits in
  claims,         \* table chat_request_idempotency
  live,           \* table campaigns: the rows
  effects,        \* table campaigns: turns whose effects the state JSON holds
  turns,          \* table turns
  modelRequests,  \* table model_requests
  executed,       \* history: requests whose turn was ever committed
  wrote           \* history: those of them that wrote the campaign state

dbVars == <<claims, live, effects, turns, modelRequests, executed, wrote>>
vars == <<msg, pc, tx, seen, base, answer, deleting, dbVars>>

Agent == {"StarterAbilities", "ActionParser", "Director", "Narrator"}
Role == {"user", "assistant"}

\* An auto-created campaign is named by the request that creates it.
CampaignId == Campaign \cup Request
AutoCreates(r) == msg[r].campaign = NoCampaign
Target(r) == IF AutoCreates(r) THEN r ELSE msg[r].campaign
OwnerOf(c) == IF c \in Campaign THEN SeedOwner[c] ELSE msg[c].owner

NoRow == [status |-> "none", fingerprint |-> NoTurn, turn |-> NoTurn]
InProgressRow(r) == [status |-> "in_progress", fingerprint |-> FingerprintOf(r), turn |-> NoTurn]
BugCompletedRow(r) == [status |-> "completed", fingerprint |-> FingerprintOf(r),
                       turn |-> Target(r)]
CompletedRow(r) == [status |-> "completed", fingerprint |-> FingerprintOf(r), turn |-> r]

NoTx == [lock |-> FALSE, claim |-> NoRow, creates |-> FALSE,
         turns |-> {}, writes |-> FALSE, log |-> {}]

Labels == {"lookup", "validate", "limit", "claim", "busy", "load", "starter",
           "budget", "parser", "resolve", "update", "director", "act",
           "narrator", "finish", "done"}

Init == /\ msg \in [Request -> Messages]
        /\ pc = [r \in Request |-> "lookup"]
        /\ tx = [r \in Request |-> NoTx]
        /\ seen = [r \in Request |-> {}]
        /\ base = [r \in Request |-> {}]
        /\ answer = [r \in Request |-> Unanswered]
        /\ deleting = [i \in DeleteOn |-> NoCampaign]
        /\ claims = [s \in Slot |-> NoRow]
        /\ live = Campaign
        /\ effects = [c \in CampaignId |-> {}]
        /\ turns = {}
        /\ modelRequests = {}
        /\ executed = {}
        /\ wrote = {}

-----------------------------------------------------------------------------
(* The event loop, the transactions and the locks PostgreSQL takes for their *)
(* statements.                                                              *)

\* handle_chat lets go of its event loop only where it awaits a model.
Awaits == {"lookup", "starter", "parser", "director", "narrator", "finish", "done"}

\* The loop of an instance runs nothing else: the database driver is
\* synchronous, so a statement that waits for a lock holds up the loop.
LoopFree(i, others) == /\ \A q \in others : HomeOf[q] = i => pc[q] \in Awaits
                       /\ i \in DeleteOn => deleting[i] = NoCampaign
Scheduled(r) == LoopFree(HomeOf[r], Request \ {r})

Goto(r, from, to) == /\ pc[r] = from
                     /\ pc' = [pc EXCEPT ![r] = to]

\* pg_try_advisory_xact_lock: another session holds this request's lock id.
Locked(r) == \E q \in Request \ {r} :
               tx[q].lock /\ Keyed(q) /\ LockId[SlotOf(q)] = LockId[SlotOf(r)]

\* The INSERT of a claim would wait for another session's claim of the same
\* key to be committed or rolled back (primary key).
InsertBlocked(r) == \E q \in Request \ {r} :
                      SlotOf(q) = SlotOf(r) /\ tx[q].claim # NoRow

\* An inserted turn share-locks its campaign row (foreign key), which DELETE
\* waits for...
BugReferenced(c) == FALSE
Referenced(c) == \E q \in Request : Target(q) = c /\ tx[q].turns # {}

\* ...and an UPDATE of the state locks it against every other UPDATE.
BugUpdateBlocked(r) == \E q \in Request \ {r} :
                         Target(q) = Target(r) /\ tx[q].turns # {}
UpdateBlocked(r) == \E q \in Request \ {r} : Target(q) = Target(r) /\ tx[q].writes

Answered(r, a) == /\ pc' = [pc EXCEPT ![r] = "done"]
                  /\ answer' = [answer EXCEPT ![r] = a]
                  /\ tx' = [tx EXCEPT ![r] = NoTx]
                  /\ seen' = [seen EXCEPT ![r] = {}]
                  /\ UNCHANGED <<msg, deleting>>

\* An exception leaves session(): all that the transaction wrote is gone.
Rollback(r, a) == /\ Answered(r, a)
                  /\ base' = [base EXCEPT ![r] = {}]
                  /\ UNCHANGED dbVars

\* The transaction t of r is committed and a is sent.
Commit(r, t, a) ==
  /\ Answered(r, a)
  /\ claims' = IF t.claim = NoRow THEN claims
                                  ELSE [claims EXCEPT ![SlotOf(r)] = t.claim]
  /\ live' = IF t.creates THEN live \cup {r} ELSE live
  /\ effects' = IF t.writes THEN [effects EXCEPT ![Target(r)] = seen[r]]
                            ELSE effects
  /\ turns' = turns \cup ({r} \X t.turns)
  /\ modelRequests' = modelRequests \cup ({r} \X t.log)
  /\ executed' = IF t.turns = {} THEN executed ELSE executed \cup {r}
  /\ wrote' = IF t.writes THEN wrote \cup {r} ELSE wrote
  /\ UNCHANGED base

-----------------------------------------------------------------------------
(* Idempotency.                                                             *)

Conflicts(r, row) == row # NoRow /\ row.fingerprint # FingerprintOf(r)

\* A visible row settles the request without running it: the key was used for
\* another body, or the turn is replayed.
BugAnswerFromRow(r, row) ==
  \/ row.status = "in_progress" /\ Rollback(r, Refusal("conflict"))
  \/ row.status = "completed" /\ Rollback(r, Ok(row.turn))
AnswerFromRow(r, row) ==
  \/ Conflicts(r, row) /\ Rollback(r, Refusal("conflict"))
  \/ /\ row.status = "completed" /\ ~Conflicts(r, row)
     /\ Rollback(r, Ok(row.turn))

\* A claim that is not this request's own: no row to be seen, or an open one.
SettleClaim(r) ==
  LET row == claims[SlotOf(r)]
  IN  \/ AnswerFromRow(r, row)
      \/ /\ row.status # "completed" /\ ~Conflicts(r, row)
         /\ Rollback(r, Refusal("busy"))

\* get_chat_request_idempotency, before any validation.
Lookup(r) ==
  /\ pc[r] = "lookup"
  /\ LET row == IF Keyed(r) THEN claims[SlotOf(r)] ELSE NoRow
     IN  \/ AnswerFromRow(r, row)
         \/ /\ row.status # "completed" /\ ~Conflicts(r, row)
            /\ Goto(r, "lookup", "validate")
            /\ UNCHANGED <<msg, tx, seen, base, answer, deleting, dbVars>>

BugAcquired(r) == [tx[r] EXCEPT !.claim = InProgressRow(r)]
Acquired(r) == [tx[r] EXCEPT !.lock = TRUE, !.claim = InProgressRow(r)]

\* The advisory lock is taken; the INSERT wins unless the row is there.
Claim(r) ==
  /\ pc[r] = "claim"
  /\ ~Locked(r) /\ ~InsertBlocked(r)
  /\ \/ /\ claims[SlotOf(r)] = NoRow
        /\ Goto(r, "claim", "load")
        /\ tx' = [tx EXCEPT ![r] = Acquired(r)]
        /\ UNCHANGED <<msg, seen, base, answer, deleting, dbVars>>
     \/ /\ claims[SlotOf(r)] # NoRow
        /\ SettleClaim(r)

\* The advisory lock is held elsewhere: look at the row again, later.
BugClaimBusy(r) ==
  /\ Goto(r, "claim", "load")
  /\ Locked(r)
  /\ tx' = [tx EXCEPT ![r] = Acquired(r)]
  /\ UNCHANGED <<msg, seen, base, answer, deleting, dbVars>>
ClaimBusy(r) ==
  /\ Goto(r, "claim", "busy")
  /\ Locked(r)
  /\ UNCHANGED <<msg, tx, seen, base, answer, deleting, dbVars>>

BugReread(r) == /\ Goto(r, "busy", "claim")
                /\ UNCHANGED <<msg, tx, seen, base, answer, deleting, dbVars>>
Reread(r) == pc[r] = "busy" /\ SettleClaim(r)

-----------------------------------------------------------------------------
(* Validation.                                                              *)

UserTurns(c) == {r \in Request : <<r, "user">> \in turns /\ Target(r) = c}
Owned(o) == {c \in live : OwnerOf(c) = o}

\* validate_chat_request: the campaign is the caller's, or there is room for
\* one more.
ValidateRequest(r) ==
  /\ pc[r] = "validate"
  /\ \/ /\ msg[r].text \in BadText
        /\ Rollback(r, Refusal("failed"))
     \/ /\ ~AutoCreates(r) /\ Target(r) \notin Owned(msg[r].owner)
        /\ msg[r].text \notin BadText
        /\ Rollback(r, Refusal("notfound"))
     \/ /\ AutoCreates(r) /\ Cardinality(Owned(msg[r].owner)) >= MaxCampaigns
        /\ msg[r].text \notin BadText
        /\ Rollback(r, Refusal("limit"))
     \/ /\ IF AutoCreates(r) THEN Cardinality(Owned(msg[r].owner)) < MaxCampaigns
                             ELSE Target(r) \in Owned(msg[r].owner)
        /\ msg[r].text \notin BadText
        /\ Goto(r, "validate", "limit")
        /\ UNCHANGED <<msg, tx, seen, base, answer, deleting, dbVars>>

\* validate_campaign_turn_limit, a query of its own: it joins campaigns, so a
\* campaign deleted meanwhile counts no turns.
CheckTurnLimit(r) ==
  /\ pc[r] = "limit"
  /\ \/ /\ Cardinality(UserTurns(Target(r))) >= MaxTurns
        /\ Rollback(r, Refusal("limit"))
     \/ /\ Cardinality(UserTurns(Target(r))) < MaxTurns
        /\ Goto(r, "limit", IF Keyed(r) THEN "claim" ELSE "load")
        /\ UNCHANGED <<msg, tx, seen, base, answer, deleting, dbVars>>

\* The state, recent turns and memories the turn works from.  They are read
\* again after this request's own writes, never after anyone else's.
BugLoad(r) ==
  /\ Goto(r, "load", IF AutoCreates(r) THEN "starter" ELSE "budget")
  /\ base' = [base EXCEPT ![r] = executed]
  /\ UNCHANGED <<msg, tx, seen, answer, deleting, dbVars>>
Load(r) ==
  /\ Goto(r, "load", IF AutoCreates(r) THEN "starter" ELSE "budget")
  /\ seen' = [seen EXCEPT ![r] = effects[Target(r)]]
  /\ base' = [base EXCEPT ![r] = executed]
  /\ UNCHANGED <<msg, tx, answer, deleting, dbVars>>

\* The stored state does not load (500), or the daily limit is reached (429).
LoadRefused(r) == pc[r] = "load" /\ Rollback(r, Refusal("failed"))

-----------------------------------------------------------------------------
(* The turn.                                                                *)

Logged(r, agent) == [tx[r] EXCEPT !.log = @ \cup {agent}]

\* release_chat_request_idempotency deletes the claim this transaction made.
BugReleased(t) == t
Released(t) == [t EXCEPT !.claim = NoRow]

BugStarterAnswers(r) ==
  /\ Goto(r, "starter", "budget")
  /\ tx' = [tx EXCEPT ![r] = [Logged(r, "StarterAbilities") EXCEPT !.creates = TRUE]]
  /\ UNCHANGED <<msg, seen, base, answer, deleting, dbVars>>
StarterAnswers(r) ==
  /\ Goto(r, "starter", "budget")
  /\ tx' = [tx EXCEPT ![r] = Logged(r, "StarterAbilities")]
  /\ UNCHANGED <<msg, seen, base, answer, deleting, dbVars>>

\* No starter abilities: the audit row of the call is committed, the claim
\* is released so that the key can be used again.
StarterFails(r) ==
  /\ pc[r] = "starter"
  /\ \E t \in {tx[r], Logged(r, "StarterAbilities")} :
       Commit(r, Released(t), Refusal("failed"))

\* _check_model_call_budget before the parser.
ParserBudgetRefused(r) ==
  /\ pc[r] = "budget"
  /\ \/ AutoCreates(r) /\ Commit(r, Released(tx[r]), Refusal("failed"))
     \/ ~AutoCreates(r) /\ Rollback(r, Refusal("failed"))

\* The campaign row of an auto-create, and the player's turn.
OpenTurn(r) ==
  /\ Goto(r, "budget", "parser")
  /\ AutoCreates(r) \/ Target(r) \in live
  /\ tx' = [tx EXCEPT ![r].creates = AutoCreates(r), ![r].turns = {"user"}]
  /\ UNCHANGED <<msg, seen, base, answer, deleting, dbVars>>

\* The campaign was deleted under the request: the foreign key refuses.
OpenTurnFails(r) ==
  /\ pc[r] = "budget"
  /\ ~AutoCreates(r) /\ Target(r) \notin live
  /\ Rollback(r, Refusal("failed"))

ParserAnswers(r) ==
  /\ Goto(r, "parser", "resolve")
  /\ tx' = [tx EXCEPT ![r] = Logged(r, "ActionParser")]
  /\ UNCHANGED <<msg, seen, base, answer, deleting, dbVars>>

\* Tool, story and reward.  The state of a new campaign is always written.
ResolveAction(r) ==
  /\ \/ Goto(r, "resolve", "update")
     \/ ~AutoCreates(r) /\ Goto(r, "resolve", "director")
  /\ UNCHANGED <<msg, tx, seen, base, answer, deleting, dbVars>>

\* update_campaign_state replaces the whole JSON by the state this request
\* worked out from what it had read, waiting for any other writer to end.
\* First the player's action, then the Director's is written this way.
UpdateState(r) ==
  /\ \/ Goto(r, "update", "director")
     \/ Goto(r, "act", "narrator")
  /\ ~UpdateBlocked(r)
  /\ seen' = [seen EXCEPT ![r] = @ \cup {r}]
  /\ tx' = [tx EXCEPT ![r].writes = TRUE]
  /\ UNCHANGED <<msg, base, answer, deleting, dbVars>>

\* The Director declines, or proposes a world action that changes the state.
DirectorAnswers(r) ==
  /\ \/ Goto(r, "director", "act")
     \/ Goto(r, "director", "narrator")
  /\ tx' = [tx EXCEPT ![r] = Logged(r, "Director")]
  /\ UNCHANGED <<msg, seen, base, answer, deleting, dbVars>>

BugNarratorAnswers(r) ==
  /\ Goto(r, "narrator", "finish")
  /\ tx' = [tx EXCEPT ![r] = Logged(r, "Narrator")]
  /\ UNCHANGED <<msg, seen, base, answer, deleting, dbVars>>
NarratorAnswers(r) ==
  /\ Goto(r, "narrator", "finish")
  /\ tx' = [tx EXCEPT ![r] = [Logged(r, "Narrator") EXCEPT !.turns = Role]]
  /\ UNCHANGED <<msg, seen, base, answer, deleting, dbVars>>

\* A provider fails (502), a budget is refused (429), the parse is invalid
\* (422) or the state does not resolve (500): the whole turn is rolled back.
TurnFails(r) ==
  /\ pc[r] \in {"parser", "resolve", "director", "narrator"}
  /\ Rollback(r, Refusal("failed"))

\* Memory maintenance (without a trace in these tables), the completion of the
\* claim, COMMIT, response; the response may not arrive.
Finish(r) ==
  /\ pc[r] = "finish"
  /\ Keyed(r) => tx[r].claim = InProgressRow(r)
  /\ \E a \in {Ok(r), Refusal("lost")} :
       Commit(r, [tx[r] EXCEPT !.claim = IF Keyed(r) THEN CompletedRow(r) ELSE @], a)

\* PostgreSQL has refused a statement of the memory maintenance and the handler
\* has swallowed the exception: no later statement is accepted.  With a key the
\* completion of the claim fails; without one COMMIT rolls back, unnoticed.
FinishBroken(r) ==
  /\ pc[r] = "finish"
  /\ Rollback(r, IF Keyed(r) THEN Refusal("failed") ELSE Ok(r))

\* The instance or the connection goes away before the commit.
Crash(r) == pc[r] # "done" /\ Rollback(r, Refusal("lost"))

\* DELETE /campaigns/{id}: turns go with the campaign (ON DELETE CASCADE),
\* claims and model requests stay.
Deleted(c) == /\ live' = live \ {c}
              /\ effects' = [effects EXCEPT ![c] = {}]
              /\ turns' = {t \in turns : Target(t[1]) # c}
              /\ UNCHANGED <<msg, pc, tx, seen, base, answer, claims,
                             modelRequests, executed, wrote>>

\* The statement waits, inside the event loop, for open turns on the campaign.
DeleteCampaign(i, c) == /\ c \in live
                        /\ LoopFree(i, Request)
                        /\ \/ /\ ~Referenced(c)
                              /\ Deleted(c)
                              /\ UNCHANGED deleting
                           \/ /\ Referenced(c)
                              /\ deleting' = [deleting EXCEPT ![i] = c]
                              /\ UNCHANGED <<msg, pc, tx, seen, base, answer, dbVars>>

DeleteProceeds(i) == /\ deleting[i] # NoCampaign
                     /\ ~Referenced(deleting[i])
                     /\ Deleted(deleting[i])
                     /\ deleting' = [deleting EXCEPT ![i] = NoCampaign]

\* Every request has been answered; nothing is left to happen.
Idle == (\A r \in Request : pc[r] = "done") /\ UNCHANGED vars

-----------------------------------------------------------------------------
Step(r) ==
  /\ Scheduled(r)
  /\ \/ Lookup(r) \/ ValidateRequest(r) \/ CheckTurnLimit(r)
     \/ Claim(r) \/ ClaimBusy(r) \/ Reread(r) \/ Load(r) \/ LoadRefused(r)
     \/ StarterAnswers(r) \/ StarterFails(r) \/ ParserBudgetRefused(r)
     \/ OpenTurn(r) \/ OpenTurnFails(r) \/ ParserAnswers(r)
     \/ ResolveAction(r) \/ UpdateState(r) \/ DirectorAnswers(r)
     \/ NarratorAnswers(r) \/ TurnFails(r) \/ Finish(r) \/ FinishBroken(r)

Next == \/ \E r \in Request : Step(r) \/ Crash(r)
        \/ \E i \in DeleteOn :
             DeleteProceeds(i) \/ \E c \in CampaignId : DeleteCampaign(i, c)
        \/ Idle

Spec == Init /\ [][Next]_vars

\* The engine keeps running a request whose event loop is free: a model call
\* ends (each has a timeout), a lock is given up when its holder ends.
FairSpec == /\ Spec
            /\ \A r \in Request : WF_vars(Step(r))
            /\ \A i \in DeleteOn : WF_vars(DeleteProceeds(i))

-----------------------------------------------------------------------------
Row == [status : {"none", "in_progress", "completed"},
        fingerprint : Fingerprint \cup {NoTurn}, turn : Request \cup {NoTurn}]
Tx == [lock : BOOLEAN, claim : Row, creates : BOOLEAN, turns : SUBSET Role,
       writes : BOOLEAN, log : SUBSET Agent]

\* Every variable keeps its type.
TypeOK == /\ msg \in [Request -> Messages]
          /\ pc \in [Request -> Labels]
          /\ tx \in [Request -> Tx]
          /\ seen \in [Request -> SUBSET Request]
          /\ base \in [Request -> SUBSET Request]
          /\ answer \in [Request -> Answer]
          /\ deleting \in [DeleteOn -> CampaignId \cup {NoCampaign}]
          /\ claims \in [Slot -> Row]
          /\ live \subseteq CampaignId
          /\ effects \in [CampaignId -> SUBSET Request]
          /\ turns \subseteq Request \X Role
          /\ modelRequests \subseteq Request \X Agent
          /\ executed \subseteq Request
          /\ wrote \subseteq Request

\* From the claim on, a keyed request holds the lock and the only claim.
Running == {"load", "starter", "budget", "parser", "resolve", "update",
            "director", "act", "narrator", "finish"}

\* Whoever runs a keyed turn holds its advisory lock and its claim, no other
\* open request holds that lock, and no claim of the key is committed; nobody
\* else has a claim.  The committed claims are those of the committed turns.
KeyInv ==
  /\ \A r \in Request :
       IF Keyed(r) /\ pc[r] \in Running
       THEN /\ tx[r].lock
            /\ tx[r].claim = InProgressRow(r)
            /\ claims[SlotOf(r)] = NoRow
       ELSE ~tx[r].lock /\ tx[r].claim = NoRow
  /\ \A r, q \in Request :
       tx[r].lock /\ tx[q].lock /\ r # q => LockId[SlotOf(r)] # LockId[SlotOf(q)]
  /\ \A s \in Slot : \/ claims[s] = NoRow
                     \/ \E t \in executed : /\ Keyed(t) /\ SlotOf(t) = s
                                            /\ claims[s] = CompletedRow(t)
  /\ \A r \in executed : Keyed(r) => claims[SlotOf(r)] = CompletedRow(r)

\* However requests under one key overlap, retry, crash or lose their answer,
\* at most one of them ever has its turn committed.
OneTurnPerKey == \A r, q \in executed :
                   Keyed(r) /\ Keyed(q) /\ SlotOf(r) = SlotOf(q) => r = q

\* A completed claim names a turn that was committed with it and whose two
\* rows are there until the campaign itself is deleted.
ClaimNamesTurn ==
  \A s \in Slot : claims[s].status = "completed" =>
    LET t == claims[s].turn
    IN  /\ t \in executed /\ SlotOf(t) = s /\ FingerprintOf(t) = claims[s].fingerprint
        /\ Target(t) \in live => {t} \X Role \subseteq turns

\* No half turn and no orphan: a turn row belongs to a campaign that exists
\* and comes with the other half of the exchange.
TurnsWhole == \A t \in turns : /\ Target(t[1]) \in live
                               /\ {t[1]} \X Role \subseteq turns

\* A campaign that a message created implicitly is never there without that
\* message: the failing paths that commit do not commit the campaign.
NoStillbornCampaign == \A r \in live \cap Request : <<r, "user">> \in turns

\* A committed change of a campaign's state disappears only under a turn that
\* had read the state before the change was committed: turns played one after
\* another never lose anything.
LostOnlyToOverlap ==
  \A r \in wrote : \/ Target(r) \notin live
                   \/ r \in effects[Target(r)]
                   \/ \E q \in effects[Target(r)] : r \notin base[q]

\* A request that is told of a refusal or a failure has changed no campaign,
\* no turn and no claim: its key is free for the retry.
RefusalLeavesNoTrace ==
  [][\A r \in Request :
       /\ answer[r] = Unanswered
       /\ answer'[r].code \in Code \ {"none", "ok", "lost"}
       => UNCHANGED <<claims, live, effects, turns>>]_vars

\* What the clients see is what ChatOnce promises.
Once == INSTANCE ChatOnce WITH outcome <- [s \in Slot |-> claims[s].turn]
ImplementsOnce == Once!Spec

\* tests/test_chat.py: the replay of a completed request is not subject to the
\* limits that were reached since.
ReplayBypassesLimit ==
  [][\A r \in Request :
       /\ answer[r] = Unanswered /\ answer'[r].code = "limit" /\ Keyed(r)
       => ~(/\ claims[SlotOf(r)].status = "completed"
            /\ claims[SlotOf(r)].fingerprint = FingerprintOf(r))]_vars

\* README.md: project requests count model requests, so that the calls of a
\* request that is answered are in the table.
EveryCallCounted ==
  [][\A r \in Request :
       answer[r] = Unanswered /\ answer'[r].code \notin {"none", "lost"}
       => {r} \X tx[r].log \subseteq modelRequests']_vars

\* What the engine relies on to stop for nobody (the one_loop run has none of
\* it): an event loop for each request, and another for DELETE.
OwnLoops == \A r, q \in Request : /\ HomeOf[r] = HomeOf[q] => r = q
                                  /\ HomeOf[r] \notin DeleteOn

\* Nobody else holds what the next step of r needs: the loop, the key of its
\* INSERT or the row of its UPDATE.
CanGo(r) == /\ pc[r] # "done"
            /\ Scheduled(r)
            /\ pc[r] = "claim" => Locked(r) \/ ~InsertBlocked(r)
            /\ pc[r] \in {"update", "act"} => ~UpdateBlocked(r)
            /\ pc[r] = "finish" /\ Keyed(r) => tx[r].claim = InProgressRow(r)

\* No waiting in circles, nor in line: a request that is not answered can go
\* on, or waits for the writer of its campaign's row, who can.  In particular a
\* duplicate is told to come back and never waits inside its INSERT for the
\* model calls of its original.
WaitsEnd ==
  OwnLoops => \A r \in Request : pc[r] # "done" =>
    \/ CanGo(r)
    \/ /\ pc[r] \in {"update", "act"}
       /\ \E q \in Request \ {r} : Target(q) = Target(r) /\ tx[q].writes /\ CanGo(q)

\* A request never comes back to where it was: with every step it is closer
\* to its answer, however it is refused, retried or overtaken.
Stage == [lookup |-> 1, validate |-> 2, limit |-> 3, claim |-> 4, busy |-> 5, load |-> 6,
          starter |-> 7, budget |-> 8, parser |-> 9, resolve |-> 10, update |-> 11,
          director |-> 12, act |-> 13, narrator |-> 14, finish |-> 15, done |-> 16]
StepsAdvance ==
  [][\A r \in Request : Step(r) \/ pc'[r] # pc[r] => Stage[pc[r]] < Stage[pc'[r]]]_vars

\* Every request is answered: no request waits for ever for a row lock, no
\* duplicate for its original, and no event loop for itself.
EveryRequestAnswered == \A r \in Request : <>(pc[r] = "done")
=============================================================================
