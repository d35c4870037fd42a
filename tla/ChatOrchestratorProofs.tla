----------------------- MODULE ChatOrchestratorProofs -----------------------
(***************************************************************************)
(* Theorems about ChatOrchestrator, for every set of requests, messages,   *)
(* keys and campaigns, every hash of keys to advisory locks and every      *)
(* limit.                                                                  *)
(***************************************************************************)
EXTENDS ChatOrchestrator, TLAPS

-----------------------------------------------------------------------------
(* Types.                                                                   *)

LEMMA RowTypes ==
  ASSUME TypeOK, NEW r \in Request
  PROVE  /\ NoRow \in Row
         /\ InProgressRow(r) \in Row
         /\ CompletedRow(r) \in Row
         /\ NoTx \in Tx
         /\ Target(r) \in CampaignId
         /\ Keyed(r) => SlotOf(r) \in Slot
<1>1. msg[r] \in Message
  BY MessageAssumption DEF TypeOK
<1>2. FingerprintOf(r) \in Fingerprint
  BY <1>1 DEF FingerprintOf, Fingerprint, Message
<1>3. NoRow \in Row /\ InProgressRow(r) \in Row /\ CompletedRow(r) \in Row
  BY <1>2 DEF Row, NoRow, InProgressRow, CompletedRow
<1>4. NoTx \in Tx
  BY <1>3 DEF NoTx, Tx
<1>5. Target(r) \in CampaignId /\ (Keyed(r) => SlotOf(r) \in Slot)
  BY <1>1 DEF Message, Target, AutoCreates, CampaignId, Keyed, SlotOf, Slot
<1> QED  BY <1>3, <1>4, <1>5

\* A rollback keeps the types, whatever the client is told.
LEMMA RollbackTypes ==
  ASSUME TypeOK, NEW r \in Request, NEW a \in Answer, Rollback(r, a)
  PROVE  TypeOK'
<1>1. NoTx \in Tx
  BY RowTypes
<1> QED  BY <1>1 DEF Rollback, Answered, TypeOK, dbVars, Labels

\* So does a commit of a well-formed transaction.
LEMMA CommitTypes ==
  ASSUME TypeOK, NEW r \in Request, NEW t \in Tx, NEW a \in Answer,
         Commit(r, t, a), t.claim # NoRow => Keyed(r)
  PROVE  TypeOK'
<1>1. NoTx \in Tx /\ Target(r) \in CampaignId /\ (Keyed(r) => SlotOf(r) \in Slot)
  BY RowTypes
<1>2. /\ t.claim \in Row
      /\ {r} \X t.turns \subseteq Request \X Role
      /\ {r} \X t.log \subseteq Request \X Agent
  BY DEF Tx
<1>3. /\ msg' \in [Request -> Messages] /\ pc' \in [Request -> Labels]
      /\ tx' \in [Request -> Tx] /\ seen' \in [Request -> SUBSET Request]
      /\ base' \in [Request -> SUBSET Request] /\ answer' \in [Request -> Answer]
      /\ deleting' \in [DeleteOn -> CampaignId \cup {NoCampaign}]
  BY <1>1 DEF Commit, Answered, TypeOK, Labels
<1>4. /\ claims' \in [Slot -> Row]
      /\ effects' \in [CampaignId -> SUBSET Request]
  BY <1>1, <1>2 DEF Commit, TypeOK
<1>5. /\ live' \subseteq CampaignId
      /\ turns' \subseteq Request \X Role
      /\ modelRequests' \subseteq Request \X Agent
      /\ executed' \subseteq Request
      /\ wrote' \subseteq Request
  BY <1>1, <1>2 DEF Commit, TypeOK, CampaignId
<1> QED  BY <1>3, <1>4, <1>5 DEF TypeOK

\* Two transactions have written the same game data.
SameWrites(t, u) == t.turns = u.turns /\ t.creates = u.creates /\ t.writes = u.writes

LEMMA TxTypes ==
  ASSUME TypeOK, NEW r \in Request
  PROVE  /\ tx[r] \in Tx
         /\ \A agent \in Agent :
              /\ Logged(r, agent) \in Tx
              /\ Logged(r, agent).lock = tx[r].lock
              /\ Logged(r, agent).claim = tx[r].claim
              /\ SameWrites(Logged(r, agent), tx[r])
         /\ \A t \in Tx : /\ Released(t) \in Tx
                          /\ Released(t).claim = NoRow
                          /\ SameWrites(Released(t), t)
         /\ Acquired(r) \in Tx
         /\ Acquired(r).lock /\ Acquired(r).claim = InProgressRow(r)
         /\ SameWrites(Acquired(r), tx[r])
<1>1. tx[r] \in Tx
  BY DEF TypeOK
<1>2. NoRow \in Row /\ InProgressRow(r) \in Row
  BY RowTypes
<1>3. \A agent \in Agent : /\ Logged(r, agent) \in Tx
                           /\ Logged(r, agent).lock = tx[r].lock
                           /\ Logged(r, agent).claim = tx[r].claim
                           /\ SameWrites(Logged(r, agent), tx[r])
  BY <1>1 DEF Logged, Tx, SameWrites
<1>4. \A t \in Tx : /\ Released(t) \in Tx
                    /\ Released(t).claim = NoRow
                    /\ SameWrites(Released(t), t)
  BY <1>2 DEF Released, Tx, SameWrites
<1>5. /\ Acquired(r) \in Tx
      /\ Acquired(r).lock /\ Acquired(r).claim = InProgressRow(r)
      /\ SameWrites(Acquired(r), tx[r])
  BY <1>1, <1>2 DEF Acquired, Tx, SameWrites
<1> QED  BY <1>1, <1>3, <1>4, <1>5

-----------------------------------------------------------------------------
(* Where a request stands says what its transaction holds.                  *)

Early == {"lookup", "validate", "limit", "claim", "busy", "load", "starter",
          "budget", "done"}

Unwritten(t) == t.turns = {} /\ ~t.creates /\ ~t.writes

\* Only a keyed request claims; no game data is written before the parser is
\* asked, the player's turn, in a new campaign if that is what the message asks
\* for, is there from then on and both turn rows are at the end; answered is
\* done; nothing has been committed for a request that is still at work.
PhaseInv == \A r \in Request :
  /\ pc[r] \in {"claim", "busy"} => Keyed(r)
  /\ pc[r] \in Early => Unwritten(tx[r])
  /\ pc[r] \notin Early => tx[r].turns # {} /\ tx[r].creates = AutoCreates(r)
  /\ pc[r] = "finish" => tx[r].turns = Role
  /\ pc[r] = "done" <=> answer[r] # Unanswered
  /\ r \in executed => pc[r] = "done"

IInv == TypeOK /\ KeyInv /\ PhaseInv

\* A request has read the state it works from.
Loaded == Running \ {"load"}

\* What a step that moves r on to l does to the state that r works from: it is
\* read, or the change that r makes is added to it, or it stays.
WorksOn(r, l, t) ==
  \/ /\ l \in {"starter", "budget"}
     /\ seen' = [seen EXCEPT ![r] = effects[Target(r)]]
     /\ base' = [base EXCEPT ![r] = executed]
  \/ /\ l \in Loaded => pc[r] \in Loaded
     /\ \/ seen' = [seen EXCEPT ![r] = @ \cup {r}]
        \/ seen' = seen /\ (t.writes => tx[r].writes)
     /\ UNCHANGED base

\* A step that only moves a request forward, to the transaction t.
Advances(r, l, t) ==
  /\ pc[r] # "done"
  /\ l \in Labels \ {"done"}
  /\ t \in Tx
  /\ t.lock = tx[r].lock /\ t.claim = tx[r].claim
  /\ Keyed(r) => (l \in Running <=> pc[r] \in Running)
  /\ l \in {"claim", "busy"} => Keyed(r)
  /\ l \in Early => Unwritten(t)
  /\ l \notin Early => t.turns # {} /\ t.creates = AutoCreates(r)
  /\ l \notin Early /\ pc[r] \in Early => AutoCreates(r) \/ Target(r) \in live
  /\ l = "finish" => t.turns = Role
  /\ pc' = [pc EXCEPT ![r] = l]
  /\ tx' = [tx EXCEPT ![r] = t]
  /\ WorksOn(r, l, t)
  /\ UNCHANGED <<msg, answer, deleting, dbVars>>

\* A step that takes the lock and inserts the claim.
TakesClaim(r) == /\ pc[r] = "claim"
                 /\ ~Locked(r)
                 /\ claims[SlotOf(r)] = NoRow
                 /\ pc' = [pc EXCEPT ![r] = "load"]
                 /\ tx' = [tx EXCEPT ![r] = Acquired(r)]
                 /\ UNCHANGED <<msg, seen, base, answer, deleting, dbVars>>

\* A step that refuses: whatever is committed, no turn and no claim are.
Refuses(r) == \E code \in Code \ {"none", "ok"} :
  \/ Rollback(r, Refusal(code))
  \/ \E t \in Tx : /\ Commit(r, t, Refusal(code))
                   /\ t.turns = {} /\ ~t.creates /\ ~t.writes /\ t.claim = NoRow

\* A step that tells of the turn that the key stands for.
Replays(r) == LET row == claims[SlotOf(r)]
              IN  /\ Keyed(r)
                  /\ row.status = "completed"
                  /\ row.fingerprint = FingerprintOf(r)
                  /\ Rollback(r, Ok(row.turn))

\* A step that tells of a turn and stores nothing.
Unstored(r) == ~Keyed(r) /\ Rollback(r, Ok(r))

GivesUp(r) == Refuses(r) \/ Replays(r) \/ Unstored(r)

LEMMA AnswersAnswer ==
  /\ \A code \in Code \ {"none"} : Refusal(code) \in Answer \ {Unanswered}
  /\ \A t \in Request \cup {NoTurn} : Ok(t) \in Answer \ {Unanswered}
BY DEF Refusal, Ok, Answer, Code, Unanswered

\* A committed row settles a request in one of two ways; no row at all sends it
\* away or lets it pass.
LEMMA RowSettles ==
  ASSUME TypeOK, NEW r \in Request, Keyed(r)
  PROVE  /\ AnswerFromRow(r, claims[SlotOf(r)]) => GivesUp(r)
         /\ SettleClaim(r) => GivesUp(r)
<1>1. claims[SlotOf(r)] \in Row
  BY RowTypes DEF TypeOK
<1>2. NoRow.status # "completed"
  BY DEF NoRow
<1>3. AnswerFromRow(r, claims[SlotOf(r)]) => GivesUp(r)
  BY <1>1, <1>2 DEF AnswerFromRow, Conflicts, GivesUp, Refuses, Replays, Code
<1> QED  BY <1>3 DEF SettleClaim, GivesUp, Refuses, Code

\* Each step of a request has one of four shapes.
LEMMA StepShapes ==
  ASSUME IInv, NEW r \in Request, Step(r)
  PROVE  \/ \E l \in Labels, t \in Tx : Advances(r, l, t)
         \/ TakesClaim(r)
         \/ GivesUp(r)
         \/ Finish(r)
<1> USE DEF IInv
<1>t. /\ tx[r] \in Tx /\ pc[r] \in Labels /\ pc \in [Request -> Labels]
      /\ seen \in [Request -> SUBSET Request] /\ base \in [Request -> SUBSET Request]
  BY TxTypes DEF TypeOK
<1>f. \A code \in Code \ {"none", "ok"} : Rollback(r, Refusal(code)) => GivesUp(r)
  BY DEF GivesUp, Refuses
<1>1. CASE Lookup(r)
  <2>1. CASE UNCHANGED tx /\ Goto(r, "lookup", "validate") /\ UNCHANGED <<msg, seen, base, answer, deleting, dbVars>>
    <3>1. Advances(r, "validate", tx[r])
      BY <1>t, <2>1 DEF Advances, WorksOn, Loaded, Goto, Labels, Running, Early, Unwritten, SameWrites, PhaseInv, TypeOK
    <3> QED  BY <3>1, <1>t DEF Labels
  <2>2. CASE Keyed(r) /\ AnswerFromRow(r, claims[SlotOf(r)])
    BY <2>2, RowSettles
  <2>3. ~AnswerFromRow(r, NoRow)
    BY DEF AnswerFromRow, Conflicts, NoRow
  <2> QED  BY <1>1, <2>1, <2>2, <2>3 DEF Lookup
<1>2. CASE ValidateRequest(r)
  <2>1. CASE Goto(r, "validate", "limit") /\ UNCHANGED <<msg, tx, seen, base, answer, deleting, dbVars>>
    <3>1. Advances(r, "limit", tx[r])
      BY <1>t, <2>1 DEF Advances, WorksOn, Loaded, Goto, Labels, Running, Early, Unwritten, SameWrites, PhaseInv, TypeOK
    <3> QED  BY <3>1, <1>t DEF Labels
  <2> QED  BY <1>2, <2>1, <1>f DEF ValidateRequest, Code
<1>3. CASE CheckTurnLimit(r)
  <2>1. CASE /\ Goto(r, "limit", IF Keyed(r) THEN "claim" ELSE "load")
             /\ UNCHANGED <<msg, tx, seen, base, answer, deleting, dbVars>>
    <3>1. Advances(r, IF Keyed(r) THEN "claim" ELSE "load", tx[r])
      BY <1>t, <2>1 DEF Advances, WorksOn, Loaded, Goto, Labels, Running, Early, Unwritten, SameWrites, PhaseInv, TypeOK
    <3> QED  BY <3>1, <1>t DEF Labels
  <2> QED  BY <1>3, <2>1, <1>f DEF CheckTurnLimit, Code
<1>4. CASE Claim(r)
  <2>1. Keyed(r)
    BY <1>4 DEF Claim, PhaseInv
  <2> QED  BY <1>4, <2>1, RowSettles DEF Claim, TakesClaim, Goto
<1>5. CASE ClaimBusy(r)
  <2>1. Advances(r, "busy", tx[r])
    BY <1>t, <1>5 DEF ClaimBusy, Advances, WorksOn, Loaded, Goto, Labels, Running, Early, Unwritten, SameWrites, PhaseInv, TypeOK
  <2> QED  BY <2>1, <1>t DEF Labels
<1>6. CASE Reread(r)
  BY <1>6, RowSettles DEF Reread, PhaseInv
<1>7. CASE Load(r)
  <2>1. Target(r) \in CampaignId
    BY RowTypes
  <2>2. Advances(r, IF AutoCreates(r) THEN "starter" ELSE "budget", tx[r])
    BY <1>t, <1>7, <2>1 DEF Load, Advances, WorksOn, Loaded, Goto, Labels, Running, Early, Unwritten, SameWrites, PhaseInv, TypeOK
  <2> QED  BY <2>2, <1>t DEF Labels
<1>8. CASE LoadRefused(r)
  BY <1>8, <1>f DEF LoadRefused, Code
<1>9. CASE StarterAnswers(r)
  <2>1. Advances(r, "budget", Logged(r, "StarterAbilities"))
    BY <1>t, <1>9, TxTypes DEF StarterAnswers, Advances, WorksOn, Loaded, Goto, Labels, Agent, Running, Early, Unwritten, SameWrites, PhaseInv, TypeOK
  <2> QED  BY <2>1, TxTypes DEF Labels, Agent
<1>10. CASE StarterFails(r)
  <2>1. PICK t \in {tx[r], Logged(r, "StarterAbilities")} : Commit(r, Released(t), Refusal("failed"))
    BY <1>10 DEF StarterFails
  <2>2. t \in Tx /\ t.turns = {} /\ ~t.creates /\ ~t.writes
    BY <1>10, <1>t, TxTypes DEF StarterFails, Agent, Early, Unwritten, SameWrites, PhaseInv
  <2>3. /\ Released(t) \in Tx /\ Released(t).claim = NoRow
        /\ Released(t).turns = {} /\ ~Released(t).creates /\ ~Released(t).writes
    BY <2>2, TxTypes DEF SameWrites
  <2> QED  BY <2>1, <2>3 DEF GivesUp, Refuses, Code
<1>11. CASE ParserBudgetRefused(r)
  <2> DEFINE t == Released(tx[r])
  <2>1. /\ t \in Tx /\ t.claim = NoRow
        /\ t.turns = {} /\ ~t.creates /\ ~t.writes
    BY <1>11, <1>t, TxTypes DEF ParserBudgetRefused, Early, Unwritten, SameWrites, PhaseInv
  <2> QED  BY <1>11, <2>1, <1>f DEF ParserBudgetRefused, GivesUp, Refuses, Code
<1>12. CASE OpenTurn(r)
  <2> DEFINE t == [tx[r] EXCEPT !.creates = AutoCreates(r), !.turns = {"user"}]
  <2>1. /\ t \in Tx /\ t.lock = tx[r].lock /\ t.claim = tx[r].claim
        /\ tx' = [tx EXCEPT ![r] = t]
        /\ t.turns # {} /\ t.creates = AutoCreates(r) /\ t.writes = tx[r].writes
    BY <1>12, <1>t DEF OpenTurn, Tx, Role, AutoCreates, TypeOK
  <2>2. Advances(r, "parser", t)
    BY <1>t, <1>12, <2>1 DEF OpenTurn, Advances, WorksOn, Loaded, Goto, Labels, Running, Early, Unwritten, SameWrites, PhaseInv, TypeOK
  <2> QED  BY <2>1, <2>2 DEF Labels
<1>13. CASE OpenTurnFails(r)
  BY <1>13, <1>f DEF OpenTurnFails, Code
<1>14. CASE ParserAnswers(r)
  <2>1. Advances(r, "resolve", Logged(r, "ActionParser"))
    BY <1>t, <1>14, TxTypes DEF ParserAnswers, Advances, WorksOn, Loaded, Goto, Labels, Agent, Running, Early, Unwritten, SameWrites, PhaseInv, TypeOK
  <2> QED  BY <2>1, TxTypes DEF Labels, Agent
<1>15. CASE ResolveAction(r)
  <2>1. \E l \in {"update", "director"} : Advances(r, l, tx[r])
    BY <1>t, <1>15 DEF ResolveAction, Advances, WorksOn, Loaded, Goto, Labels, Running, Early, Unwritten, SameWrites, PhaseInv, TypeOK
  <2> QED  BY <2>1, <1>t DEF Labels
<1>16. CASE UpdateState(r)
  <2> DEFINE t == [tx[r] EXCEPT !.writes = TRUE]
  <2>1. /\ t \in Tx /\ t.lock = tx[r].lock /\ t.claim = tx[r].claim
        /\ tx' = [tx EXCEPT ![r] = t]
    BY <1>16, <1>t DEF UpdateState, Tx, TypeOK
  <2>2. \E l \in {"director", "narrator"} : Advances(r, l, t)
    BY <1>t, <1>16, <2>1 DEF UpdateState, Advances, WorksOn, Loaded, Goto, Labels, Running, Early, Unwritten, SameWrites, PhaseInv, TypeOK
  <2> QED  BY <2>1, <2>2 DEF Labels
<1>17. CASE DirectorAnswers(r)
  <2>1. \E l \in {"act", "narrator"} : Advances(r, l, Logged(r, "Director"))
    BY <1>t, <1>17, TxTypes DEF DirectorAnswers, Advances, WorksOn, Loaded, Goto, Labels, Agent, Running, Early, Unwritten, SameWrites, PhaseInv, TypeOK
  <2> QED  BY <2>1, TxTypes DEF Labels, Agent
<1>18. CASE NarratorAnswers(r)
  <2> DEFINE t == [Logged(r, "Narrator") EXCEPT !.turns = Role]
  <2>1. /\ t \in Tx /\ t.lock = tx[r].lock /\ t.claim = tx[r].claim
        /\ t.turns = Role /\ t.creates = tx[r].creates /\ t.writes = tx[r].writes
        /\ Role # {}
    BY TxTypes DEF Tx, Agent, SameWrites, Role
  <2>2. Advances(r, "finish", t)
    BY <1>t, <1>18, <2>1 DEF NarratorAnswers, Advances, WorksOn, Loaded, Goto, Labels, Running, Early, Unwritten, SameWrites, PhaseInv, TypeOK
  <2> QED  BY <2>1, <2>2 DEF Labels
<1>19. CASE TurnFails(r)
  BY <1>19, <1>f DEF TurnFails, Code
<1>20. CASE FinishBroken(r)
  BY <1>20, <1>f DEF FinishBroken, GivesUp, Unstored, Code
<1>21. CASE Finish(r)
  BY <1>21
<1> QED  BY <1>1, <1>2, <1>3, <1>4, <1>5, <1>6, <1>7, <1>8, <1>9, <1>10, <1>11,
           <1>12, <1>13, <1>14, <1>15, <1>16, <1>17, <1>18, <1>19, <1>20, <1>21 DEF Step

-----------------------------------------------------------------------------
(* The inductive invariant, one lemma per shape of step.                    *)

\* What a request asks for never changes, and nothing said about it does.
LEMMA SameMessages ==
  ASSUME UNCHANGED msg
  PROVE  \A q : /\ Keyed(q)' = Keyed(q) /\ SlotOf(q)' = SlotOf(q)
                 /\ InProgressRow(q)' = InProgressRow(q)
                 /\ CompletedRow(q)' = CompletedRow(q)
                 /\ AutoCreates(q)' = AutoCreates(q) /\ Target(q)' = Target(q)
BY DEF Keyed, SlotOf, InProgressRow, CompletedRow, FingerprintOf, AutoCreates, Target

LEMMA AdvancesKeeps ==
  ASSUME IInv, NEW r \in Request, NEW l \in Labels, NEW t \in Tx, Advances(r, l, t)
  PROVE  IInv'
<1> USE DEF IInv
<1>m. UNCHANGED msg
  BY DEF Advances
<1>1. TypeOK'
  <2>1. seen' \in [Request -> SUBSET Request] /\ base' \in [Request -> SUBSET Request]
    BY RowTypes DEF Advances, WorksOn, TypeOK
  <2> QED  BY <2>1 DEF Advances, TypeOK, dbVars
<1>u. /\ pc \in [Request -> Labels] /\ tx \in [Request -> Tx]
      /\ pc' = [pc EXCEPT ![r] = l] /\ tx' = [tx EXCEPT ![r] = t]
      /\ t.lock = tx[r].lock /\ t.claim = tx[r].claim
      /\ Keyed(r) => (l \in Running <=> pc[r] \in Running)
      /\ UNCHANGED <<claims, executed, answer>>
  BY DEF Advances, TypeOK, dbVars
<1>2. KeyInv'
  <2>1. \A q \in Request : /\ tx'[q].lock = tx[q].lock /\ tx'[q].claim = tx[q].claim
                           /\ Keyed(q) => (pc'[q] \in Running <=> pc[q] \in Running)
    BY <1>u
  <2> QED  BY <2>1, <1>u, <1>m, SameMessages DEF KeyInv
<1>3. PhaseInv'
  BY <1>u, <1>m, SameMessages DEF PhaseInv, Advances, Unwritten
<1> QED  BY <1>1, <1>2, <1>3

LEMMA TakesClaimKeeps ==
  ASSUME IInv, NEW r \in Request, TakesClaim(r)
  PROVE  IInv'
<1> USE DEF IInv
<1>m. UNCHANGED msg
  BY DEF TakesClaim
<1>a. /\ Acquired(r) \in Tx /\ Acquired(r).lock /\ Acquired(r).claim = InProgressRow(r)
      /\ SameWrites(Acquired(r), tx[r])
  BY TxTypes
<1>u. /\ pc \in [Request -> Labels] /\ tx \in [Request -> Tx]
      /\ pc[r] = "claim" /\ Keyed(r) /\ claims[SlotOf(r)] = NoRow
      /\ pc' = [pc EXCEPT ![r] = "load"] /\ tx' = [tx EXCEPT ![r] = Acquired(r)]
      /\ UNCHANGED <<claims, executed, answer>>
  BY DEF TakesClaim, TypeOK, PhaseInv, dbVars
<1>1. TypeOK'
  BY <1>a, <1>u DEF TakesClaim, TypeOK, Labels, dbVars
<1>2. KeyInv'
  <2>1. \A q \in Request : Keyed(q) /\ pc'[q] \in Running
          => tx'[q].lock /\ tx'[q].claim = InProgressRow(q) /\ claims[SlotOf(q)] = NoRow
    BY <1>u, <1>a DEF KeyInv, Running
  <2>2. \A q \in Request : ~(Keyed(q) /\ pc'[q] \in Running)
          => ~tx'[q].lock /\ tx'[q].claim = NoRow
    BY <1>u, <1>a DEF KeyInv, Running
  <2>3. \A q \in Request : tx[q].lock => Keyed(q)
    BY DEF KeyInv
  <2>4. \A q \in Request \ {r} : tx[q].lock => LockId[SlotOf(q)] # LockId[SlotOf(r)]
    BY <2>3 DEF TakesClaim, Locked
  <2>5. \A p, q \in Request : tx'[p].lock /\ tx'[q].lock /\ p # q
                              => LockId[SlotOf(p)] # LockId[SlotOf(q)]
    BY <2>4, <1>u DEF KeyInv
  <2> QED  BY <2>1, <2>2, <2>5, <1>u, <1>m, SameMessages DEF KeyInv
<1>3. PhaseInv'
  BY <1>u, <1>a, <1>m, SameMessages DEF PhaseInv, Early, Unwritten, SameWrites
<1> QED  BY <1>1, <1>2, <1>3

LEMMA GivesUpKeeps ==
  ASSUME IInv, NEW r \in Request, GivesUp(r)
  PROVE  IInv'
<1> USE DEF IInv
<1>m. UNCHANGED msg
  BY DEF GivesUp, Refuses, Replays, Unstored, Rollback, Commit, Answered
<1>n. NoTx \in Tx /\ Unwritten(NoTx) /\ ~NoTx.lock /\ NoTx.claim = NoRow
  BY RowTypes DEF NoTx, Unwritten
<1>a. PICK a \in Answer \ {Unanswered} :
        \/ Rollback(r, a)
        \/ \E t \in Tx : Commit(r, t, a) /\ t.turns = {} /\ t.claim = NoRow
  <2>1. Keyed(r) => claims[SlotOf(r)].turn \in Request \cup {NoTurn}
    BY RowTypes DEF TypeOK, Row
  <2> QED  BY <2>1, AnswersAnswer DEF GivesUp, Refuses, Replays, Unstored
<1>1. TypeOK'
  BY <1>a, RollbackTypes, CommitTypes
<1>u. /\ pc \in [Request -> Labels] /\ tx \in [Request -> Tx]
      /\ answer \in [Request -> Answer] /\ a # Unanswered
      /\ pc' = [pc EXCEPT ![r] = "done"] /\ tx' = [tx EXCEPT ![r] = NoTx]
      /\ answer' = [answer EXCEPT ![r] = a]
  BY <1>a DEF Rollback, Commit, Answered, TypeOK
<1>k. UNCHANGED <<claims, executed>>
  BY <1>a DEF Rollback, Commit, dbVars
<1>2. KeyInv'
  <2>1. \A q \in Request :
          IF Keyed(q) /\ pc'[q] \in Running
          THEN tx'[q].lock /\ tx'[q].claim = InProgressRow(q) /\ claims[SlotOf(q)] = NoRow
          ELSE ~tx'[q].lock /\ tx'[q].claim = NoRow
    BY <1>u, <1>n DEF KeyInv, Running
  <2>2. \A p, q \in Request : tx'[p].lock /\ tx'[q].lock /\ p # q
                              => LockId[SlotOf(p)] # LockId[SlotOf(q)]
    BY <1>u, <1>n DEF KeyInv
  <2> QED  BY <2>1, <2>2, <1>k, <1>m, SameMessages DEF KeyInv
<1>3. PhaseInv'
  BY <1>u, <1>k, <1>n, <1>m, SameMessages DEF PhaseInv, Early
<1> QED  BY <1>1, <1>2, <1>3

\* A turn is committed: with its claim, or without a key.
LEMMA FinishKeeps ==
  ASSUME IInv, NEW r \in Request, Finish(r)
  PROVE  IInv'
<1> USE DEF IInv
<1> DEFINE t == [tx[r] EXCEPT !.claim = IF Keyed(r) THEN CompletedRow(r) ELSE @]
<1>p. PICK a \in {Ok(r), Refusal("lost")} : Commit(r, t, a)
  BY DEF Finish
<1>a. a \in Answer \ {Unanswered}
  BY AnswersAnswer DEF Code
<1>w. tx[r] \in Tx /\ pc[r] = "finish" /\ tx[r].turns = Role /\ Role # {}
  BY TxTypes DEF Finish, PhaseInv, Role
<1>r. CompletedRow(r) \in Row /\ CompletedRow(r) # NoRow
  BY RowTypes DEF CompletedRow, NoRow
<1>t. /\ t \in Tx /\ t.turns = Role
      /\ t.claim = IF Keyed(r) THEN CompletedRow(r) ELSE tx[r].claim
  BY <1>w, <1>r DEF Tx
<1>c. ~Keyed(r) => t.claim = NoRow
  BY <1>t DEF KeyInv
<1>m. UNCHANGED msg
  BY <1>p DEF Commit, Answered
<1>n. NoTx \in Tx /\ Unwritten(NoTx) /\ ~NoTx.lock /\ NoTx.claim = NoRow
  BY RowTypes DEF NoTx, Unwritten
<1>u. /\ pc \in [Request -> Labels] /\ tx \in [Request -> Tx]
      /\ answer \in [Request -> Answer]
      /\ pc' = [pc EXCEPT ![r] = "done"] /\ tx' = [tx EXCEPT ![r] = NoTx]
      /\ answer' = [answer EXCEPT ![r] = a]
  BY <1>p DEF Commit, Answered, TypeOK
<1>e. executed' = executed \cup {r}
  BY <1>p, <1>t, <1>w DEF Commit
<1>k. /\ Keyed(r) => claims' = [claims EXCEPT ![SlotOf(r)] = CompletedRow(r)]
      /\ ~Keyed(r) => claims' = claims
  BY <1>p, <1>t, <1>c, <1>r DEF Commit
<1>s. claims \in [Slot -> Row] /\ \A q \in Request : Keyed(q) => SlotOf(q) \in Slot
  BY RowTypes DEF TypeOK
<1>1. TypeOK'
  BY <1>p, <1>a, <1>t, <1>c, CommitTypes
<1>2. KeyInv'
  <2>1. \A q \in Request \ {r} : Keyed(q) /\ pc[q] \in Running /\ Keyed(r)
                                 => SlotOf(q) # SlotOf(r)
    BY <1>w DEF KeyInv, Running
  <2>2. \A q \in Request :
          IF Keyed(q) /\ pc'[q] \in Running
          THEN tx'[q].lock /\ tx'[q].claim = InProgressRow(q) /\ claims'[SlotOf(q)] = NoRow
          ELSE ~tx'[q].lock /\ tx'[q].claim = NoRow
    BY <2>1, <1>u, <1>n, <1>k, <1>s DEF KeyInv, Running
  <2>3. \A p, q \in Request : tx'[p].lock /\ tx'[q].lock /\ p # q
                              => LockId[SlotOf(p)] # LockId[SlotOf(q)]
    BY <1>u, <1>n DEF KeyInv
  <2>4. \A s \in Slot : \/ claims'[s] = NoRow
                        \/ \E q \in executed' : /\ Keyed(q) /\ SlotOf(q) = s
                                                /\ claims'[s] = CompletedRow(q)
    BY <1>k, <1>e, <1>s DEF KeyInv
  <2>5. Keyed(r) => claims[SlotOf(r)] = NoRow
    BY <1>w DEF KeyInv, Running
  <2>6. \A q \in executed : q \in Request /\ CompletedRow(q) # NoRow
    BY DEF TypeOK, CompletedRow, NoRow
  <2>7. \A q \in executed' : Keyed(q) => claims'[SlotOf(q)] = CompletedRow(q)
    BY <2>5, <2>6, <1>k, <1>e, <1>s DEF KeyInv
  <2>8. executed' \subseteq Request
    BY <1>e DEF TypeOK
  <2> QED  BY <2>2, <2>3, <2>4, <2>7, <2>8, <1>m, SameMessages DEF KeyInv
<1>3. PhaseInv'
  BY <1>u, <1>a, <1>e, <1>n, <1>m, SameMessages DEF PhaseInv, Early
<1> QED  BY <1>1, <1>2, <1>3

\* Neither a DELETE nor waiting in one touches requests, keys or claims.
LEMMA DeleteKeeps ==
  ASSUME IInv, NEW i \in DeleteOn,
         DeleteProceeds(i) \/ \E c \in CampaignId : DeleteCampaign(i, c)
  PROVE  IInv'
<1> USE DEF IInv
<1>1. UNCHANGED <<msg, pc, tx, seen, base, answer, claims, modelRequests, executed, wrote>>
  BY DEF DeleteProceeds, DeleteCampaign, Deleted, dbVars
<1>2. /\ live' \subseteq live /\ turns' \subseteq turns
      /\ effects' \in [CampaignId -> SUBSET Request]
      /\ deleting' \in [DeleteOn -> CampaignId \cup {NoCampaign}]
  BY DEF DeleteProceeds, DeleteCampaign, Deleted, dbVars, TypeOK
<1>3. TypeOK'
  BY <1>1, <1>2 DEF TypeOK
<1>4. KeyInv' /\ PhaseInv'
  BY <1>1, SameMessages DEF KeyInv, PhaseInv, TypeOK
<1> QED  BY <1>3, <1>4

LEMMA InitInv == Init => IInv
<1> SUFFICES ASSUME Init PROVE IInv
  OBVIOUS
<1>1. NoRow \in Row /\ NoTx \in Tx /\ Unwritten(NoTx) /\ ~NoTx.lock /\ NoTx.claim = NoRow
  BY DEF NoRow, Row, NoTx, Tx, Unwritten
<1>2. TypeOK
  BY <1>1 DEF Init, TypeOK, Labels, Answer, Unanswered, Code, CampaignId
<1>3. KeyInv
  BY <1>1 DEF Init, KeyInv, Running
<1>4. PhaseInv
  BY <1>1 DEF Init, PhaseInv, Early
<1> QED  BY <1>2, <1>3, <1>4 DEF IInv

\* What a step is, for the invariant and for the refinement alike.
LEMMA NextShapes ==
  ASSUME IInv, Next
  PROVE  \/ \E r \in Request : /\ pc[r] # "done"
                               /\ \/ \E l \in Labels, t \in Tx : Advances(r, l, t)
                                  \/ TakesClaim(r)
                                  \/ GivesUp(r)
                                  \/ Finish(r)
         \/ \E i \in DeleteOn :
              DeleteProceeds(i) \/ \E c \in CampaignId : DeleteCampaign(i, c)
         \/ UNCHANGED vars
<1>1. ASSUME NEW r \in Request, Crash(r) PROVE GivesUp(r)
  BY <1>1 DEF Crash, GivesUp, Refuses, Code
<1>2. ASSUME NEW r \in Request, Step(r) PROVE pc[r] # "done"
  BY <1>2 DEF Step, Goto, Lookup, ValidateRequest, CheckTurnLimit, Claim, ClaimBusy,
     Reread, Load, LoadRefused, StarterAnswers, StarterFails, ParserBudgetRefused,
     OpenTurn, OpenTurnFails, ParserAnswers, ResolveAction, UpdateState,
     DirectorAnswers, NarratorAnswers, TurnFails, Finish, FinishBroken
<1>3. ASSUME NEW r \in Request, Crash(r) PROVE pc[r] # "done"
  BY <1>3 DEF Crash
<1> QED  BY <1>1, <1>2, <1>3, StepShapes DEF Next, Idle

LEMMA NextInv == IInv /\ [Next]_vars => IInv'
<1> SUFFICES ASSUME IInv, [Next]_vars PROVE IInv'
  OBVIOUS
<1>1. CASE UNCHANGED vars
  BY <1>1, SameMessages
     DEF vars, dbVars, IInv, TypeOK, KeyInv, PhaseInv
<1>2. CASE Next
  BY <1>1, <1>2, NextShapes, AdvancesKeeps, TakesClaimKeeps, GivesUpKeeps,
     FinishKeeps, DeleteKeeps
<1> QED  BY <1>1, <1>2

\* No step changes what a request asks for.
LEMMA NextMessages == IInv /\ [Next]_vars => UNCHANGED msg
<1> SUFFICES ASSUME IInv, [Next]_vars PROVE UNCHANGED msg
  OBVIOUS
<1>1. ASSUME NEW r \in Request, GivesUp(r) \/ Finish(r) PROVE UNCHANGED msg
  BY <1>1 DEF GivesUp, Refuses, Replays, Unstored, Finish, Rollback, Commit, Answered
<1>2. ASSUME NEW i \in DeleteOn,
             DeleteProceeds(i) \/ \E c \in CampaignId : DeleteCampaign(i, c)
      PROVE  UNCHANGED msg
  BY <1>2 DEF DeleteProceeds, DeleteCampaign, Deleted
<1> QED  BY <1>1, <1>2, NextShapes DEF Advances, TakesClaim, vars

THEOREM Invariance == Spec => []IInv
BY InitInv, NextInv, PTL DEF Spec

\* Every variable keeps its type.
THEOREM TypeCorrect == Spec => []TypeOK
<1>1. IInv => TypeOK
  BY DEF IInv
<1> QED  BY <1>1, Invariance, PTL

\* The lock, the claim and the committed rows agree at every moment.
THEOREM KeysAgree == Spec => []KeyInv
<1>1. IInv => KeyInv
  BY DEF IInv
<1> QED  BY <1>1, Invariance, PTL

\* However many requests share a key, one turn is committed under it.
THEOREM AtMostOneTurnPerKey == Spec => []OneTurnPerKey
<1>1. IInv => OneTurnPerKey
  <2> SUFFICES ASSUME IInv, NEW r \in executed, NEW q \in executed,
                      Keyed(r), Keyed(q), SlotOf(r) = SlotOf(q)
               PROVE  r = q
    BY DEF OneTurnPerKey
  <2>1. CompletedRow(r) = CompletedRow(q)
    BY DEF IInv, KeyInv
  <2> QED  BY <2>1 DEF CompletedRow
<1> QED  BY <1>1, Invariance, PTL

\* Once the advisory lock is free, the INSERT of a claim waits for nobody.
LEMMA DuplicatesNeverWait ==
  ASSUME IInv, NEW r \in Request, InsertBlocked(r)
  PROVE  Locked(r)
<1>1. PICK q \in Request \ {r} : SlotOf(q) = SlotOf(r) /\ tx[q].claim # NoRow
  BY DEF InsertBlocked
<1>2. tx[q].lock /\ Keyed(q)
  BY <1>1 DEF IInv, KeyInv
<1> QED  BY <1>1, <1>2 DEF Locked

-----------------------------------------------------------------------------
(* What the game tables say of each other, and of the turns that are open.  *)

\* The campaign of an open turn cannot be deleted: its row is locked, or known
\* to its own transaction only.
OpenInv == \A r \in Request : pc[r] \notin Early => AutoCreates(r) \/ Target(r) \in live

\* Both rows of a committed turn are there as long as its campaign is, and a
\* campaign that a message created is there because its turn was committed.
GameInv == /\ OpenInv
           /\ TurnsWhole
           /\ \A r \in executed : Target(r) \in live => {r} \X Role \subseteq turns
           /\ \A r \in live \cap Request : AutoCreates(r) /\ r \in executed

\* Only the request that creates a campaign works on it before it is there.
LEMMA OwnCampaign ==
  ASSUME TypeOK, NEW r \in Request, NEW q \in Request, Target(q) = r
  PROVE  q = r /\ AutoCreates(r)
<1>1. msg[q] \in Message
  BY MessageAssumption DEF TypeOK
<1> QED  BY <1>1, ConfigAssumption DEF Target, AutoCreates, Message

\* A request that gives up leaves every table alone but the model requests, and
\* forgets what it has read.
LEMMA GivesUpChanges ==
  ASSUME IInv, NEW r \in Request, GivesUp(r)
  PROVE  /\ UNCHANGED <<msg, claims, live, effects, turns, executed, wrote>>
         /\ pc' = [pc EXCEPT ![r] = "done"]
         /\ tx' = [tx EXCEPT ![r] = NoTx]
         /\ seen' = [seen EXCEPT ![r] = {}]
         /\ base' \in {base, [base EXCEPT ![r] = {}]}
<1>1. PICK a \in Answer :
        \/ Rollback(r, a)
        \/ \E t \in Tx : /\ Commit(r, t, a)
                         /\ t.turns = {} /\ ~t.creates /\ ~t.writes /\ t.claim = NoRow
  <2>1. Keyed(r) => claims[SlotOf(r)].turn \in Request \cup {NoTurn}
    BY RowTypes DEF IInv, TypeOK, Row
  <2> QED  BY <2>1, AnswersAnswer DEF GivesUp, Refuses, Replays, Unstored
<1>2. CASE Rollback(r, a)
  BY <1>2 DEF Rollback, Answered, dbVars
<1>3. ASSUME NEW t \in Tx, Commit(r, t, a),
             t.turns = {} /\ ~t.creates /\ ~t.writes /\ t.claim = NoRow
      PROVE  UNCHANGED <<claims, live, effects, turns, executed, wrote, base>>
  <2>1. {r} \X t.turns = {}
    BY <1>3
  <2> QED  BY <1>3, <2>1 DEF Commit
<1>4. ASSUME NEW t \in Tx, Commit(r, t, a)
      PROVE  /\ UNCHANGED msg
             /\ pc' = [pc EXCEPT ![r] = "done"]
             /\ tx' = [tx EXCEPT ![r] = NoTx]
             /\ seen' = [seen EXCEPT ![r] = {}]
  BY <1>4 DEF Commit, Answered
<1> QED  BY <1>1, <1>2, <1>3, <1>4

\* A turn that is committed adds its two rows, its campaign if it creates one
\* and its effects if it has written the state.
LEMMA FinishChanges ==
  ASSUME IInv, NEW r \in Request, Finish(r)
  PROVE  /\ UNCHANGED <<msg, base>>
         /\ pc[r] = "finish" /\ pc' = [pc EXCEPT ![r] = "done"]
         /\ tx' = [tx EXCEPT ![r] = NoTx]
         /\ seen' = [seen EXCEPT ![r] = {}]
         /\ live' = IF AutoCreates(r) THEN live \cup {r} ELSE live
         /\ effects' = IF tx[r].writes THEN [effects EXCEPT ![Target(r)] = seen[r]]
                                       ELSE effects
         /\ turns' = turns \cup ({r} \X Role)
         /\ r \notin executed /\ executed' = executed \cup {r}
         /\ wrote' = IF tx[r].writes THEN wrote \cup {r} ELSE wrote
<1> DEFINE t == [tx[r] EXCEPT !.claim = IF Keyed(r) THEN CompletedRow(r) ELSE @]
<1>1. PICK a \in {Ok(r), Refusal("lost")} : Commit(r, t, a)
  BY DEF Finish
<1>2. tx[r] \in Tx /\ pc[r] = "finish" /\ Role # {}
  BY TxTypes DEF IInv, Finish, Role
<1>3. /\ tx[r].turns = Role /\ tx[r].creates = AutoCreates(r) /\ r \notin executed
  BY <1>2 DEF IInv, PhaseInv, Early
<1>4. t.turns = Role /\ t.creates = AutoCreates(r) /\ t.writes = tx[r].writes
  BY <1>2, <1>3 DEF Tx
<1> QED  BY <1>1, <1>2, <1>3, <1>4 DEF Commit, Answered

\* A campaign is deleted whole, when no turn is open in it.
LEMMA DeleteChanges ==
  ASSUME IInv, NEW i \in DeleteOn,
         DeleteProceeds(i) \/ \E c \in CampaignId : DeleteCampaign(i, c)
  PROVE  /\ UNCHANGED <<msg, pc, tx, seen, base, answer, claims, executed, wrote>>
         /\ \/ UNCHANGED <<live, effects, turns>>
            \/ \E c \in CampaignId : ~Referenced(c) /\ Deleted(c)
<1>1. deleting[i] \in CampaignId \cup {NoCampaign}
  BY DEF IInv, TypeOK
<1> QED  BY <1>1 DEF DeleteProceeds, DeleteCampaign, Deleted, dbVars

LEMMA FinishKeepsGame ==
  ASSUME IInv, GameInv, NEW r \in Request, Finish(r)
  PROVE  GameInv'
<1>1. /\ UNCHANGED msg
      /\ pc[r] = "finish" /\ pc' = [pc EXCEPT ![r] = "done"]
      /\ live' = IF AutoCreates(r) THEN live \cup {r} ELSE live
      /\ turns' = turns \cup ({r} \X Role)
      /\ executed' = executed \cup {r}
  BY FinishChanges
<1>2. pc \in [Request -> Labels] /\ turns \subseteq Request \X Role /\ executed \subseteq Request
  BY DEF IInv, TypeOK
<1>3. Target(r) \in live'
  BY <1>1 DEF GameInv, OpenInv, Early, Target
<1>4. \A q \in Request : Target(q) \in live' /\ q # r => Target(q) \in live
  BY <1>1, OwnCampaign DEF IInv
<1>5. OpenInv'
  BY <1>1, <1>2, SameMessages DEF GameInv, OpenInv, Early
<1>6. TurnsWhole'
  BY <1>1, <1>2, <1>3, SameMessages DEF GameInv, TurnsWhole
<1>7. \A q \in executed' : Target(q) \in live' => {q} \X Role \subseteq turns'
  BY <1>1, <1>2, <1>4 DEF GameInv
<1>8. \A q \in live' \cap Request : AutoCreates(q) /\ q \in executed'
  BY <1>1 DEF GameInv
<1> QED  BY <1>1, <1>5, <1>6, <1>7, <1>8, SameMessages DEF GameInv

LEMMA DeleteKeepsGame ==
  ASSUME IInv, GameInv, NEW c \in CampaignId, ~Referenced(c), Deleted(c)
  PROVE  GameInv'
<1>1. /\ UNCHANGED <<msg, pc, executed>>
      /\ live' = live \ {c} /\ turns' = {t \in turns : Target(t[1]) # c}
  BY DEF Deleted
<1>2. turns \subseteq Request \X Role
  BY DEF IInv, TypeOK
<1>3. \A r \in Request : pc[r] \notin Early => Target(r) # c
  BY DEF IInv, PhaseInv, Referenced
<1>4. OpenInv'
  BY <1>1, <1>3, SameMessages DEF GameInv, OpenInv
<1>5. TurnsWhole'
  <2> SUFFICES ASSUME NEW t \in turns, Target(t[1]) # c
               PROVE  Target(t[1]) \in live \ {c} /\ {t[1]} \X Role \subseteq turns'
    BY <1>1, SameMessages DEF TurnsWhole
  <2>1. Target(t[1]) \in live /\ {t[1]} \X Role \subseteq turns
    BY DEF GameInv, TurnsWhole
  <2> QED  BY <2>1, <1>1
<1>6. \A r \in executed : Target(r) \in live' => {r} \X Role \subseteq turns'
  BY <1>1 DEF GameInv
<1>7. \A r \in live' \cap Request : AutoCreates(r) /\ r \in executed
  BY <1>1 DEF GameInv
<1> QED  BY <1>1, <1>4, <1>5, <1>6, <1>7, SameMessages DEF GameInv

\* A step that leaves the game tables alone and opens a turn only in a campaign
\* that is there.
LEMMA QuietKeepsGame ==
  ASSUME IInv, GameInv, UNCHANGED <<msg, live, turns, executed>>,
         \A r \in Request : pc'[r] \notin Early
           => pc[r] \notin Early \/ AutoCreates(r) \/ Target(r) \in live
  PROVE  GameInv'
<1>1. OpenInv'
  BY SameMessages DEF GameInv, OpenInv
<1>2. TurnsWhole'
  BY SameMessages DEF GameInv, TurnsWhole
<1> QED  BY <1>1, <1>2, SameMessages DEF GameInv

LEMMA NextGame == IInv /\ GameInv /\ [Next]_vars => GameInv'
<1> SUFFICES ASSUME IInv, GameInv, [Next]_vars PROVE GameInv'
  OBVIOUS
<1>t. pc \in [Request -> Labels]
  BY DEF IInv, TypeOK
<1>1. CASE UNCHANGED vars
  BY <1>1, QuietKeepsGame DEF vars, dbVars
<1>2. ASSUME NEW r \in Request, NEW l \in Labels, NEW t \in Tx, Advances(r, l, t)
      PROVE  GameInv'
  BY <1>2, <1>t, QuietKeepsGame DEF Advances, dbVars
<1>3. ASSUME NEW r \in Request, TakesClaim(r) PROVE GameInv'
  BY <1>3, <1>t, QuietKeepsGame DEF TakesClaim, dbVars, Early
<1>4. ASSUME NEW r \in Request, GivesUp(r) PROVE GameInv'
  BY <1>4, <1>t, GivesUpChanges, QuietKeepsGame DEF Early
<1>5. ASSUME NEW i \in DeleteOn,
             DeleteProceeds(i) \/ \E c \in CampaignId : DeleteCampaign(i, c)
      PROVE  GameInv'
  BY <1>5, DeleteChanges, DeleteKeepsGame, QuietKeepsGame
<1> QED  BY <1>1, <1>2, <1>3, <1>4, <1>5, FinishKeepsGame, NextShapes

LEMMA InitGame == Init => GameInv
BY ConfigAssumption DEF Init, GameInv, OpenInv, TurnsWhole, Early

THEOREM GameInvariance == Spec => []GameInv
BY Invariance, InitGame, NextGame, PTL DEF Spec

\* No half turn and no orphan, whatever fails, is deleted or overlaps.
THEOREM TurnsStayWhole == Spec => []TurnsWhole
<1>1. GameInv => TurnsWhole
  BY DEF GameInv
<1> QED  BY <1>1, GameInvariance, PTL

\* A completed claim stands for a turn that was committed with it.
THEOREM ClaimsNameTurns == Spec => []ClaimNamesTurn
<1>1. IInv /\ GameInv => ClaimNamesTurn
  <2> SUFFICES ASSUME IInv, GameInv, NEW s \in Slot, claims[s].status = "completed"
               PROVE  LET t == claims[s].turn
                      IN  /\ t \in executed /\ SlotOf(t) = s
                          /\ FingerprintOf(t) = claims[s].fingerprint
                          /\ Target(t) \in live => {t} \X Role \subseteq turns
    BY DEF ClaimNamesTurn
  <2>1. PICK t \in executed : SlotOf(t) = s /\ claims[s] = CompletedRow(t)
    BY DEF IInv, KeyInv, NoRow
  <2> QED  BY <2>1 DEF GameInv, CompletedRow
<1> QED  BY <1>1, Invariance, GameInvariance, PTL

\* A campaign that a message created implicitly has that message.
THEOREM CampaignsComeWithTheirMessage == Spec => []NoStillbornCampaign
<1>1. IInv /\ GameInv => NoStillbornCampaign
  <2> SUFFICES ASSUME IInv, GameInv, NEW r \in live \cap Request
               PROVE  <<r, "user">> \in turns
    BY DEF NoStillbornCampaign
  <2>1. r \in executed /\ Target(r) \in live
    BY DEF GameInv, Target
  <2>2. {r} \X Role \subseteq turns
    BY <2>1 DEF GameInv
  <2> QED  BY <2>2 DEF Role
<1> QED  BY <1>1, Invariance, GameInvariance, PTL

-----------------------------------------------------------------------------
(* What overlapping turns may do to each other, and what refusals may not.  *)

\* The change that r made is part of the state S, or some request whose change is
\* part of S had read the campaign before r was committed.
Covers(S, r) == r \in S \/ \E q \in S : r \notin base[q]

\* What is stored, and what is being worked on, covers every change that was
\* committed before it was read.
OverlapInv ==
  /\ wrote \subseteq executed
  /\ \A c \in CampaignId : effects[c] \subseteq executed
  /\ \A r \in wrote : Target(r) \in live => Covers(effects[Target(r)], r)
  /\ \A q \in Request :
       /\ tx[q].writes => q \in seen[q]
       /\ pc[q] \in Loaded =>
            /\ base[q] \subseteq executed
            /\ seen[q] \subseteq executed \cup {q}
            /\ \A r \in wrote \cap base[q] :
                 Target(r) = Target(q) /\ Target(q) \in live => Covers(seen[q], r)

LEMMA FinishKeepsOverlap ==
  ASSUME IInv, GameInv, OverlapInv, NEW r \in Request, Finish(r)
  PROVE  OverlapInv'
<1>1. /\ UNCHANGED <<msg, base>>
      /\ pc[r] = "finish" /\ pc' = [pc EXCEPT ![r] = "done"]
      /\ tx' = [tx EXCEPT ![r] = NoTx]
      /\ seen' = [seen EXCEPT ![r] = {}]
      /\ live' = IF AutoCreates(r) THEN live \cup {r} ELSE live
      /\ effects' = IF tx[r].writes THEN [effects EXCEPT ![Target(r)] = seen[r]]
                                    ELSE effects
      /\ r \notin executed /\ executed' = executed \cup {r}
      /\ wrote' = IF tx[r].writes THEN wrote \cup {r} ELSE wrote
  BY FinishChanges
<1>2. /\ pc \in [Request -> Labels] /\ tx \in [Request -> Tx] /\ wrote \subseteq Request
      /\ seen \in [Request -> SUBSET Request] /\ effects \in [CampaignId -> SUBSET Request]
      /\ executed \subseteq Request
      /\ Target(r) \in CampaignId
  BY RowTypes DEF IInv, TypeOK
<1>3. \A q \in Request : Target(q) \in live' /\ q # r => Target(q) \in live
  BY <1>1, OwnCampaign DEF IInv
<1>4. /\ pc[r] \in Loaded /\ base[r] \subseteq executed /\ seen[r] \subseteq executed \cup {r}
      /\ tx[r].writes => r \in seen[r]
  BY <1>1 DEF OverlapInv, Loaded, Running
<1>5. wrote' \subseteq executed' /\ \A c \in CampaignId : effects'[c] \subseteq executed'
  BY <1>1, <1>2, <1>4 DEF OverlapInv
<1>6. ASSUME NEW q \in wrote', Target(q) \in live'
      PROVE  Covers(effects'[Target(q)], q)
  <2>1. CASE q = r
    <3>1. tx[r].writes
      BY <1>1, <2>1 DEF OverlapInv
    <3> QED  BY <3>1, <2>1, <1>1, <1>2, <1>4 DEF Covers
  <2>2. CASE q # r
    <3>1. q \in wrote /\ q \in Request /\ Target(q) \in live
      BY <1>1, <1>2, <1>3, <1>6, <2>2
    <3>2. Covers(effects[Target(q)], q)
      BY <3>1 DEF OverlapInv
    <3>3. CASE ~tx[r].writes \/ Target(q) # Target(r)
      BY <3>2, <3>3, <1>1, <1>2
    <3>4. CASE tx[r].writes /\ Target(q) = Target(r)
      <4>1. effects'[Target(q)] = seen[r] /\ r \in seen[r]
        BY <3>4, <1>1, <1>2, <1>4
      <4>2. q \in base[r] => Covers(seen[r], q)
        BY <3>1, <3>4, <1>4 DEF OverlapInv
      <4> QED  BY <4>1, <4>2 DEF Covers
    <3> QED  BY <3>3, <3>4
  <2> QED  BY <2>1, <2>2
<1>7. ASSUME NEW q \in Request
      PROVE  /\ tx'[q].writes => q \in seen'[q]
             /\ pc'[q] \in Loaded =>
                  /\ base[q] \subseteq executed'
                  /\ seen'[q] \subseteq executed' \cup {q}
                  /\ \A p \in wrote' \cap base[q] :
                       Target(p) = Target(q) /\ Target(q) \in live' => Covers(seen'[q], p)
  <2>1. CASE q = r
    BY <2>1, <1>1, <1>2 DEF Loaded, Running, NoTx
  <2>2. CASE q # r
    <3>1. pc'[q] = pc[q] /\ tx'[q] = tx[q] /\ seen'[q] = seen[q]
      BY <2>2, <1>1, <1>2
    <3>2. pc[q] \in Loaded => r \notin base[q]
      BY <1>1 DEF OverlapInv
    <3> QED  BY <2>2, <3>1, <3>2, <1>1, <1>3 DEF OverlapInv
  <2> QED  BY <2>1, <2>2
<1>8. \A S, q : Covers(S, q)' = Covers(S', q')
  BY <1>1 DEF Covers
<1> QED  BY <1>1, <1>5, <1>6, <1>7, SameMessages DEF OverlapInv, Covers

LEMMA DeleteKeepsOverlap ==
  ASSUME IInv, OverlapInv, NEW c \in CampaignId, Deleted(c)
  PROVE  OverlapInv'
<1>1. /\ UNCHANGED <<msg, pc, tx, seen, base, executed, wrote>>
      /\ live' = live \ {c} /\ effects' = [effects EXCEPT ![c] = {}]
  BY DEF Deleted
<1>2. /\ effects \in [CampaignId -> SUBSET Request] /\ wrote \subseteq Request
      /\ \A r \in Request : Target(r) \in CampaignId
  BY RowTypes DEF IInv, TypeOK
<1>3. \A d \in CampaignId : effects'[d] \subseteq executed
  BY <1>1, <1>2 DEF OverlapInv
<1>4. \A r \in wrote : Target(r) \in live' => Covers(effects'[Target(r)], r)
  BY <1>1, <1>2 DEF OverlapInv
<1> QED  BY <1>1, <1>3, <1>4, SameMessages DEF OverlapInv, Covers

\* A request that moves on, or gives up, changes what it works on, not what is
\* stored.
LEMMA WorkKeepsOverlap ==
  ASSUME IInv, OverlapInv, NEW r \in Request, r \notin executed,
         UNCHANGED <<msg, live, effects, executed, wrote>>,
         \A q \in Request \ {r} : /\ pc'[q] = pc[q] /\ tx'[q] = tx[q]
                                  /\ seen'[q] = seen[q] /\ base'[q] = base[q],
         tx'[r].writes => r \in seen'[r],
         pc'[r] \in Loaded =>
           /\ base'[r] \subseteq executed
           /\ seen'[r] \subseteq executed \cup {r}
           /\ \A p \in wrote \cap base'[r] :
                Target(p) = Target(r) /\ Target(r) \in live
                  => p \in seen'[r] \/ \E x \in seen'[r] \ {r} : p \notin base[x]
  PROVE  OverlapInv'
<1>1. executed \subseteq Request \ {r} /\ wrote \subseteq executed
  BY DEF IInv, TypeOK, OverlapInv
<1>2. \A x \in executed : base'[x] = base[x]
  BY <1>1
<1>3. \A q \in wrote : Target(q) \in CampaignId
  BY <1>1, RowTypes DEF IInv
<1>4. ASSUME NEW q \in wrote, Target(q) \in live PROVE Covers(effects[Target(q)], q)'
  <2>1. Covers(effects[Target(q)], q) /\ effects[Target(q)] \subseteq executed
    BY <1>3, <1>4 DEF OverlapInv
  <2>2. Target(q)' = Target(q)
    BY SameMessages
  <2> QED  BY <2>1, <2>2, <1>2 DEF Covers
<1>5. ASSUME NEW q \in Request \ {r}, pc[q] \in Loaded,
             NEW p \in wrote \cap base[q], Target(p) = Target(q), Target(q) \in live
      PROVE  p \in seen[q] \/ \E x \in seen[q] : p \notin base'[x]
  <2>1. Covers(seen[q], p) /\ seen[q] \subseteq executed \cup {q}
    BY <1>5 DEF OverlapInv
  <2> QED  BY <2>1, <1>2, <1>5 DEF Covers
<1>6. ASSUME NEW p \in wrote \cap base'[r], pc'[r] \in Loaded,
             Target(p) = Target(r), Target(r) \in live
      PROVE  p \in seen'[r] \/ \E x \in seen'[r] : p \notin base'[x]
  <2>1. CASE p \in seen'[r]
    BY <2>1
  <2>2. CASE \E x \in seen'[r] \ {r} : p \notin base[x]
    BY <2>2, <1>2, <1>6
  <2> QED  BY <2>1, <2>2, <1>6
<1>7. ASSUME NEW q \in Request
      PROVE  /\ tx'[q].writes => q \in seen'[q]
             /\ pc'[q] \in Loaded =>
                  /\ base'[q] \subseteq executed
                  /\ seen'[q] \subseteq executed \cup {q}
                  /\ \A p \in wrote \cap base'[q] :
                       Target(p) = Target(q) /\ Target(q) \in live
                         => p \in seen'[q] \/ \E x \in seen'[q] : p \notin base'[x]
  BY <1>5, <1>6 DEF OverlapInv
<1> QED  BY <1>1, <1>4, <1>7, SameMessages DEF OverlapInv, Covers

LEMMA AdvancesKeepsOverlap ==
  ASSUME IInv, OverlapInv, NEW r \in Request, NEW l \in Labels, NEW t \in Tx,
         Advances(r, l, t)
  PROVE  OverlapInv'
<1>1. /\ pc \in [Request -> Labels] /\ tx \in [Request -> Tx]
      /\ seen \in [Request -> SUBSET Request] /\ base \in [Request -> SUBSET Request]
      /\ wrote \subseteq Request /\ Target(r) \in CampaignId
  BY RowTypes DEF IInv, TypeOK
<1>2. r \notin executed
  BY DEF IInv, PhaseInv, Advances
<1>3. /\ UNCHANGED <<msg, live, effects, executed, wrote>>
      /\ pc' = [pc EXCEPT ![r] = l] /\ tx' = [tx EXCEPT ![r] = t]
      /\ WorksOn(r, l, t)
  BY DEF Advances, dbVars
<1>4. CASE /\ l \in {"starter", "budget"}
           /\ seen' = [seen EXCEPT ![r] = effects[Target(r)]]
           /\ base' = [base EXCEPT ![r] = executed]
  <2>1. ~t.writes
    BY <1>4 DEF Advances, Early, Unwritten
  <2>2. effects[Target(r)] \subseteq executed
    BY <1>1 DEF OverlapInv
  <2>3. \A p \in wrote : Target(p) = Target(r) /\ Target(r) \in live
          => p \in effects[Target(r)] \/ \E x \in effects[Target(r)] \ {r} : p \notin base[x]
    BY <1>2, <2>2 DEF OverlapInv, Covers
  <2> QED  BY <1>1, <1>2, <1>3, <1>4, <2>1, <2>2, <2>3, WorkKeepsOverlap
<1>5. CASE /\ l \in Loaded => pc[r] \in Loaded
           /\ \/ seen' = [seen EXCEPT ![r] = @ \cup {r}]
              \/ seen' = seen /\ (t.writes => tx[r].writes)
           /\ UNCHANGED base
  <2>1. \A p \in base[r] : \A x : p \notin base[x] => x # r
    OBVIOUS
  <2>2. pc[r] \in Loaded =>
          /\ base[r] \subseteq executed
          /\ seen[r] \subseteq executed \cup {r}
          /\ \A p \in wrote \cap base[r] :
               Target(p) = Target(r) /\ Target(r) \in live
                 => p \in seen[r] \/ \E x \in seen[r] \ {r} : p \notin base[x]
    BY <2>1 DEF OverlapInv, Covers
  <2>3. t.writes => r \in seen'[r]
    BY <1>1, <1>5 DEF OverlapInv
  <2>4. seen[r] \subseteq seen'[r] /\ seen'[r] \subseteq seen[r] \cup {r} /\ base'[r] = base[r]
    BY <1>1, <1>5
  <2>5. \A q \in Request \ {r} : /\ pc'[q] = pc[q] /\ tx'[q] = tx[q]
                                 /\ seen'[q] = seen[q] /\ base'[q] = base[q]
    BY <1>1, <1>3, <1>5
  <2>6. pc'[r] = l /\ tx'[r] = t
    BY <1>1, <1>3
  <2>7. pc'[r] \in Loaded =>
           /\ base'[r] \subseteq executed
           /\ seen'[r] \subseteq executed \cup {r}
           /\ \A p \in wrote \cap base'[r] :
                Target(p) = Target(r) /\ Target(r) \in live
                  => p \in seen'[r] \/ \E x \in seen'[r] \ {r} : p \notin base[x]
    BY <1>5, <2>2, <2>4, <2>6
  <2> QED  BY <1>2, <1>3, <2>3, <2>5, <2>6, <2>7, WorkKeepsOverlap
<1> QED  BY <1>3, <1>4, <1>5 DEF WorksOn

LEMMA NextOverlap == IInv /\ GameInv /\ OverlapInv /\ [Next]_vars => OverlapInv'
<1> SUFFICES ASSUME IInv, GameInv, OverlapInv, [Next]_vars PROVE OverlapInv'
  OBVIOUS
<1>t. /\ pc \in [Request -> Labels] /\ tx \in [Request -> Tx]
      /\ seen \in [Request -> SUBSET Request] /\ base \in [Request -> SUBSET Request]
  BY DEF IInv, TypeOK
<1>0. ASSUME UNCHANGED <<msg, pc, tx, seen, base, live, effects, executed, wrote>>
      PROVE  OverlapInv'
  BY <1>0, SameMessages DEF OverlapInv, Covers
<1>1. CASE UNCHANGED vars
  BY <1>0, <1>1 DEF vars, dbVars
<1>2. ASSUME NEW r \in Request, TakesClaim(r) PROVE OverlapInv'
  <2>1. r \notin executed /\ SameWrites(Acquired(r), tx[r])
    BY <1>2, TxTypes DEF IInv, PhaseInv, TakesClaim
  <2>2. /\ UNCHANGED <<msg, seen, base, live, effects, executed, wrote>>
        /\ pc' = [pc EXCEPT ![r] = "load"] /\ tx' = [tx EXCEPT ![r] = Acquired(r)]
    BY <1>2 DEF TakesClaim, dbVars
  <2>3. tx'[r].writes => r \in seen'[r]
    BY <2>1, <2>2, <1>t DEF OverlapInv, SameWrites
  <2> QED  BY <2>1, <2>2, <2>3, <1>t, WorkKeepsOverlap DEF Loaded
<1>3. ASSUME NEW r \in Request, pc[r] # "done", GivesUp(r) PROVE OverlapInv'
  <2>1. r \notin executed
    BY <1>3 DEF IInv, PhaseInv
  <2>2. ~tx'[r].writes /\ pc'[r] \notin Loaded
    BY <1>3, <1>t, GivesUpChanges DEF NoTx, Loaded, Running
  <2> QED  BY <2>1, <2>2, <1>3, <1>t, GivesUpChanges, WorkKeepsOverlap
<1>4. ASSUME NEW i \in DeleteOn,
             DeleteProceeds(i) \/ \E c \in CampaignId : DeleteCampaign(i, c)
      PROVE  OverlapInv'
  BY <1>0, <1>4, DeleteChanges, DeleteKeepsOverlap
<1> QED  BY <1>1, <1>2, <1>3, <1>4, AdvancesKeepsOverlap, FinishKeepsOverlap, NextShapes

LEMMA InitOverlap == Init => OverlapInv
BY DEF Init, OverlapInv, Loaded, Running, NoTx

\* The change a turn made is lost only under a turn that overlapped it, or with
\* its campaign.
THEOREM ChangesSurvive == Spec => []LostOnlyToOverlap
<1>1. Spec => []OverlapInv
  BY Invariance, GameInvariance, InitOverlap, NextOverlap, PTL DEF Spec
<1>2. OverlapInv => LostOnlyToOverlap
  BY DEF OverlapInv, LostOnlyToOverlap, Covers
<1> QED  BY <1>1, <1>2, PTL

\* A refused or failed request changes no table that a later request reads.
THEOREM RefusalsLeaveNoTrace == Spec => RefusalLeavesNoTrace
<1>1. IInv /\ [Next]_vars
      => [\A r \in Request : /\ answer[r] = Unanswered
                             /\ answer'[r].code \in Code \ {"none", "ok", "lost"}
                             => UNCHANGED <<claims, live, effects, turns>>]_vars
  <2> SUFFICES ASSUME IInv, Next, NEW r \in Request, answer[r] = Unanswered,
                      answer'[r].code \in Code \ {"none", "ok", "lost"}
               PROVE  UNCHANGED <<claims, live, effects, turns>>
    OBVIOUS
  <2>1. answer' # answer
    BY DEF Unanswered
  <2>2. ASSUME NEW q \in Request, Finish(q) PROVE FALSE
    <3>1. PICK a \in {Ok(q), Refusal("lost")} : answer' = [answer EXCEPT ![q] = a]
      BY <2>2 DEF Finish, Commit, Answered
    <3>2. answer \in [Request -> Answer]
      BY DEF IInv, TypeOK
    <3> QED  BY <3>1, <3>2 DEF Ok, Refusal, Unanswered
  <2>3. ASSUME NEW i \in DeleteOn,
               DeleteProceeds(i) \/ \E c \in CampaignId : DeleteCampaign(i, c)
        PROVE  UNCHANGED answer
    BY <2>3, DeleteChanges
  <2> QED  BY <2>1, <2>2, <2>3, NextShapes, GivesUpChanges
           DEF Advances, TakesClaim, vars
<1> QED  BY <1>1, Invariance, PTL DEF Spec, RefusalLeavesNoTrace

-----------------------------------------------------------------------------
(* The handler keeps the promise of ChatOnce.                               *)

OnceVars == <<msg, executed, [s \in Slot |-> claims[s].turn], answer>>

\* Both modules speak of requests in the same words.
LEMMA SameWords ==
  /\ Once!Slot = Slot /\ Once!Code = Code /\ Once!Unanswered = Unanswered
  /\ \A r : /\ Once!Keyed(r) <=> Keyed(r)
            /\ Once!SlotOf(r) = SlotOf(r)
            /\ Once!FingerprintOf(r) = FingerprintOf(r)
            /\ Once!Ok(r) = Ok(r)
            /\ Once!Refusal(r) = Refusal(r)
BY DEF Once!Slot, Once!Code, Once!Unanswered, Once!Keyed, Once!SlotOf,
       Once!FingerprintOf, Once!Ok, Once!Refusal, Slot, Code, Unanswered, Keyed,
       SlotOf, FingerprintOf, Ok, Refusal

LEMMA OnceInit == Init => Once!Init
BY SameWords DEF Init, Once!Init, NoRow

\* Most steps are invisible to the clients.
LEMMA OnceStutters ==
  ASSUME UNCHANGED <<msg, executed, claims, answer>>
  PROVE  UNCHANGED OnceVars
BY DEF OnceVars

LEMMA OnceRefuses ==
  ASSUME IInv, NEW r \in Request, pc[r] # "done", Refuses(r)
  PROVE  Once!Refuse(r)
<1>1. PICK code \in Code \ {"none", "ok"} : \/ Rollback(r, Refusal(code))
                                            \/ \E t \in Tx : /\ Commit(r, t, Refusal(code))
                                                             /\ t.turns = {} /\ t.claim = NoRow
  BY DEF Refuses
<1>2. answer[r] = Unanswered /\ answer' = [answer EXCEPT ![r] = Refusal(code)]
  BY <1>1 DEF Rollback, Commit, Answered, IInv, PhaseInv
<1>3. UNCHANGED <<msg, executed, claims>>
  BY <1>1 DEF Rollback, Commit, Answered, dbVars
<1> QED  BY <1>2, <1>3, SameWords DEF Once!Refuse, Once!Tell

LEMMA OnceReplays ==
  ASSUME IInv, NEW r \in Request, pc[r] # "done", Replays(r)
  PROVE  Once!Replay(r)
<1> DEFINE s == SlotOf(r)
           outcome == [x \in Slot |-> claims[x].turn]
<1>1. /\ Keyed(r) /\ claims[s].status = "completed"
      /\ claims[s].fingerprint = FingerprintOf(r)
      /\ Rollback(r, Ok(claims[s].turn))
  BY DEF Replays
<1>2. s \in Slot
  BY <1>1, RowTypes DEF IInv
<1>3. PICK t \in executed : claims[s] = CompletedRow(t)
  BY <1>1, <1>2 DEF IInv, KeyInv, NoRow
<1>4. t \in Request /\ t # NoTurn
  BY <1>3, MessageAssumption DEF IInv, TypeOK
<1>5. outcome[s] = t /\ FingerprintOf(t) = FingerprintOf(r)
  BY <1>1, <1>2, <1>3 DEF CompletedRow
<1>6. answer[r] = Unanswered /\ answer' = [answer EXCEPT ![r] = Ok(t)]
  BY <1>1, <1>3 DEF Rollback, Answered, IInv, PhaseInv, CompletedRow
<1>7. UNCHANGED <<msg, executed, claims>>
  BY <1>1 DEF Rollback, Answered, dbVars
<1> QED  BY <1>1, <1>4, <1>5, <1>6, <1>7, SameWords
         DEF Once!Replay, Once!Tell

LEMMA OnceTellsUnstored ==
  ASSUME IInv, NEW r \in Request, pc[r] # "done", Unstored(r)
  PROVE  Once!TellUnstored(r)
<1>1. ~Keyed(r) /\ answer[r] = Unanswered /\ answer' = [answer EXCEPT ![r] = Ok(r)]
  BY DEF Unstored, Rollback, Answered, IInv, PhaseInv
<1>2. UNCHANGED <<msg, executed, claims>>
  BY DEF Unstored, Rollback, Answered, dbVars
<1> QED  BY <1>1, <1>2, SameWords DEF Once!TellUnstored, Once!Tell

LEMMA OnceExecutes ==
  ASSUME IInv, NEW r \in Request, Finish(r)
  PROVE  Once!Execute(r)
<1> USE DEF IInv
<1> DEFINE t == [tx[r] EXCEPT !.claim = IF Keyed(r) THEN CompletedRow(r) ELSE @]
           outcome == [x \in Slot |-> claims[x].turn]
<1>1. PICK a \in {Ok(r), Refusal("lost")} : Commit(r, t, a)
  BY DEF Finish
<1>2. /\ tx[r] \in Tx /\ pc[r] = "finish"
      /\ tx[r].turns = Role /\ Role # {} /\ answer[r] = Unanswered
  BY TxTypes DEF Finish, PhaseInv, Role
<1>3. /\ t.turns = Role /\ Keyed(r) => t.claim = CompletedRow(r)
      /\ ~Keyed(r) => t.claim = NoRow
  BY <1>2 DEF Tx, KeyInv
<1>4. executed' = executed \cup {r} /\ UNCHANGED msg
  BY <1>1, <1>2, <1>3 DEF Commit, Answered
<1>5. answer' = [answer EXCEPT ![r] = a]
  BY <1>1 DEF Commit, Answered
<1>6. claims \in [Slot -> Row] /\ (Keyed(r) => SlotOf(r) \in Slot)
  BY RowTypes DEF TypeOK
<1>7. CASE ~Keyed(r)
  <2>1. claims' = claims
    BY <1>1, <1>3, <1>7 DEF Commit
  <2> QED  BY <2>1, <1>2, <1>4, <1>5, <1>7, SameWords
           DEF Once!Execute, Once!Tell
<1>8. CASE Keyed(r)
  <2>1. claims' = [claims EXCEPT ![SlotOf(r)] = CompletedRow(r)]
    BY <1>1, <1>3, <1>8 DEF Commit, CompletedRow, NoRow
  <2>2. CompletedRow(r).turn = r /\ NoRow.turn = NoTurn
    BY DEF CompletedRow, NoRow
  <2>3. outcome' = [outcome EXCEPT ![SlotOf(r)] = r]
    BY <2>1, <2>2, <1>6, <1>8
  <2>4. outcome[SlotOf(r)] = NoTurn
    BY <2>2, <1>2, <1>6, <1>8 DEF KeyInv, Running
  <2> QED  BY <2>3, <2>4, <1>2, <1>4, <1>5, <1>8, SameWords
           DEF Once!Execute, Once!Tell
<1> QED  BY <1>7, <1>8

LEMMA OnceNext == IInv /\ [Next]_vars => [Once!Next]_(Once!vars)
<1> SUFFICES ASSUME IInv, [Next]_vars PROVE Once!Next \/ UNCHANGED OnceVars
  BY DEF Once!vars, OnceVars
<1>1. CASE UNCHANGED vars
  BY <1>1, OnceStutters DEF vars, dbVars
<1>2. ASSUME NEW r \in Request, NEW l \in Labels, NEW t \in Tx, Advances(r, l, t)
      PROVE  UNCHANGED OnceVars
  BY <1>2, OnceStutters DEF Advances, dbVars
<1>3. ASSUME NEW r \in Request, TakesClaim(r) PROVE UNCHANGED OnceVars
  BY <1>3, OnceStutters DEF TakesClaim, dbVars
<1>4. ASSUME NEW r \in Request, pc[r] # "done", GivesUp(r) PROVE Once!Next
  BY <1>4, OnceRefuses, OnceReplays, OnceTellsUnstored DEF GivesUp, Once!Next
<1>5. ASSUME NEW r \in Request, Finish(r) PROVE Once!Next
  BY <1>5, OnceExecutes DEF Once!Next
<1>6. ASSUME NEW i \in DeleteOn,
             DeleteProceeds(i) \/ \E c \in CampaignId : DeleteCampaign(i, c)
      PROVE  UNCHANGED OnceVars
  BY <1>6, OnceStutters DEF DeleteProceeds, DeleteCampaign, Deleted, dbVars
<1> QED  BY <1>1, <1>2, <1>3, <1>4, <1>5, <1>6, NextShapes

\* handle_chat implements ChatOnce: to the clients it is a service that runs a
\* keyed message at most once and answers every repetition with that turn.
THEOREM Refinement == Spec => ImplementsOnce
BY Invariance, OnceInit, OnceNext, PTL DEF Spec, ImplementsOnce, Once!Spec

-----------------------------------------------------------------------------
(* That requests do not hold each other up: what is safety in it.           *)

\* The row lock of a campaign's state has one holder at a time.
WriterInv == \A r, q \in Request :
               tx[r].writes /\ tx[q].writes /\ Target(r) = Target(q) => r = q

\* Only UpdateState writes the state; any other step of a request leaves its
\* transaction without a write that was not in it.
LEMMA NoNewWriter ==
  ASSUME TypeOK, NEW r \in Request, Step(r), ~UpdateState(r)
  PROVE  \E t \in Tx : tx' = [tx EXCEPT ![r] = t] /\ (t.writes => tx[r].writes)
<1>n. NoTx \in Tx /\ ~NoTx.writes
  BY RowTypes DEF NoTx
<1>t. tx \in [Request -> Tx] /\ tx[r] \in Tx
  BY DEF TypeOK
<1>l. \A agent \in Agent : Logged(r, agent) \in Tx /\ Logged(r, agent).writes = tx[r].writes
  BY TxTypes DEF SameWrites
<1>1. CASE UNCHANGED tx
  BY <1>1, <1>t
<1>2. CASE \E a : Answered(r, a)
  BY <1>2, <1>n DEF Answered
<1>3. CASE \E agent \in Agent : tx' = [tx EXCEPT ![r] = Logged(r, agent)]
  BY <1>3, <1>l
<1>4. CASE tx' = [tx EXCEPT ![r] = Acquired(r)]
  <2>1. Acquired(r) \in Tx /\ Acquired(r).writes = tx[r].writes
    BY TxTypes DEF SameWrites
  <2> QED  BY <1>4, <2>1
<1>5. CASE OpenTurn(r)
  <2> DEFINE t == [tx[r] EXCEPT !.creates = AutoCreates(r), !.turns = {"user"}]
  <2>1. t \in Tx /\ tx' = [tx EXCEPT ![r] = t] /\ t.writes = tx[r].writes
    BY <1>5, <1>t DEF OpenTurn, Tx, Role, AutoCreates
  <2> QED  BY <2>1
<1>6. CASE NarratorAnswers(r)
  <2> DEFINE t == [Logged(r, "Narrator") EXCEPT !.turns = Role]
  <2>1. t \in Tx /\ tx' = [tx EXCEPT ![r] = t] /\ t.writes = tx[r].writes
    BY <1>6, <1>l DEF NarratorAnswers, Tx, Agent, Role
  <2> QED  BY <2>1
<1>7. \A a : Rollback(r, a) => Answered(r, a)
  BY DEF Rollback
<1>8. \A t, a : Commit(r, t, a) => Answered(r, a)
  BY DEF Commit
<1>9. SettleClaim(r) \/ AnswerFromRow(r, NoRow) \/ AnswerFromRow(r, claims[SlotOf(r)])
      => \E a : Answered(r, a)
  BY <1>7 DEF SettleClaim, AnswerFromRow
<1>10. CASE Lookup(r)
  BY <1>10, <1>1, <1>2, <1>9 DEF Lookup
<1>11. CASE ValidateRequest(r) \/ CheckTurnLimit(r)
  BY <1>11, <1>1, <1>2, <1>7 DEF ValidateRequest, CheckTurnLimit
<1>12. CASE Claim(r) \/ ClaimBusy(r) \/ Reread(r)
  BY <1>12, <1>1, <1>2, <1>4, <1>9 DEF Claim, ClaimBusy, Reread
<1>13. CASE Load(r) \/ LoadRefused(r) \/ OpenTurnFails(r) \/ ResolveAction(r) \/ TurnFails(r)
  BY <1>13, <1>1, <1>2, <1>7 DEF Load, LoadRefused, OpenTurnFails, ResolveAction, TurnFails
<1>14. CASE StarterAnswers(r) \/ ParserAnswers(r) \/ DirectorAnswers(r)
  BY <1>14, <1>3 DEF StarterAnswers, ParserAnswers, DirectorAnswers, Agent
<1>15. CASE StarterFails(r) \/ ParserBudgetRefused(r) \/ Finish(r) \/ FinishBroken(r)
  BY <1>15, <1>2, <1>7, <1>8 DEF StarterFails, ParserBudgetRefused, Finish, FinishBroken
<1> QED  BY <1>5, <1>6, <1>10, <1>11, <1>12, <1>13, <1>14, <1>15 DEF Step

LEMMA NextWriter == IInv /\ WriterInv /\ [Next]_vars => WriterInv'
<1> SUFFICES ASSUME IInv, WriterInv, [Next]_vars PROVE WriterInv'
  OBVIOUS
<1>m. UNCHANGED msg
  BY NextMessages
<1>t. tx \in [Request -> Tx]
  BY DEF IInv, TypeOK
<1>1. CASE UNCHANGED tx
  BY <1>1, <1>m, SameMessages DEF WriterInv
<1>2. ASSUME NEW r \in Request, NEW t \in Tx, tx' = [tx EXCEPT ![r] = t],
             t.writes => tx[r].writes \/ ~UpdateBlocked(r)
      PROVE  WriterInv'
  BY <1>2, <1>t, <1>m, SameMessages DEF WriterInv, UpdateBlocked
<1>3. ASSUME NEW r \in Request, Step(r) PROVE WriterInv'
  <2>1. CASE UpdateState(r)
    <3> DEFINE t == [tx[r] EXCEPT !.writes = TRUE]
    <3>1. t \in Tx /\ tx' = [tx EXCEPT ![r] = t] /\ ~UpdateBlocked(r)
      BY <2>1, <1>t DEF UpdateState, Tx
    <3> QED  BY <3>1, <1>2
  <2>2. CASE ~UpdateState(r)
    BY <2>2, <1>3, <1>2, NoNewWriter DEF IInv
  <2> QED  BY <2>1, <2>2
<1>4. ASSUME NEW r \in Request, Crash(r) PROVE WriterInv'
  <2>1. NoTx \in Tx /\ ~NoTx.writes
    BY RowTypes DEF IInv, NoTx
  <2> QED  BY <2>1, <1>4, <1>2 DEF Crash, Rollback, Answered
<1>5. ASSUME NEW i \in DeleteOn,
             DeleteProceeds(i) \/ \E c \in CampaignId : DeleteCampaign(i, c)
      PROVE  UNCHANGED tx
  BY <1>5, DeleteChanges
<1> QED  BY <1>1, <1>3, <1>4, <1>5 DEF Next, Idle, vars

THEOREM OneWriter == Spec => []WriterInv
<1>1. Init => WriterInv
  BY DEF Init, WriterInv, NoTx
<1> QED  BY <1>1, NextWriter, Invariance, PTL DEF Spec

\* Nobody waits in a circle, nor behind somebody who waits: where each has an event
\* loop of its own, a request that is not answered can go on, or waits for the writer of
\* its campaign's row, who can.
THEOREM WaitsAlwaysEnd == Spec => []WaitsEnd
<1>1. IInv /\ WriterInv => WaitsEnd
  <2> SUFFICES ASSUME IInv, WriterInv, OwnLoops, NEW r \in Request, pc[r] # "done"
               PROVE  \/ CanGo(r)
                      \/ /\ pc[r] \in {"update", "act"}
                         /\ \E q \in Request \ {r} : /\ Target(q) = Target(r) /\ tx[q].writes
                                                   /\ CanGo(q)
    BY DEF WaitsEnd
  <2>1. ASSUME NEW q \in Request PROVE Scheduled(q)
    BY DEF Scheduled, LoopFree, OwnLoops
  <2>2. \A q \in Request : Locked(q) \/ ~InsertBlocked(q)
    BY DuplicatesNeverWait
  <2>3. ASSUME NEW q \in Request, pc[q] = "finish", Keyed(q)
        PROVE  tx[q].claim = InProgressRow(q)
    BY <2>3 DEF IInv, KeyInv, Running
  <2>4. ASSUME NEW q \in Request, pc[q] # "done",
               ~UpdateBlocked(q) \/ pc[q] \notin {"update", "act"}
        PROVE  CanGo(q)
    BY <2>1, <2>2, <2>3, <2>4 DEF CanGo
  <2>5. ASSUME NEW q \in Request, tx[q].writes PROVE pc[q] # "done" /\ ~UpdateBlocked(q)
    <3>1. pc[q] \notin Early
      BY <2>5 DEF IInv, PhaseInv, Unwritten
    <3>2. \A p \in Request \ {q} : ~(Target(p) = Target(q) /\ tx[p].writes)
      BY <2>5 DEF WriterInv
    <3> QED  BY <3>1, <3>2 DEF Early, UpdateBlocked
  <2>6. CASE UpdateBlocked(r) /\ pc[r] \in {"update", "act"}
    <3>1. PICK q \in Request \ {r} : Target(q) = Target(r) /\ tx[q].writes
      BY <2>6 DEF UpdateBlocked
    <3> QED  BY <3>1, <2>4, <2>5
  <2> QED  BY <2>4, <2>6
<1> QED  BY <1>1, Invariance, OneWriter, PTL

\* The label that a step moves its request to comes after the one it leaves.
LEMMA StepAdvances ==
  ASSUME TypeOK, NEW r \in Request, Step(r) \/ Crash(r)
  PROVE  \E l \in Labels : pc' = [pc EXCEPT ![r] = l] /\ Stage[pc[r]] < Stage[l]
<1> DEFINE To(l) == l \in Labels /\ pc' = [pc EXCEPT ![r] = l] /\ Stage[pc[r]] < Stage[l]
<1>t. pc[r] \in Labels
  BY DEF TypeOK
<1>1. ASSUME NEW a, Answered(r, a), pc[r] # "done" PROVE To("done")
  BY <1>1, <1>t DEF Answered, Labels, Stage
<1>2. ASSUME NEW a, Rollback(r, a), pc[r] # "done" PROVE To("done")
  BY <1>1, <1>2 DEF Rollback
<1>3. ASSUME NEW t, NEW a, Commit(r, t, a), pc[r] # "done" PROVE To("done")
  BY <1>1, <1>3 DEF Commit
<1>4. ASSUME NEW from \in Labels, NEW to \in Labels, Goto(r, from, to), Stage[from] < Stage[to]
      PROVE  To(to)
  BY <1>4 DEF Goto
<1>5. pc[r] # "done" /\ (SettleClaim(r) \/ \E row : AnswerFromRow(r, row)) => To("done")
  BY <1>2 DEF SettleClaim, AnswerFromRow
<1>6. CASE Lookup(r)
  BY <1>6, <1>4, <1>5 DEF Lookup, Labels, Stage
<1>7. CASE ValidateRequest(r) \/ CheckTurnLimit(r)
  BY <1>7, <1>2, <1>4 DEF ValidateRequest, CheckTurnLimit, Labels, Stage
<1>8. CASE Claim(r) \/ ClaimBusy(r) \/ Reread(r)
  BY <1>8, <1>4, <1>5 DEF Claim, ClaimBusy, Reread, Labels, Stage
<1>9. CASE Load(r) \/ StarterAnswers(r) \/ OpenTurn(r) \/ ParserAnswers(r)
           \/ ResolveAction(r) \/ UpdateState(r) \/ DirectorAnswers(r) \/ NarratorAnswers(r)
  BY <1>9, <1>4 DEF Load, StarterAnswers, OpenTurn, ParserAnswers, ResolveAction,
     UpdateState, DirectorAnswers, NarratorAnswers, Labels, Stage
<1>10. CASE LoadRefused(r) \/ OpenTurnFails(r) \/ TurnFails(r) \/ FinishBroken(r) \/ Crash(r)
  BY <1>10, <1>2 DEF LoadRefused, OpenTurnFails, TurnFails, FinishBroken, Crash
<1>11. CASE StarterFails(r) \/ ParserBudgetRefused(r) \/ Finish(r)
  BY <1>11, <1>2, <1>3 DEF StarterFails, ParserBudgetRefused, Finish
<1> QED  BY <1>6, <1>7, <1>8, <1>9, <1>10, <1>11 DEF Step

\* A request never comes back to where it was: it takes fewer steps than there
\* are labels, however it is refused, retried or overtaken.
THEOREM RequestsAdvance == Spec => StepsAdvance
<1>1. IInv /\ [Next]_vars
      => [\A r \in Request : Step(r) \/ pc'[r] # pc[r] => Stage[pc[r]] < Stage[pc'[r]]]_vars
  <2> SUFFICES ASSUME IInv, [Next]_vars, NEW r \in Request, Step(r) \/ pc'[r] # pc[r]
               PROVE  Stage[pc[r]] < Stage[pc'[r]]
    OBVIOUS
  <2>t. pc \in [Request -> Labels] /\ TypeOK
    BY DEF IInv, TypeOK
  <2>1. CASE Step(r) \/ Crash(r)
    BY <2>1, <2>t, StepAdvances
  <2>2. ASSUME NEW q \in Request, Step(q) \/ Crash(q), q # r PROVE pc'[r] = pc[r]
    BY <2>2, <2>t, StepAdvances
  <2>3. ASSUME NEW i \in DeleteOn,
               DeleteProceeds(i) \/ \E c \in CampaignId : DeleteCampaign(i, c)
        PROVE  pc' = pc
    BY <2>3, DeleteChanges
  <2> QED  BY <2>1, <2>2, <2>3 DEF Next, Idle, vars
<1> QED  BY <1>1, Invariance, PTL DEF Spec, StepsAdvance
=============================================================================
