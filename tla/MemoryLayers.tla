---------------------------- MODULE MemoryLayers ----------------------------
(***************************************************************************)
(* The memory of one campaign: what _maybe_update_memory_layers stores     *)
(* with each turn, while other turns of the campaign run, providers fail,  *)
(* budgets are refused and PostgreSQL refuses a statement.  All of it is   *)
(* in the transaction of the turn; its exceptions are swallowed.            *)
(* A transaction that had a statement refused is broken: every later       *)
(* statement is refused and its COMMIT is a rollback that says nothing.    *)
(* The turn before the Narrator answers, and who may take one, is          *)
(* ChatOrchestrator's.                                                     *)
(***************************************************************************)
EXTENDS Naturals, FiniteSets, FiniteSetsExt

CONSTANTS Request,      \* POST /api/chat on the campaign; names its turn
          Keyed,        \* those with an Idempotency-Key
          SummaryEvery, \* MEMORY_SUMMARY_EVERY_TURNS
          ReflectEvery, \* MEMORY_REFLECTION_EVERY_TURNS
          Window,       \* turns a memory agent is shown
          Before,       \* how many turns the campaign may have had already
          Deed          \* what each request's tool does: see Leaves

ASSUME MemoryAssumption ==
  /\ IsFiniteSet(Request) /\ Keyed \subseteq Request
  /\ {SummaryEvery, ReflectEvery, Window} \subseteq Nat \ {0}
  /\ Before \subseteq Nat
  /\ Deed \in [Request -> {"unparsed", "failed", "done", "changed"}]

VARIABLES
  before,  \* the turns the campaign had already
  pc,      \* where each request stands
  tx,      \* what it has written: see NoTx
  stored,  \* the requests whose transaction is committed
  answer,  \* what its client was told
  trouble, \* what its maintenance met: a refused budget, a refused statement
  saw      \* history: the turns each request counted
vars == <<before, pc, tx, stored, answer, trouble, saw>>

Layer == {"summary", "reflection"}
Every(layer) == IF layer = "summary" THEN SummaryEvery ELSE ReflectEvery

\* A turn by the created_at of its reply, and its summary by its own, 0 for
\* none; the kinds of memory it left; the turns a summary of it is made from;
\* and the layers with a call logged.
NoTx == [reply |-> 0, memories |-> {}, summary |-> 0, covers |-> {}, log |-> {}]
NothingSeen == [layer \in Layer |-> {}]

Init == /\ before \in Before
        /\ pc = [r \in Request |-> "narrator"]
        /\ tx = [r \in Request |-> NoTx]
        /\ stored = {}
        /\ answer = [r \in Request |-> "none"]
        /\ trouble = [r \in Request |-> {}]
        /\ saw = [r \in Request |-> NothingSeen]

Goto(r, from, to) == pc[r] = from /\ pc' = [pc EXCEPT ![r] = to]
Ends(r, code) == /\ pc' = [pc EXCEPT ![r] = "done"]
                 /\ answer' = [answer EXCEPT ![r] = code]
                 /\ UNCHANGED <<before, trouble>>
Rollback(r, code) == /\ Ends(r, code)
                     /\ tx' = [tx EXCEPT ![r] = NoTx]
                     /\ saw' = [saw EXCEPT ![r] = NothingSeen]
                     /\ UNCHANGED stored
\* The time of the next created_at.
Now == 1 + Max({0} \cup UNION {{tx[r].reply, tx[r].summary} : r \in Request})

-----------------------------------------------------------------------------
(* What a request reads: what is committed, and its own.                     *)

Visible(r) == stored \cup {r}
CampaignTurns(r) == before + Cardinality(Visible(r))
\* load_recent_turns and the agents' slice of it: the newest n, but its own.
Newest(n) == {q \in stored : Cardinality({p \in stored : tx[p].reply > tx[q].reply}) < n}

Summaries(r) == {q \in Visible(r) : tx[q].summary # 0}
Latest(r) == {q \in Summaries(r) : \A p \in Summaries(r) : tx[p].summary <= tx[q].summary}
BugPreviousCovers(r) == {}
PreviousCovers(r) == UNION {tx[q].covers : q \in Latest(r)}

-----------------------------------------------------------------------------
(* The turn.                                                                 *)

\* maybe_store_semantic_memories, by what the parser made of the message and
\* what the tool did.
BugLeaves(deed) == {"message", deed}
Leaves(deed) == {"message"} \cup CASE deed = "unparsed" -> {}
                                   [] deed = "failed" -> {"action"}
                                   [] deed = "done" -> {"action", "event"}
                                   [] deed = "changed" -> {"action", "event", "state"}

\* The Narrator's reply, the turns loaded with it for the memory agents, and
\* the semantic memories of the turn.
Narrate(r) ==
  /\ Goto(r, "narrator", "summary_due")
  /\ tx' = [tx EXCEPT ![r].reply = Now, ![r].memories = Leaves(Deed[r]),
                      ![r].covers = {r} \cup Newest(Window - 1)]
  /\ UNCHANGED <<before, stored, answer, trouble, saw>>
NarratorFails(r) == pc[r] = "narrator" /\ Rollback(r, "error")

-----------------------------------------------------------------------------
(* Summary and reflection.                                                   *)

DueAt(layer) == IF layer = "summary" THEN "summary_due" ELSE "reflection_due"
AskAt(layer) == IF layer = "summary" THEN "summary_ask" ELSE "reflection_ask"
WaitAt(layer) == IF layer = "summary" THEN "summary" ELSE "reflection"
After(layer) == IF layer = "summary" THEN "reflection_due" ELSE "finish"

\* should_update_summary and should_reflect_memory.
BugIsDue(r, layer) == (CampaignTurns(r) + 1) % Every(layer) = 0
IsDue(r, layer) == CampaignTurns(r) % Every(layer) = 0
Due(r, layer) ==
  /\ Goto(r, DueAt(layer), IF IsDue(r, layer) THEN AskAt(layer) ELSE After(layer))
  /\ saw' = [saw EXCEPT ![r][layer] = Visible(r)]
  /\ UNCHANGED <<before, tx, stored, answer, trouble>>

\* The latest summary is read and the budget checked: a refusal ends the
\* maintenance, the reflection with it, and only that.
BugRefused(r, layer) == pc[r] = AskAt(layer) /\ Rollback(r, "error")
Refused(r, layer) ==
  /\ Goto(r, AskAt(layer), "finish")
  /\ trouble' = [trouble EXCEPT ![r] = @ \cup {"budget"}]
  /\ UNCHANGED <<before, tx, stored, answer, saw>>
Ask(r, layer) ==
  /\ Goto(r, AskAt(layer), WaitAt(layer))
  /\ tx' = [tx EXCEPT ![r].covers = IF layer = "summary" THEN @ \cup PreviousCovers(r) ELSE @]
  /\ UNCHANGED <<before, stored, answer, trouble, saw>>

Summarized(r) ==
  /\ Goto(r, "summary", After("summary"))
  /\ tx' = [tx EXCEPT ![r].log = @ \cup {"summary"}, ![r].summary = Now]
  /\ UNCHANGED <<before, stored, answer, trouble, saw>>
\* What the provider made of it, or the fallback's facts.
Reflected(r) ==
  /\ Goto(r, "reflection", After("reflection"))
  /\ tx' = [tx EXCEPT ![r].log = @ \cup {"reflection"}, ![r].memories = @ \cup {"reflection"}]
  /\ UNCHANGED <<before, stored, answer, trouble, saw>>

\* The provider fails, and that is logged; or what it answered cannot be
\* stored, which is logged as a failure after its success.
CallFails(r, layer) ==
  /\ Goto(r, WaitAt(layer), After(layer))
  /\ tx' = [tx EXCEPT ![r].log = @ \cup {layer}]
  /\ UNCHANGED <<before, stored, answer, trouble, saw>>

\* PostgreSQL refuses a statement of the maintenance.  The handler's own
\* attempt to log it is refused as well.
Maintenance == {"summary_due", "summary_ask", "summary",
                "reflection_due", "reflection_ask", "reflection"}
StatementFails(r) ==
  /\ pc[r] \in Maintenance
  /\ Goto(r, pc[r], "finish")
  /\ trouble' = [trouble EXCEPT ![r] = @ \cup {"statement"}]
  /\ UNCHANGED <<before, tx, stored, answer, saw>>
-----------------------------------------------------------------------------
\* complete_chat_request_idempotency, if there is a key, and COMMIT.
BugCompletes(r) == TRUE
Completes(r) == r \in Keyed => "statement" \notin trouble[r]
Finish(r) ==
  /\ pc[r] = "finish"
  /\ \/ ~Completes(r) /\ Rollback(r, "error")
     \/ Completes(r) /\ "statement" \in trouble[r] /\ Rollback(r, "ok")
     \/ /\ Completes(r) /\ "statement" \notin trouble[r]
        /\ Ends(r, "ok")
        /\ stored' = stored \cup {r}
        /\ UNCHANGED <<tx, saw>>

\* The process or the connection dies.
Crash(r) == pc[r] # "done" /\ Rollback(r, "lost")

Idle == (\A r \in Request : pc[r] = "done") /\ UNCHANGED vars

Step(r) ==
  \/ Narrate(r) \/ NarratorFails(r) \/ Summarized(r) \/ Reflected(r)
  \/ StatementFails(r) \/ Finish(r)
  \/ \E layer \in Layer : \/ Due(r, layer) \/ Refused(r, layer)
                          \/ Ask(r, layer) \/ CallFails(r, layer)

Next == (\E r \in Request : Step(r) \/ Crash(r)) \/ Idle
Spec == Init /\ [][Next]_vars
-----------------------------------------------------------------------------
Labels == {"narrator", "finish", "done"} \cup Maintenance
Memory == {"message", "action", "event", "state", "reflection"}
Tx == [reply : Nat, memories : SUBSET Memory, summary : Nat,
       covers : SUBSET Request, log : SUBSET Layer]

\* Every variable keeps its type.
TypeOK == /\ before \in Before
          /\ pc \in [Request -> Labels]
          /\ tx \in [Request -> Tx]
          /\ stored \subseteq Request
          /\ answer \in [Request -> {"none", "ok", "error", "lost"}]
          /\ trouble \in [Request -> SUBSET {"budget", "statement"}]
          /\ saw \in [Request -> [Layer -> SUBSET Request]]

\* A reply the player got is a turn that is stored.  The one exception is a
\* request without a key of whose maintenance PostgreSQL refused a statement:
\* with a key, completing the claim finds the broken transaction.
AnsweredIsStored ==
  \A r \in Request : answer[r] = "ok" => \/ r \in stored
                                         \/ r \notin Keyed /\ "statement" \in trouble[r]

\* The maintenance costs nobody the turn, however its calls and its budget
\* go: after the Narrator's reply only a refused statement is an error.
MaintenanceIsFree ==
  [][\A r \in Request :
       /\ pc[r] \in Maintenance \cup {"finish"}
       /\ answer[r] = "none" /\ answer'[r] = "error"
       => "statement" \in trouble[r]]_vars

\* Two stored turns neither of which counted the other.
Seen(r, layer) == IF saw[r][layer] = {} THEN saw[r]["summary"] ELSE saw[r][layer]
Overlapped(layer) == \E p, q \in stored : p \notin Seen(q, layer) /\ q \notin Seen(p, layer)

\* Every Nth turn has its summary tried, and every Mth its reflection, in a
\* turn that is stored, whatever failed or died; unless its budget was refused
\* or turns overlapped: two that count N + 1 jump over N.
DueIsTried ==
  \A layer \in Layer : \A n \in before + 1 .. before + Cardinality(stored) :
    n % Every(layer) = 0 =>
      \/ \E r \in stored : /\ before + Cardinality(Seen(r, layer)) = n
                           /\ layer \in tx[r].log \/ "budget" \in trouble[r]
      \/ Overlapped(layer)

\* What a summary was made from is in every later one, unless turns
\* overlapped: the later of two may have been made without the other.
ForgottenOnlyByOverlap ==
  \A p, q \in stored :
    0 < tx[p].summary /\ tx[p].summary < tx[q].summary =>
      tx[p].covers \subseteq tx[q].covers \/ Overlapped("summary")
=============================================================================
