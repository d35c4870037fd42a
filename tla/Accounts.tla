------------------------------ MODULE Accounts ------------------------------
(***************************************************************************)
(* Who the users are, what campaigns they have and what they have used:    *)
(* the first login of an identity, POST and DELETE of a campaign, and the   *)
(* usage limits over the tables, at READ COMMITTED and with any number of  *)
(* requests in progress.  A chat turn is here as what it uses: a counted   *)
(* turn and a sequence of counted model calls, on a campaign there is;     *)
(* ChatOrchestrator has its claims, failures and state.                    *)
(* An operator named Bug<Name> is a plausible wrong <Name>; no action uses *)
(* it.                                                                     *)
(***************************************************************************)
EXTENDS Naturals, FiniteSets, FiniteSetsExt

CONSTANTS Request,      \* HTTP requests; a request also names what it creates
          Identity,     \* (provider_issuer, provider_subject)
          Member,       \* users there are before the first request,
          MemberOf,     \* [Member -> Identity]
          Campaign,     \* and their campaigns,
          SeedOwner,    \* [Campaign -> Member]
          NoCampaign, NoUser,
          Scenarios,    \* what the requests may ask: functions to Wish
          Cost,         \* token counts a provider may report
          Pending,      \* a call's estimated input and maximal output tokens
          MaxCampaigns, \* MAX_CAMPAIGNS_PER_PLAYER
          MaxTurns,     \* MAX_TURNS_PER_CAMPAIGN
          MaxRequests,  \* MAX_DAILY_PLAYER_REQUESTS
          MaxTokens,    \* MAX_DAILY_PLAYER_TOKENS
          MaxProjectRequests, MaxProjectTokens,
          LastDay       \* bound on the calendar

User == Member \cup Request
CampaignId == Campaign \cup Request
Kind == {"login", "create", "play", "delete"}
Wish == [kind : Kind, who : Identity \cup User, campaign : CampaignId \cup {NoCampaign}]

ASSUME AccountsAssumption ==
  /\ Scenarios \subseteq [Request -> Wish]
  /\ \A s \in Scenarios, r \in Request :
       /\ s[r].kind = "login" <=> s[r].who \notin User
       /\ s[r].kind \in {"play", "delete"} =>
            \/ s[r].campaign \in Campaign
            \/ s[r].campaign \in Request /\ s[s[r].campaign].kind = "create"
  /\ MemberOf \in [Member -> Identity] /\ SeedOwner \in [Campaign -> Member]
  /\ \A m, n \in Member : MemberOf[m] = MemberOf[n] => m = n
  /\ Request \cap (Member \cup Campaign) = {} /\ NoUser \notin Identity \cup User
  /\ Identity \cap User = {} /\ Member \cap Campaign = {}
  /\ Cost \subseteq Nat /\ Pending \in Nat /\ LastDay \in Nat
  /\ {MaxCampaigns, MaxTurns, MaxRequests, MaxTokens, MaxProjectRequests,
      MaxProjectTokens} \subseteq Nat

\* Before the first request nothing is overdrawn, whatever the limit was when
\* the campaigns of the members were created.
ASSUME SeedsAssumption ==
  /\ IsFiniteSet(Campaign)
  /\ \A m \in Member : Cardinality({c \in Campaign : SeedOwner[c] = m}) <= MaxCampaigns

VARIABLES
  want,    \* what each request asks
  pc,      \* where it stands
  tx,      \* what its open transaction has written
  answer,  \* what its client was told
  day,     \* the UTC date
  users,   \* table internal_users: <<user, identity>>
  live,    \* table campaigns
  rows,    \* tables turns and game_events: see Row
  calls,   \* table model_requests
  knew     \* history: what each use knew of the others when it was checked

dbVars == <<users, live, rows, calls>>
vars == <<want, pc, tx, answer, day, dbVars, knew>>

Call == {"starter", "opening", "title", "parser", "director", "narrator"}
Plan(kind) == IF kind = "create" THEN <<"starter", "opening", "title">>
                                 ELSE <<"parser", "director", "narrator">>

Days == 0 .. LastDay
Row == [by : Request, is : {"user", "assistant", "event"}, on : Days]
CallRow == [by : Request, call : Call, on : Days, tokens : Nat]
NoTx == [user |-> FALSE, rows |-> {}, log |-> {}]

Labels == {"lookup", "insert", "insert_again", "reread", "refresh",
           "auth", "room", "find", "quota", "check", "asked", "write", "delete", "done"}

Who(r) == want[r].who
CampaignOf(r) == IF want[r].kind = "create" THEN r ELSE want[r].campaign
OwnerOf(c) == IF c \in Campaign THEN SeedOwner[c] ELSE want[c].who

Thing == Call \cup {"exchange", "turn", "campaign"}
NothingUsed == [thing \in Thing |-> {}]

Unanswered == [code |-> "none", user |-> NoUser]
Told(code) == [code |-> code, user |-> NoUser]

Init == /\ want \in Scenarios
        /\ pc = [r \in Request |-> IF want[r].kind = "login" THEN "lookup" ELSE "auth"]
        /\ tx = [r \in Request |-> NoTx]
        /\ answer = [r \in Request |-> Unanswered]
        /\ day = 0
        /\ users = {<<m, MemberOf[m]>> : m \in Member}
        /\ live = Campaign
        /\ rows = {} /\ calls = {}
        /\ knew = [r \in Request |-> NothingUsed]

Goto(r, from, to) == /\ pc[r] = from
                     /\ pc' = [pc EXCEPT ![r] = to]
Answers(r, a) == /\ pc' = [pc EXCEPT ![r] = "done"]
                 /\ answer' = [answer EXCEPT ![r] = a]
                 /\ tx' = [tx EXCEPT ![r] = NoTx]
                 /\ UNCHANGED <<want, day>>

\* An exception leaves session(), or the process ends (then the client gets no
\* answer, which is no better than an error): what was used is not.
Rollback(r, code) == /\ Answers(r, Told(code))
                     /\ knew' = [knew EXCEPT ![r] = NothingUsed]
                     /\ UNCHANGED dbVars

-----------------------------------------------------------------------------
(* The first login of an identity (resolve_internal_user).                  *)

\* get_internal_user_by_identity: the committed row, or this request's own.
Matches(r) == {u \in User : \/ <<u, Who(r)>> \in users
                            \/ u = r /\ tx[r].user}

LookUp(r) ==
  /\ Goto(r, "lookup", IF Matches(r) = {} THEN "insert" ELSE "refresh")
  /\ UNCHANGED <<want, tx, answer, day, dbVars, knew>>

\* The unique index makes an INSERT wait for another transaction's INSERT of
\* the same identity; once that is committed it fails, within its savepoint.
InsertWaits(r) == \E q \in Request \ {r} : tx[q].user /\ Who(q) = Who(r)
BugTaken(r) == FALSE
Taken(r) == \E u \in User : <<u, Who(r)>> \in users

Insert(r) ==
  /\ pc[r] \in {"insert", "insert_again"}
  /\ ~InsertWaits(r)
  /\ \/ /\ Taken(r)
        /\ Goto(r, pc[r], IF pc[r] = "insert" THEN "insert_again" ELSE "reread")
        /\ UNCHANGED tx
     \/ /\ ~Taken(r)
        /\ Goto(r, pc[r], "reread")
        /\ tx' = [tx EXCEPT ![r].user = TRUE]
  /\ UNCHANGED <<want, answer, day, dbVars, knew>>

\* With no row to be seen the login fails (RuntimeError).
BugReread(r) ==
  /\ pc[r] = "reread"
  /\ IF tx[r].user
     THEN /\ Goto(r, "reread", "refresh")
          /\ UNCHANGED <<want, tx, answer, day, dbVars, knew>>
     ELSE Rollback(r, "unresolved")
Reread(r) ==
  /\ pc[r] = "reread"
  /\ IF Matches(r) # {}
     THEN /\ Goto(r, "reread", "refresh")
          /\ UNCHANGED <<want, tx, answer, day, dbVars, knew>>
     ELSE Rollback(r, "unresolved")

\* The profile is updated, the row read again, the transaction committed.
BugResolved(r) == r
Resolved(r) == CHOOSE u \in Matches(r) : TRUE
SignedIn(r) ==
  /\ pc[r] = "refresh" /\ Matches(r) # {}
  /\ Answers(r, [code |-> "ok", user |-> Resolved(r)])
  /\ users' = IF tx[r].user THEN users \cup {<<r, Who(r)>>} ELSE users
  /\ UNCHANGED <<live, rows, calls, knew>>

\* require_authenticated_user_context, before any other handler.
First(kind) == CASE kind = "create" -> "room"
                 [] kind = "play" -> "find"
                 [] kind = "delete" -> "delete"
BugAuthenticated(r) == TRUE
Authenticated(r) == \E i \in Identity : <<Who(r), i>> \in users
Authenticate(r) ==
  /\ pc[r] = "auth"
  /\ IF Authenticated(r)
     THEN /\ Goto(r, "auth", First(want[r].kind))
          /\ UNCHANGED <<want, tx, answer, day, dbVars, knew>>
     ELSE Rollback(r, "error")
-----------------------------------------------------------------------------
(* What counts.                                                             *)

Owned(u) == {c \in live : OwnerOf(c) = u}
UserTurns(c) == {row \in rows : row.is = "user" /\ CampaignOf(row.by) = c}
TurnsToday(u) == {row \in rows : /\ row.is = "user" /\ row.on = day
                                 /\ Who(row.by) = u /\ CampaignOf(row.by) \in live}
Today(log) == {c \in log : c.on = day}
\* An open transaction sees the committed calls and its own.
Visible(r) == Today(calls \cup tx[r].log)
Of(u, log) == {c \in log : Who(c.by) = u}
Tokens(log) == MapThenSumSet(LAMBDA c : c.tokens, log)

\* History: what use <<r, thing>> knew when it passed its check.
Knows(r, thing, uses) == knew' = [knew EXCEPT ![r][thing] = uses]

\* _check_model_call_budget, in its order; the request's own size comes first.
BugBudgetAllows(r) == Tokens(Of(Who(r), Today(calls))) + Pending <= MaxTokens
BudgetAllows(r) ==
  /\ Tokens(Of(Who(r), Visible(r))) + Pending <= MaxTokens
  /\ Cardinality(Visible(r)) < MaxProjectRequests
  /\ Tokens(Visible(r)) + Pending <= MaxProjectTokens

\* _validate_campaign_creation: a count, long before the campaign is there.
MakeRoom(r) ==
  /\ pc[r] = "room"
  /\ IF Cardinality(Owned(Who(r))) < MaxCampaigns
     THEN /\ Goto(r, "room", "check")
          /\ Knows(r, "campaign", {<<c, "campaign">> : c \in live})
          /\ UNCHANGED <<want, tx, answer, day, dbVars>>
     ELSE Rollback(r, "error")

\* validate_campaign_turn_limit, checked long before the turn is there.
TurnsLeft(c) == Cardinality(UserTurns(c)) < MaxTurns

\* validate_chat_request and validate_campaign_turn_limit (a deletion between
\* them is one after them: it ends the request in any case) and, further on,
\* validate_daily_request_limit.
Find(r) ==
  /\ pc[r] = "find"
  /\ IF CampaignOf(r) \in Owned(Who(r)) /\ TurnsLeft(CampaignOf(r))
     THEN /\ Goto(r, "find", "quota")
          /\ Knows(r, "exchange", {<<row.by, "exchange">> : row \in rows})
          /\ UNCHANGED <<want, tx, answer, day, dbVars>>
     ELSE Rollback(r, "error")

DailyLimit(r) ==
  /\ pc[r] = "quota"
  /\ IF Cardinality(TurnsToday(Who(r))) < MaxRequests
     THEN /\ Goto(r, "quota", "check")
          /\ Knows(r, "turn", {<<row.by, "turn">> : row \in rows})
          /\ UNCHANGED <<want, tx, answer, day, dbVars>>
     ELSE Rollback(r, "error")
-----------------------------------------------------------------------------
(* Model calls: a budget check, an await, an audit record.                  *)

Made(r) == Cardinality(tx[r].log)
NextCall(r) == Plan(want[r].kind)[Made(r) + 1]

\* The player's turn is inserted between the parser's check and its call.
Opens(r) == want[r].kind = "play" /\ Made(r) = 0
BugNewRow(r, is) == [by |-> r, is |-> is, on |-> day + 1]
NewRow(r, is) == [by |-> r, is |-> is, on |-> day]

Ask(r) ==
  /\ Goto(r, "check", "asked")
  /\ BudgetAllows(r)
  /\ Opens(r) => CampaignOf(r) \in live
  /\ tx' = [tx EXCEPT ![r].rows = IF Opens(r) THEN {NewRow(r, "user")} ELSE @]
  /\ Knows(r, NextCall(r), {<<c.by, c.call>> : c \in calls \cup tx[r].log})
  /\ UNCHANGED <<want, answer, day, dbVars>>

\* A limit; a request too large, whatever was used; or the campaign deleted
\* meanwhile.
AskRefused(r) ==
  /\ pc[r] = "check"
  /\ Rollback(r, "error")

\* The provider's answer may come without a usage report: then the estimates
\* count.
Counted == Cost \cup {Pending}
Logged(r, tokens) ==
  tx[r].log \cup {[by |-> r, call |-> NextCall(r), on |-> day, tokens |-> tokens]}

Answered(r) ==
  /\ pc[r] = "asked"
  /\ \E tokens \in Counted : tx' = [tx EXCEPT ![r].log = Logged(r, tokens)]
  /\ pc' = [pc EXCEPT ![r] = IF Made(r) = 2 THEN "write" ELSE "check"]
  /\ UNCHANGED <<want, answer, day, dbVars, knew>>

\* No starter abilities, whether the provider failed or what it returned
\* does not validate: create_campaign still commits, the record only.
BugStarterFails(r) ==
  /\ pc[r] = "asked" /\ NextCall(r) = "starter"
  /\ Answers(r, Told("error"))
  /\ live' = live \cup {r}
  /\ UNCHANGED <<users, rows, calls, knew>>
StarterFails(r) ==
  /\ pc[r] = "asked" /\ NextCall(r) = "starter"
  /\ Answers(r, Told("error"))
  /\ \E tokens \in Counted : calls' = calls \cup Logged(r, tokens)
  /\ UNCHANGED <<users, live, rows, knew>>

\* Any other call fails, or the title is empty: everything is rolled back.
CallFails(r) ==
  /\ pc[r] = "asked" /\ NextCall(r) # "starter"
  /\ Rollback(r, "error")

\* The campaign with its opening, or the narrator's turn; commit.
Written(r) == tx[r].rows \cup {NewRow(r, "assistant"), NewRow(r, "event")}
Write(r) ==
  /\ pc[r] = "write"
  /\ Answers(r, Told("ok"))
  /\ live' = IF want[r].kind = "create" THEN live \cup {r} ELSE live
  /\ rows' = rows \cup Written(r)
  /\ calls' = calls \cup tx[r].log
  /\ UNCHANGED <<users, knew>>
-----------------------------------------------------------------------------
(* Deletion and time.                                                       *)

\* An open transaction's turn share-locks its campaign's row.
Referenced(c) == \E q \in Request : tx[q].rows # {} /\ CampaignOf(q) = c

\* ON DELETE CASCADE: turns and events go, the audit records do not refer to
\* campaigns.
BugCascade(c) == /\ rows' = {row \in rows : CampaignOf(row.by) # c}
                 /\ calls' = {call \in calls : CampaignOf(call.by) # c}
Cascade(c) == /\ rows' = {row \in rows : CampaignOf(row.by) # c}
              /\ UNCHANGED calls

BugDeletable(r) == CampaignOf(r) \in live
Deletable(r) == CampaignOf(r) \in Owned(Who(r))
Delete(r) ==
  /\ pc[r] = "delete"
  /\ IF Deletable(r)
     THEN /\ ~Referenced(CampaignOf(r))
          /\ Answers(r, Told("ok"))
          /\ live' = live \ {CampaignOf(r)}
          /\ Cascade(CampaignOf(r))
          /\ UNCHANGED <<users, knew>>
     ELSE Rollback(r, "error")

Crash(r) == pc[r] # "done" /\ Rollback(r, "error")

Midnight == /\ day < LastDay
            /\ day' = day + 1
            /\ UNCHANGED <<want, pc, tx, answer, dbVars, knew>>

Idle == (\A r \in Request : pc[r] = "done") /\ UNCHANGED vars

Step(r) == \/ LookUp(r) \/ Insert(r) \/ Reread(r) \/ SignedIn(r) \/ Authenticate(r)
           \/ MakeRoom(r) \/ Find(r) \/ DailyLimit(r) \/ Ask(r) \/ AskRefused(r)
           \/ Answered(r) \/ StarterFails(r) \/ CallFails(r) \/ Write(r) \/ Delete(r)

Next == \/ \E r \in Request : Step(r) \/ Crash(r)
        \/ Midnight
        \/ Idle

Spec == Init /\ [][Next]_vars
-----------------------------------------------------------------------------
Answer == [code : {"none", "ok", "error", "unresolved"},
           user : User \cup {NoUser}]
Tx == [user : BOOLEAN, rows : SUBSET Row, log : SUBSET CallRow]
Use == CampaignId \X Thing

\* Every variable keeps its type.
TypeOK == /\ want \in Scenarios
          /\ pc \in [Request -> Labels]
          /\ tx \in [Request -> Tx]
          /\ answer \in [Request -> Answer]
          /\ day \in Days
          /\ users \subseteq User \X Identity
          /\ live \subseteq CampaignId
          /\ rows \subseteq Row
          /\ calls \subseteq CallRow
          /\ knew \in [Request -> [Thing -> SUBSET Use]]

\* However first logins race or crash, none of them fails: whoever loses the
\* INSERT finds the winner's row.
SignInSucceeds ==
  \A r \in Request : want[r].kind = "login" => answer[r].code # "unresolved"

\* One user for an identity, and every login is told that user.
IdsOf(i) == {u \in User : <<u, i>> \in users}
Directory == INSTANCE UserDirectory WITH
  of <- [r \in {q \in Request : want[q].kind = "login"} |-> Who(r)],
  user <- [i \in Identity |-> IF IdsOf(i) = {} THEN NoUser ELSE CHOOSE u \in IdsOf(i) : TRUE],
  told <- [r \in Request |-> answer[r].user]

\* A campaign is there with its opening or not at all, a turn and its event
\* with the rest of the exchange and with the campaign, and nothing belongs
\* to nobody: failed creations commit, deletions cascade.
RowsWhole ==
  /\ \A r \in live \cap Request : \E row \in rows : row.by = r /\ row.is = "assistant"
  /\ \A row \in rows :
       /\ CampaignOf(row.by) \in live
       /\ \A is \in {"assistant", "event"} : \E other \in rows : other.by = row.by /\ other.is = is
  /\ \A c \in live : \E i \in Identity : <<OwnerOf(c), i>> \in users
  /\ \A call \in calls : \E i \in Identity : <<Who(call.by), i>> \in users

\* What is used is more than a limit allows only if two of the uses were
\* checked without knowing of each other: requests one after another stay
\* within every limit, the last call's own size apart.
Apart(a, b) == a \notin knew[b[1]][b[2]] /\ b \notin knew[a[1]][a[2]]
Overlap(uses) == \E a, b \in uses : a[1] # b[1] /\ Apart(a, b)
CallUses(log) == {<<c.by, c.call>> : c \in log}
Fits(log, limit) ==
  \/ log = {}
  \/ \E last \in log : Tokens(log \ {last}) + Pending <= limit
  \/ Overlap(CallUses(log))
OverdrawnOnlyByOverlap ==
  /\ \A u \in User :
       /\ Fits(Of(u, Today(calls)), MaxTokens)
       /\ \/ Cardinality(TurnsToday(u)) <= MaxRequests
          \/ Overlap({<<row.by, "turn">> : row \in TurnsToday(u)})
       /\ \/ Cardinality(Owned(u)) <= MaxCampaigns
          \/ Overlap({<<c, "campaign">> : c \in Owned(u) \cap Request})
  /\ \A c \in live : \/ Cardinality(UserTurns(c)) <= MaxTurns
                     \/ Overlap({<<row.by, "exchange">> : row \in UserTurns(c)})
  /\ Fits(Today(calls), MaxProjectTokens)
  /\ \/ Cardinality(Today(calls)) <= MaxProjectRequests
     \/ Overlap(CallUses(Today(calls)))

\* Within a day nothing gives tokens back; a deletion gives back the turns of
\* the campaign, as the count joins campaigns, and nothing else does.
SpendingIsKept ==
  [][\A u \in User :
       day' = day =>
         /\ Of(u, Today(calls)) \subseteq Of(u, Today(calls))'
         /\ TurnsToday(u) \subseteq TurnsToday(u)' \/ live \ live' # {}]_vars

\* Nobody changes what is another user's: a campaign, what belongs to it or
\* what was used in a user's name changes only in a step of a request of that
\* user, who exists.
Holdings(u) == <<Owned(u), {row \in rows : OwnerOf(CampaignOf(row.by)) = u}, Of(u, calls)>>
TenantsApart ==
  [][\A u \in User :
       Holdings(u)' # Holdings(u) =>
         \E r \in Request : /\ pc[r] # pc'[r] /\ Who(r) = u
                            /\ \E i \in Identity : <<u, i>> \in users]_vars

ImplementsDirectory == Directory!Spec
=============================================================================
