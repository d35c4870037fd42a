---------------------------- MODULE AccountsProofs ----------------------------
(***************************************************************************)
(* Theorems about Accounts, for every set of requests, users, identities   *)
(* and campaigns, every wish list, every usage report and every limit.     *)
(***************************************************************************)
EXTENDS Accounts, FiniteSetTheorems, TLAPS

-----------------------------------------------------------------------------
(* What the requests may ask.                                               *)

LEMMA Wishes ==
  ASSUME want \in Scenarios, NEW r \in Request
  PROVE  /\ want[r].kind \in Kind
         /\ want[r].kind = "login" => Who(r) \in Identity
         /\ want[r].kind # "login" => Who(r) \in User
         /\ want[r].kind # "login" => CampaignOf(r) \in CampaignId
         /\ CampaignOf(r) \in Request /\ want[r].kind # "login"
              => want[CampaignOf(r)].kind = "create"
<1>1. want \in [Request -> Wish]
  BY AccountsAssumption
<1>2. want[r] \in Wish
  BY <1>1
<1>3. want[r].kind = "login" <=> want[r].who \notin User
  BY AccountsAssumption
<1>4. want[r].kind \in {"play", "delete"} =>
        \/ want[r].campaign \in Campaign
        \/ want[r].campaign \in Request /\ want[want[r].campaign].kind = "create"
  BY AccountsAssumption
<1>5. Request \cap Campaign = {}
  BY AccountsAssumption
<1> QED  BY <1>2, <1>3, <1>4, <1>5 DEF Who, CampaignOf, CampaignId, Wish, Kind

\* Where a campaign comes from does not change.
LEMMA CampaignOfCreate ==
  ASSUME NEW r \in Request, want[r].kind = "create"
  PROVE  CampaignOf(r) = r /\ OwnerOf(r) = Who(r)
<1>1. r \notin Campaign
  BY AccountsAssumption
<1> QED  BY <1>1 DEF CampaignOf, OwnerOf, Who

-----------------------------------------------------------------------------
(* Where a request stands says what its transaction holds.                  *)

AtLogin == {"lookup", "insert", "insert_again", "reread", "refresh"}
Working == {"check", "asked", "write"}

\* What a request's label says of its kind.
KindFits(r) ==
  /\ pc[r] # "done" => (want[r].kind = "login" <=> pc[r] \in AtLogin)
  /\ pc[r] = "room" => want[r].kind = "create"
  /\ pc[r] \in {"find", "quota"} => want[r].kind = "play"
  /\ pc[r] = "delete" => want[r].kind = "delete"
  /\ pc[r] \in Working => want[r].kind \in {"create", "play"}

\* Calls are logged one by one, and a counted turn is open from the first call
\* of a play, on the player's own campaign.
TxFits(r) ==
  /\ tx[r].user => pc[r] \in {"reread", "refresh"}
  /\ pc[r] \notin Working => tx[r].log = {} /\ tx[r].rows = {}
  /\ IsFiniteSet(tx[r].log)
  /\ pc[r] \in {"check", "asked"} => Cardinality(tx[r].log) \in 0 .. 2
  /\ \A c \in tx[r].log : c.by = r
  /\ \A row \in tx[r].rows : row.by = r
  /\ tx[r].rows # {} => want[r].kind = "play"
  /\ want[r].kind = "play" /\ pc[r] \in {"asked", "write"} => tx[r].rows # {}
  /\ want[r].kind = "play" /\ pc[r] = "check" /\ tx[r].log # {} => tx[r].rows # {}

OwnerFits(r) ==
  want[r].kind = "play" /\ pc[r] \in Working \cup {"quota"} => OwnerOf(CampaignOf(r)) = Who(r)

Phase(r) == /\ KindFits(r) /\ TxFits(r) /\ OwnerFits(r)
            /\ pc[r] # "done" => answer[r] = Unanswered
PhaseInv == \A r \in Request : Phase(r)

\* A request that does nothing stays where it is.
LEMMA PhaseStays ==
  ASSUME NEW r \in Request, Phase(r), want' = want,
         pc'[r] = pc[r], tx'[r] = tx[r], answer'[r] = answer[r]
  PROVE  Phase(r)'
BY DEF Phase, KindFits, TxFits, OwnerFits, OwnerOf, CampaignOf, Who

\* The call a request makes next is one of its plan.
LEMMA NextCallIsCall ==
  ASSUME NEW r \in Request, Phase(r), pc[r] \in {"check", "asked"}
  PROVE  NextCall(r) \in Call
<1>1. Cardinality(tx[r].log) = 0 \/ Cardinality(tx[r].log) = 1 \/ Cardinality(tx[r].log) = 2
  BY DEF Phase, TxFits
<1>2. Made(r) + 1 = 1 \/ Made(r) + 1 = 2 \/ Made(r) + 1 = 3
  BY <1>1 DEF Made
<1>3. \A kind : /\ Plan(kind)[1] \in Call
                /\ Plan(kind)[2] \in Call
                /\ Plan(kind)[3] \in Call
  BY DEF Plan, Call
<1> QED  BY <1>2, <1>3 DEF NextCall

\* The record of a call, and a log with it.
LEMMA LoggedIsLog ==
  ASSUME TypeOK, NEW r \in Request, Phase(r), pc[r] = "asked", NEW tokens \in Counted
  PROVE  /\ Logged(r, tokens) \subseteq CallRow
         /\ \A c \in Logged(r, tokens) : c.by = r
         /\ IsFiniteSet(Logged(r, tokens))
         /\ Made(r) # 2 => Cardinality(Logged(r, tokens)) \in 0 .. 2
         /\ Made(r) \in Nat
<1> DEFINE row == [by |-> r, call |-> NextCall(r), on |-> day, tokens |-> tokens]
<1>1. row \in CallRow /\ row.by = r
  <2>1. NextCall(r) \in Call
    BY NextCallIsCall
  <2>2. tokens \in Nat
    BY AccountsAssumption DEF Counted
  <2>3. day \in Days
    BY DEF TypeOK
  <2> QED  BY <2>1, <2>2, <2>3 DEF CallRow
<1>2. tx[r].log \subseteq CallRow /\ (\A c \in tx[r].log : c.by = r)
  BY DEF TypeOK, Tx, Phase, TxFits
<1>3. IsFiniteSet(tx[r].log) /\ Cardinality(tx[r].log) \in 0 .. 2
  BY DEF Phase, TxFits
<1>4. /\ IsFiniteSet(tx[r].log \cup {row})
      /\ \/ Cardinality(tx[r].log \cup {row}) = Cardinality(tx[r].log)
         \/ Cardinality(tx[r].log \cup {row}) = Cardinality(tx[r].log) + 1
  BY <1>3, FS_AddElement
<1>5. Logged(r, tokens) = tx[r].log \cup {row}
  BY DEF Logged
<1> HIDE DEF row
<1>6. Made(r) # 2 => Cardinality(tx[r].log \cup {row}) \in 0 .. 2
  BY <1>3, <1>4 DEF Made
<1>7. Made(r) \in Nat
  BY <1>3 DEF Made
<1> QED  BY <1>1, <1>2, <1>4, <1>5, <1>6, <1>7
-----------------------------------------------------------------------------
(* Types.                                                                   *)

LEMMA Constants ==
  /\ NoTx \in Tx
  /\ \A code \in {"none", "ok", "error", "unresolved"} : Told(code) \in Answer
  /\ NothingUsed \in [Thing -> SUBSET Use]
<1>1. NoTx \in Tx
  BY DEF NoTx, Tx
<1>2. \A code \in {"none", "ok", "error", "unresolved"} : Told(code) \in Answer
  BY DEF Told, Answer
<1>3. NothingUsed \in [Thing -> SUBSET Use]
  BY DEF NothingUsed
<1> QED  BY <1>1, <1>2, <1>3

\* A request that ends keeps the types of everything but the tables.
LEMMA AnswersTypes ==
  ASSUME TypeOK, NEW r \in Request, NEW a \in Answer, Answers(r, a)
  PROVE  /\ want' \in Scenarios /\ day' \in Days
         /\ pc' \in [Request -> Labels]
         /\ tx' \in [Request -> Tx]
         /\ answer' \in [Request -> Answer]
BY Constants DEF Answers, TypeOK, Labels

LEMMA RollbackTypes ==
  ASSUME TypeOK, NEW r \in Request, NEW code \in {"ok", "error", "unresolved"},
         Rollback(r, code)
  PROVE  TypeOK'
<1>1. Told(code) \in Answer /\ NothingUsed \in [Thing -> SUBSET Use]
  BY Constants
<1>2. Answers(r, Told(code))
  BY DEF Rollback
<1>3. /\ want' \in Scenarios /\ day' \in Days
      /\ pc' \in [Request -> Labels]
      /\ tx' \in [Request -> Tx]
      /\ answer' \in [Request -> Answer]
  BY <1>1, <1>2, AnswersTypes
<1>4. knew' \in [Request -> [Thing -> SUBSET Use]]
  BY <1>1 DEF Rollback, TypeOK
<1> QED  BY <1>3, <1>4 DEF Rollback, TypeOK, dbVars

\* A step of a request that goes on and writes nothing.
LEMMA GotoTypes ==
  ASSUME TypeOK, NEW r \in Request, NEW from, NEW to \in Labels, Goto(r, from, to)
  PROVE  pc' \in [Request -> Labels]
BY DEF Goto, TypeOK

\* The log of a request as uses.
LEMMA UsesTypes ==
  ASSUME TypeOK, NEW r \in Request
  PROVE  /\ {<<c, "campaign">> : c \in live} \in SUBSET Use
         /\ \A thing \in Thing : {<<row.by, thing>> : row \in rows} \in SUBSET Use
         /\ {<<c.by, c.call>> : c \in calls \cup tx[r].log} \in SUBSET Use
<1>1. calls \cup tx[r].log \subseteq CallRow
  BY DEF TypeOK, Tx
<1>2. \A c \in CallRow : c.by \in CampaignId /\ c.call \in Thing
  BY DEF CallRow, CampaignId, Thing
<1>3. \A row \in rows : row.by \in CampaignId
  BY DEF TypeOK, Row, CampaignId
<1>4. live \subseteq CampaignId
  BY DEF TypeOK
<1> QED  BY <1>1, <1>2, <1>3, <1>4 DEF Use, Thing

LEMMA KnowsTypes ==
  ASSUME TypeOK, NEW r \in Request, NEW thing \in Thing, NEW uses \in SUBSET Use,
         Knows(r, thing, uses)
  PROVE  knew' \in [Request -> [Thing -> SUBSET Use]]
BY DEF Knows, TypeOK

\* The rows of a turn.
LEMMA RowTypes ==
  ASSUME TypeOK, NEW r \in Request
  PROVE  /\ \A is \in {"user", "assistant", "event"} : NewRow(r, is) \in Row
         /\ Written(r) \subseteq Row
<1>1. \A is \in {"user", "assistant", "event"} : NewRow(r, is) \in Row
  BY DEF TypeOK, NewRow, Row
<1>2. tx[r].rows \subseteq Row
  BY DEF TypeOK, Tx
<1> QED  BY <1>1, <1>2 DEF Written

\* A login is told a user.
LEMMA ResolvedIsUser ==
  ASSUME NEW r \in Request, Matches(r) # {}
  PROVE  Resolved(r) \in Matches(r) /\ Resolved(r) \in User
<1>1. Resolved(r) \in Matches(r)
  BY DEF Resolved
<1>2. Matches(r) \subseteq User
  BY DEF Matches
<1> QED  BY <1>1, <1>2

LEMMA LoginTypes ==
  ASSUME TypeOK, PhaseInv, NEW r \in Request,
         LookUp(r) \/ Insert(r) \/ Reread(r) \/ SignedIn(r) \/ Authenticate(r)
  PROVE  TypeOK'
<1>1. CASE LookUp(r)
  BY <1>1 DEF LookUp, Goto, TypeOK, dbVars, Labels
<1>2. CASE Insert(r)
  <2>1. pc' \in [Request -> Labels]
    BY <1>2 DEF Insert, Goto, TypeOK, Labels
  <2>2. tx' \in [Request -> Tx]
    <3>1. [tx[r] EXCEPT !.user = TRUE] \in Tx
      BY DEF TypeOK, Tx
    <3>2. CASE UNCHANGED tx
      BY <3>2 DEF TypeOK
    <3>3. CASE tx' = [tx EXCEPT ![r].user = TRUE]
      BY <3>1, <3>3 DEF TypeOK
    <3> QED  BY <1>2, <3>2, <3>3 DEF Insert
  <2> QED  BY <1>2, <2>1, <2>2 DEF Insert, TypeOK, dbVars
<1>3. CASE Reread(r)
  <2>1. CASE Rollback(r, "unresolved")
    BY <2>1, RollbackTypes
  <2>2. CASE ~Rollback(r, "unresolved")
    BY <1>3, <2>2 DEF Reread, Goto, TypeOK, dbVars, Labels
  <2> QED  BY <2>1, <2>2
<1>4. CASE SignedIn(r)
  <2>1. [code |-> "ok", user |-> Resolved(r)] \in Answer
    BY <1>4, ResolvedIsUser DEF SignedIn, Answer
  <2>2. /\ want' \in Scenarios /\ day' \in Days
        /\ pc' \in [Request -> Labels]
        /\ tx' \in [Request -> Tx]
        /\ answer' \in [Request -> Answer]
    BY <1>4, <2>1, AnswersTypes DEF SignedIn
  <2>3. want[r].kind = "login"
    BY <1>4 DEF PhaseInv, Phase, KindFits, AtLogin, SignedIn
  <2>4. users' \subseteq User \X Identity
    <3>1. Who(r) \in Identity
      BY <2>3, Wishes DEF TypeOK
    <3> QED  BY <1>4, <3>1 DEF SignedIn, TypeOK, User
  <2> QED  BY <1>4, <2>2, <2>4 DEF SignedIn, TypeOK
<1>5. CASE Authenticate(r)
  <2>1. CASE Rollback(r, "error")
    BY <2>1, RollbackTypes
  <2>2. CASE ~Rollback(r, "error")
    <3>1. want[r].kind \in Kind \ {"login"}
      BY <1>5, Wishes DEF PhaseInv, Phase, KindFits, AtLogin, Authenticate, TypeOK
    <3>2. First(want[r].kind) \in Labels
      BY <3>1 DEF First, Kind, Labels
    <3> QED  BY <1>5, <2>2, <3>2, GotoTypes DEF Authenticate, TypeOK, dbVars
  <2> QED  BY <2>1, <2>2
<1> QED  BY <1>1, <1>2, <1>3, <1>4, <1>5

LEMMA LimitTypes ==
  ASSUME TypeOK, PhaseInv, NEW r \in Request,
         MakeRoom(r) \/ Find(r) \/ DailyLimit(r) \/ AskRefused(r)
  PROVE  TypeOK'
<1> USE DEF Labels
<1>1. CASE Rollback(r, "error")
  BY <1>1, RollbackTypes
<1>2. CASE MakeRoom(r) /\ ~Rollback(r, "error")
  <2>1. Goto(r, "room", "check") /\ Knows(r, "campaign", {<<c, "campaign">> : c \in live})
    BY <1>2 DEF MakeRoom
  <2>2. knew' \in [Request -> [Thing -> SUBSET Use]]
    BY <2>1, UsesTypes, KnowsTypes DEF Thing
  <2> QED  BY <1>2, <2>1, <2>2, GotoTypes DEF MakeRoom, TypeOK, dbVars
<1>3. CASE Find(r) /\ ~Rollback(r, "error")
  <2>1. /\ Goto(r, "find", "quota")
        /\ Knows(r, "exchange", {<<row.by, "exchange">> : row \in rows})
    BY <1>3 DEF Find
  <2>2. knew' \in [Request -> [Thing -> SUBSET Use]]
    BY <2>1, UsesTypes, KnowsTypes DEF Thing
  <2> QED  BY <1>3, <2>1, <2>2, GotoTypes DEF Find, TypeOK, dbVars
<1>4. CASE DailyLimit(r) /\ ~Rollback(r, "error")
  <2>1. Goto(r, "quota", "check") /\ Knows(r, "turn", {<<row.by, "turn">> : row \in rows})
    BY <1>4 DEF DailyLimit
  <2>2. knew' \in [Request -> [Thing -> SUBSET Use]]
    BY <2>1, UsesTypes, KnowsTypes DEF Thing
  <2> QED  BY <1>4, <2>1, <2>2, GotoTypes DEF DailyLimit, TypeOK, dbVars
<1> QED  BY <1>1, <1>2, <1>3, <1>4 DEF AskRefused

LEMMA AskTypes ==
  ASSUME TypeOK, PhaseInv, NEW r \in Request, Ask(r)
  PROVE  TypeOK'
<1>1. pc' \in [Request -> Labels]
  BY GotoTypes DEF Ask, Labels
<1>2. tx' \in [Request -> Tx]
  <2> DEFINE new == IF Opens(r) THEN {NewRow(r, "user")} ELSE tx[r].rows
  <2>1. new \in SUBSET Row
    BY RowTypes DEF TypeOK, Tx
  <2>2. tx' = [tx EXCEPT ![r].rows = new]
    BY DEF Ask
  <2> HIDE DEF new
  <2>3. [tx[r] EXCEPT !.rows = new] \in Tx
    BY <2>1 DEF TypeOK, Tx
  <2> QED  BY <2>2, <2>3 DEF TypeOK
<1>3. knew' \in [Request -> [Thing -> SUBSET Use]]
  <2>1. NextCall(r) \in Thing
    BY NextCallIsCall DEF PhaseInv, Ask, Goto, Thing
  <2> QED  BY <2>1, UsesTypes, KnowsTypes DEF Ask
<1> QED  BY <1>1, <1>2, <1>3 DEF Ask, TypeOK, dbVars

LEMMA CallTypes ==
  ASSUME TypeOK, PhaseInv, NEW r \in Request,
         Answered(r) \/ StarterFails(r) \/ CallFails(r) \/ Write(r)
  PROVE  TypeOK'
<1>1. CASE Answered(r)
  <2>1. PICK tokens \in Counted : tx' = [tx EXCEPT ![r].log = Logged(r, tokens)]
    BY <1>1 DEF Answered
  <2>2. Logged(r, tokens) \subseteq CallRow
    BY <1>1, LoggedIsLog DEF Answered, PhaseInv
  <2>3. [tx[r] EXCEPT !.log = Logged(r, tokens)] \in Tx
    BY <2>2 DEF TypeOK, Tx
  <2>4. tx' \in [Request -> Tx]
    BY <2>1, <2>3 DEF TypeOK
  <2>5. pc' \in [Request -> Labels]
    BY <1>1 DEF Answered, TypeOK, Labels
  <2> QED  BY <1>1, <2>4, <2>5 DEF Answered, TypeOK, dbVars
<1>2. CASE StarterFails(r)
  <2>1. PICK tokens \in Counted : calls' = calls \cup Logged(r, tokens)
    BY <1>2 DEF StarterFails
  <2>2. Logged(r, tokens) \subseteq CallRow
    BY <1>2, LoggedIsLog DEF StarterFails, PhaseInv
  <2>3. Told("error") \in Answer
    BY Constants
  <2> QED  BY <1>2, <2>1, <2>2, <2>3, AnswersTypes DEF StarterFails, TypeOK
<1>3. CASE CallFails(r)
  BY <1>3, RollbackTypes DEF CallFails
<1>4. CASE Write(r)
  <2>1. Told("ok") \in Answer /\ Written(r) \subseteq Row
    BY Constants, RowTypes
  <2>2. tx[r].log \subseteq CallRow
    BY DEF TypeOK, Tx
  <2>3. live' \subseteq CampaignId
    BY <1>4 DEF Write, TypeOK, CampaignId
  <2> QED  BY <1>4, <2>1, <2>2, <2>3, AnswersTypes DEF Write, TypeOK
<1> QED  BY <1>1, <1>2, <1>3, <1>4

LEMMA DeleteTypes ==
  ASSUME TypeOK, NEW r \in Request, Delete(r)
  PROVE  TypeOK'
<1>1. CASE Rollback(r, "error")
  BY <1>1, RollbackTypes
<1>2. CASE ~Rollback(r, "error")
  <2>1. Told("ok") \in Answer
    BY Constants
  <2> QED  BY <1>2, <2>1, AnswersTypes DEF Delete, Cascade, TypeOK
<1> QED  BY <1>1, <1>2

LEMMA TypesStep ==
  ASSUME TypeOK, PhaseInv, Next
  PROVE  TypeOK'
<1>1. CASE \E r \in Request : Step(r)
  BY <1>1, LoginTypes, LimitTypes, AskTypes, CallTypes, DeleteTypes DEF Step
<1>2. CASE \E r \in Request : Crash(r)
  BY <1>2, RollbackTypes DEF Crash
<1>3. CASE Midnight
  BY <1>3, AccountsAssumption DEF Midnight, TypeOK, dbVars, Days
<1>4. CASE Idle
  BY <1>4 DEF Idle, TypeOK, vars, dbVars
<1> QED  BY <1>1, <1>2, <1>3, <1>4 DEF Next
-----------------------------------------------------------------------------
(* Every step of a request keeps its phase.                                 *)

LEMMA PhaseEnds ==
  ASSUME TypeOK, NEW r \in Request, NEW a, Answers(r, a)
  PROVE  Phase(r)'
<1>1. pc'[r] = "done" /\ tx'[r] = NoTx /\ want' = want
  BY DEF Answers, TypeOK
<1>2. IsFiniteSet({})
  BY FS_EmptySet
<1> QED  BY <1>1, <1>2
     DEF Phase, KindFits, TxFits, OwnerFits, NoTx, AtLogin, Working

\* A step that only moves the request on, within what its kind allows.
LEMMA PhaseMoves ==
  ASSUME TypeOK, NEW r \in Request, Phase(r), NEW from, NEW to,
         Goto(r, from, to), want' = want, tx' = tx, answer' = answer,
         from \notin Working, from # "done", to # "done",
         tx[r].user => to \in {"reread", "refresh"},
         want[r].kind = "login" <=> to \in AtLogin,
         to = "room" => want[r].kind = "create",
         to \in {"find", "quota"} => want[r].kind = "play",
         to = "delete" => want[r].kind = "delete",
         to \in Working => to = "check" /\ want[r].kind \in {"create", "play"},
         want[r].kind = "play" /\ to \in Working \cup {"quota"}
           => OwnerOf(CampaignOf(r)) = Who(r)
  PROVE  Phase(r)'
<1>1. pc[r] = from /\ pc'[r] = to
  BY DEF Goto, TypeOK
<1>2. tx[r].log = {} /\ tx[r].rows = {}
  BY <1>1 DEF Phase, TxFits
<1>3. Cardinality(tx[r].log) = 0
  BY <1>2, FS_EmptySet
<1>4. KindFits(r)'
  BY <1>1 DEF KindFits
<1>5. TxFits(r)'
  BY <1>1, <1>2, <1>3 DEF Phase, TxFits, Working
<1>6. OwnerFits(r)'
  BY <1>1 DEF OwnerFits, OwnerOf, CampaignOf, Who
<1>7. answer'[r] = Unanswered
  BY <1>1 DEF Phase
<1> QED  BY <1>4, <1>5, <1>6, <1>7 DEF Phase

LEMMA LoginPhase ==
  ASSUME TypeOK, PhaseInv, NEW r \in Request,
         LookUp(r) \/ Insert(r) \/ Reread(r) \/ SignedIn(r) \/ Authenticate(r)
  PROVE  Phase(r)'
<1> USE DEF AtLogin, Working
<1>0. Phase(r)
  BY DEF PhaseInv
<1>1. CASE LookUp(r)
  <2>1. want[r].kind = "login" /\ ~tx[r].user
    BY <1>0, <1>1 DEF Phase, KindFits, TxFits, LookUp, Goto, TypeOK, Tx
  <2>2. Goto(r, "lookup", "insert") \/ Goto(r, "lookup", "refresh")
    BY <1>1 DEF LookUp
  <2> QED  BY <1>0, <1>1, <2>1, <2>2, PhaseMoves DEF LookUp
<1>2. CASE Insert(r)
  <2>1. /\ want[r].kind = "login" /\ ~tx[r].user
        /\ tx[r].log = {} /\ tx[r].rows = {}
    BY <1>0, <1>2 DEF Phase, KindFits, TxFits, Insert, TypeOK, Tx
  <2>2. CASE UNCHANGED tx
    <3>1. Goto(r, pc[r], "insert_again") \/ Goto(r, pc[r], "reread")
      BY <1>2 DEF Insert
    <3> QED  BY <1>0, <1>2, <2>1, <2>2, <3>1, PhaseMoves DEF Insert
  <2>3. CASE tx' = [tx EXCEPT ![r].user = TRUE] /\ Goto(r, pc[r], "reread")
    <3>1. pc'[r] = "reread" /\ want' = want /\ answer'[r] = Unanswered
      BY <1>0, <1>2, <2>3 DEF Insert, Goto, TypeOK, Phase
    <3>2. tx'[r] = [tx[r] EXCEPT !.user = TRUE]
      BY <2>3 DEF TypeOK
    <3>3. tx'[r].log = {} /\ tx'[r].rows = {}
      BY <2>1, <3>2 DEF TypeOK, Tx
    <3>4. IsFiniteSet({})
      BY FS_EmptySet
    <3> QED  BY <2>1, <3>1, <3>3, <3>4 DEF Phase, KindFits, TxFits, OwnerFits
  <2> QED  BY <1>2, <2>2, <2>3 DEF Insert
<1>3. CASE Reread(r)
  <2>1. CASE Rollback(r, "unresolved")
    BY <2>1, PhaseEnds DEF Rollback
  <2>2. CASE ~Rollback(r, "unresolved")
    <3>1. want[r].kind = "login"
      BY <1>0, <1>3 DEF Phase, KindFits, Reread
    <3> QED  BY <1>0, <1>3, <2>2, <3>1, PhaseMoves DEF Reread
  <2> QED  BY <2>1, <2>2
<1>4. CASE SignedIn(r)
  BY <1>4, PhaseEnds DEF SignedIn
<1>5. CASE Authenticate(r)
  <2>1. CASE Rollback(r, "error")
    BY <2>1, PhaseEnds DEF Rollback
  <2>2. CASE ~Rollback(r, "error")
    <3>1. want[r].kind \in {"create", "play", "delete"} /\ ~tx[r].user
      BY <1>0, <1>5, Wishes DEF Phase, KindFits, TxFits, Authenticate, TypeOK, Kind, Tx
    <3>2. Goto(r, "auth", First(want[r].kind))
      BY <1>5, <2>2 DEF Authenticate
    <3>3. \/ want[r].kind = "create" /\ First(want[r].kind) = "room"
          \/ want[r].kind = "play" /\ First(want[r].kind) = "find"
          \/ want[r].kind = "delete" /\ First(want[r].kind) = "delete"
      BY <3>1 DEF First
    <3> QED  BY <1>0, <1>5, <2>2, <3>1, <3>2, <3>3, PhaseMoves DEF Authenticate
  <2> QED  BY <2>1, <2>2
<1> QED  BY <1>1, <1>2, <1>3, <1>4, <1>5

LEMMA LimitPhase ==
  ASSUME TypeOK, PhaseInv, NEW r \in Request,
         MakeRoom(r) \/ Find(r) \/ DailyLimit(r) \/ AskRefused(r)
  PROVE  Phase(r)'
<1> USE DEF AtLogin, Working
<1>0. Phase(r)
  BY DEF PhaseInv
<1>1. CASE Rollback(r, "error")
  BY <1>1, PhaseEnds DEF Rollback
<1>2. CASE MakeRoom(r) /\ ~Rollback(r, "error")
  <2>1. want[r].kind = "create" /\ ~tx[r].user
    BY <1>0, <1>2 DEF Phase, KindFits, TxFits, MakeRoom, TypeOK, Tx
  <2> QED  BY <1>0, <1>2, <2>1, PhaseMoves DEF MakeRoom
<1>3. CASE Find(r) /\ ~Rollback(r, "error")
  <2>1. want[r].kind = "play" /\ ~tx[r].user
    BY <1>0, <1>3 DEF Phase, KindFits, TxFits, Find, TypeOK, Tx
  <2>2. OwnerOf(CampaignOf(r)) = Who(r)
    BY <1>3 DEF Find, Owned
  <2> QED  BY <1>0, <1>3, <2>1, <2>2, PhaseMoves DEF Find
<1>4. CASE DailyLimit(r) /\ ~Rollback(r, "error")
  <2>1. want[r].kind = "play" /\ ~tx[r].user
    BY <1>0, <1>4 DEF Phase, KindFits, TxFits, DailyLimit, TypeOK, Tx
  <2>2. OwnerOf(CampaignOf(r)) = Who(r)
    BY <1>0, <1>4, <2>1 DEF Phase, OwnerFits, DailyLimit
  <2> QED  BY <1>0, <1>4, <2>1, <2>2, PhaseMoves DEF DailyLimit
<1> QED  BY <1>1, <1>2, <1>3, <1>4 DEF AskRefused

LEMMA AskPhase ==
  ASSUME TypeOK, PhaseInv, NEW r \in Request, Ask(r)
  PROVE  Phase(r)'
<1> USE DEF AtLogin, Working
<1>0. Phase(r)
  BY DEF PhaseInv
<1> DEFINE new == IF Opens(r) THEN {NewRow(r, "user")} ELSE tx[r].rows
<1>1. pc[r] = "check" /\ pc'[r] = "asked" /\ want' = want /\ answer' = answer
  BY DEF Ask, Goto, TypeOK
<1>2. /\ tx'[r].user = tx[r].user
      /\ tx'[r].log = tx[r].log
      /\ tx'[r].rows = new
  BY DEF Ask, TypeOK, Tx
<1>3. \A row \in new : row.by = r
  BY <1>0 DEF Phase, TxFits, NewRow
<1>4. new # {} => want[r].kind = "play"
  BY <1>0 DEF Phase, TxFits, Opens
<1>5. want[r].kind = "play" => new # {}
  <2>1. CASE Opens(r)
    BY <2>1
  <2>2. CASE ~Opens(r) /\ want[r].kind = "play"
    <3>1. Cardinality(tx[r].log) # 0
      BY <2>2 DEF Opens, Made
    <3>2. tx[r].log # {}
      BY <3>1, FS_EmptySet
    <3> QED  BY <1>0, <1>1, <2>2, <3>2 DEF Phase, TxFits
  <2> QED  BY <2>1, <2>2
<1> HIDE DEF new
<1>6. TxFits(r)'
  BY <1>0, <1>1, <1>2, <1>3, <1>4, <1>5 DEF Phase, TxFits
<1>7. KindFits(r)' /\ OwnerFits(r)'
  BY <1>0, <1>1 DEF Phase, KindFits, OwnerFits, OwnerOf, CampaignOf, Who
<1> QED  BY <1>0, <1>1, <1>6, <1>7 DEF Phase

LEMMA AnsweredPhase ==
  ASSUME TypeOK, PhaseInv, NEW r \in Request, Answered(r)
  PROVE  Phase(r)'
<1> USE DEF AtLogin, Working
<1>0. Phase(r)
  BY DEF PhaseInv
<1>1. PICK tokens \in Counted : tx' = [tx EXCEPT ![r].log = Logged(r, tokens)]
  BY DEF Answered
<1>2. /\ \A c \in Logged(r, tokens) : c.by = r
      /\ IsFiniteSet(Logged(r, tokens))
      /\ Made(r) # 2 => Cardinality(Logged(r, tokens)) \in 0 .. 2
  BY <1>0, LoggedIsLog DEF Answered
<1>3. /\ tx'[r].user = tx[r].user
      /\ tx'[r].rows = tx[r].rows
      /\ tx'[r].log = Logged(r, tokens)
  BY <1>1 DEF TypeOK, Tx
<1>4. /\ pc[r] = "asked" /\ pc'[r] \in {"write", "check"}
      /\ Made(r) = 2 => pc'[r] = "write"
      /\ want' = want /\ answer' = answer
  BY DEF Answered, TypeOK
<1>5. TxFits(r)'
  BY <1>0, <1>2, <1>3, <1>4 DEF Phase, TxFits
<1>6. KindFits(r)' /\ OwnerFits(r)'
  BY <1>0, <1>4 DEF Phase, KindFits, OwnerFits, OwnerOf, CampaignOf, Who
<1> QED  BY <1>0, <1>4, <1>5, <1>6 DEF Phase

LEMMA StepPhase ==
  ASSUME TypeOK, PhaseInv, NEW r \in Request, Step(r) \/ Crash(r)
  PROVE  Phase(r)'
<1>1. CASE Rollback(r, "error")
  BY <1>1, PhaseEnds DEF Rollback
<1>2. CASE StarterFails(r) \/ Write(r) \/ Delete(r)
  BY <1>1, <1>2, PhaseEnds DEF StarterFails, Write, Delete
<1> QED  BY <1>1, <1>2, LoginPhase, LimitPhase, AskPhase, AnsweredPhase
     DEF Step, Crash, CallFails

\* What a request does changes nothing of another one's own state.
LEMMA OthersStay ==
  ASSUME TypeOK, NEW r \in Request, Step(r) \/ Crash(r)
  PROVE  /\ want' = want
         /\ \A q \in Request \ {r} : /\ pc'[q] = pc[q]
                                     /\ tx'[q] = tx[q]
                                     /\ answer'[q] = answer[q]
<1> DEFINE Alone == /\ want' = want
                    /\ \A q \in Request \ {r} : /\ pc'[q] = pc[q]
                                                /\ tx'[q] = tx[q]
                                                /\ answer'[q] = answer[q]
<1>1. ASSUME NEW a, Answers(r, a) PROVE Alone
  BY <1>1 DEF Answers, TypeOK
<1>2. ASSUME NEW code, Rollback(r, code) PROVE Alone
  BY <1>1, <1>2 DEF Rollback
<1>3. CASE LookUp(r)
  BY <1>3 DEF LookUp, Goto, TypeOK
<1>4. CASE Insert(r)
  BY <1>4 DEF Insert, Goto, TypeOK
<1>5. CASE Reread(r)
  BY <1>2, <1>5 DEF Reread, Goto, TypeOK
<1>6. CASE SignedIn(r)
  BY <1>1, <1>6 DEF SignedIn
<1>7. CASE Authenticate(r)
  BY <1>2, <1>7 DEF Authenticate, Goto, TypeOK
<1>8. CASE MakeRoom(r) \/ Find(r) \/ DailyLimit(r)
  BY <1>2, <1>8 DEF MakeRoom, Find, DailyLimit, Goto, TypeOK
<1>9. CASE Ask(r)
  BY <1>9 DEF Ask, Goto, TypeOK
<1>10. CASE Answered(r)
  BY <1>10 DEF Answered, TypeOK
<1>11. CASE AskRefused(r) \/ CallFails(r) \/ Crash(r)
  BY <1>2, <1>11 DEF AskRefused, CallFails, Crash
<1>12. CASE StarterFails(r)
  BY <1>1, <1>12 DEF StarterFails
<1>13. CASE Write(r)
  BY <1>1, <1>13 DEF Write
<1>14. CASE Delete(r)
  BY <1>1, <1>2, <1>14 DEF Delete
<1> QED  BY <1>3, <1>4, <1>5, <1>6, <1>7, <1>8, <1>9, <1>10, <1>11, <1>12, <1>13, <1>14
     DEF Step

LEMMA PhaseStep ==
  ASSUME TypeOK, PhaseInv, Next
  PROVE  PhaseInv'
<1>1. CASE \E r \in Request : Step(r) \/ Crash(r)
  <2>1. PICK r \in Request : Step(r) \/ Crash(r)
    BY <1>1
  <2>2. Phase(r)'
    BY <2>1, StepPhase
  <2>3. \A q \in Request \ {r} : Phase(q)'
    BY <2>1, OthersStay, PhaseStays DEF PhaseInv
  <2> QED  BY <2>2, <2>3 DEF PhaseInv
<1>2. CASE Midnight \/ Idle
  <2>1. want' = want /\ pc' = pc /\ tx' = tx /\ answer' = answer
    BY <1>2 DEF Midnight, Idle, vars
  <2> QED  BY <2>1, PhaseStays DEF PhaseInv
<1> QED  BY <1>1, <1>2 DEF Next

LEMMA InitTypes ==
  ASSUME Init
  PROVE  TypeOK /\ PhaseInv
<1>1. TypeOK
  <2>1. Unanswered \in Answer
    BY DEF Unanswered, Answer
  <2>2. users \subseteq User \X Identity
    BY AccountsAssumption DEF Init, User
  <2>3. day \in Days
    BY AccountsAssumption DEF Init, Days
  <2> QED  BY <2>1, <2>2, <2>3, Constants DEF Init, TypeOK, Labels, CampaignId
<1>2. ASSUME NEW r \in Request PROVE Phase(r)
  <2>1. want[r].kind \in Kind
    BY Wishes DEF Init
  <2>2. IsFiniteSet({})
    BY FS_EmptySet
  <2>3. pc[r] = (IF want[r].kind = "login" THEN "lookup" ELSE "auth") /\ tx[r] = NoTx
    BY DEF Init
  <2> QED  BY <2>1, <2>2, <2>3
       DEF Init, Phase, KindFits, TxFits, OwnerFits, NoTx, AtLogin, Working
<1> QED  BY <1>1, <1>2 DEF PhaseInv

\* What a request writes to the tables, and when.
LEMMA Writers ==
  ASSUME TypeOK, PhaseInv, NEW r \in Request, Step(r) \/ Crash(r)
  PROVE  /\ day' = day
         /\ users' = users \/ SignedIn(r)
         /\ (live' = live /\ rows' = rows) \/ Write(r) \/ Delete(r)
         /\ calls' = calls \/ Write(r) \/ StarterFails(r)
<1> DEFINE Does == /\ day' = day
                   /\ users' = users \/ SignedIn(r)
                   /\ (live' = live /\ rows' = rows) \/ Write(r) \/ Delete(r)
                   /\ calls' = calls \/ Write(r) \/ StarterFails(r)
<1>1. ASSUME NEW code, Rollback(r, code) PROVE Does
  BY <1>1 DEF Rollback, Answers, dbVars
<1>2. CASE LookUp(r) \/ Insert(r) \/ Ask(r) \/ Answered(r)
  BY <1>2 DEF LookUp, Insert, Ask, Answered, dbVars
<1>3. CASE Reread(r) \/ Authenticate(r)
  BY <1>1, <1>3 DEF Reread, Authenticate, dbVars
<1>4. CASE MakeRoom(r) \/ Find(r) \/ DailyLimit(r)
  BY <1>1, <1>4 DEF MakeRoom, Find, DailyLimit, dbVars
<1>5. CASE SignedIn(r)
  BY <1>5 DEF SignedIn, Answers
<1>6. CASE StarterFails(r)
  BY <1>6 DEF StarterFails, Answers
<1>7. CASE Write(r)
  BY <1>7 DEF Write, Answers
<1>8. CASE Delete(r)
  BY <1>1, <1>8 DEF Delete, Cascade, Answers
<1>9. CASE AskRefused(r) \/ CallFails(r) \/ Crash(r)
  BY <1>1, <1>9 DEF AskRefused, CallFails, Crash
<1> QED  BY <1>2, <1>3, <1>4, <1>5, <1>6, <1>7, <1>8, <1>9 DEF Step

-----------------------------------------------------------------------------
(* Users and logins.                                                        *)

Known(u) == \E i \in Identity : <<u, i>> \in users

\* The user rows: one for an identity, one identity for each, and every user
\* there was is still there.
UsersInv ==
  /\ \A u, v \in User, i \in Identity : <<u, i>> \in users /\ <<v, i>> \in users => u = v
  /\ \A u \in User, i, j \in Identity : <<u, i>> \in users /\ <<u, j>> \in users => i = j
  /\ \A r \in Request : Known(r) => pc[r] = "done"
  /\ \A m \in Member : Known(m)

\* An open INSERT is the only one for its identity, which nobody has; who has
\* failed to insert, or found a user, has one to read.
LoginInv ==
  /\ \A r \in Request : tx[r].user => ~Taken(r)
  /\ \A q, r \in Request : tx[q].user /\ tx[r].user /\ Who(q) = Who(r) => q = r
  /\ \A r \in Request : pc[r] = "insert_again" => Taken(r)
  /\ \A r \in Request : pc[r] \in {"reread", "refresh"} => tx[r].user \/ Taken(r)

\* Who is past authentication is a user.
AuthInv == \A r \in Request : pc[r] \notin AtLogin \cup {"auth", "done"} => Known(Who(r))

Resolution == UsersInv /\ LoginInv /\ AuthInv

\* No login finds nothing, in words the actions can use.
LEMMA MatchesWhenDue ==
  ASSUME TypeOK, LoginInv, NEW r \in Request, pc[r] \in {"reread", "refresh"}
  PROVE  Matches(r) # {}
BY DEF LoginInv, Matches, Taken, User

LEMMA MatchesAre ==
  ASSUME TypeOK, Resolution, NEW r \in Request
  PROVE  /\ Matches(r) # {} => Taken(r) \/ tx[r].user
         /\ tx[r].user => Matches(r) = {r}
         /\ ~tx[r].user => Matches(r) = {u \in User : <<u, Who(r)>> \in users}
BY DEF Resolution, LoginInv, Matches, Taken, User

\* While no user is added.
LEMMA ResolutionSameUsers ==
  ASSUME TypeOK, PhaseInv, PhaseInv', Resolution, users' = users, want' = want,
         NEW r \in Request,
         \A q \in Request \ {r} : pc'[q] = pc[q] /\ tx'[q] = tx[q],
         pc[r] # "done" \/ pc'[r] = "done",
         tx'[r].user => /\ ~Taken(r)
                        /\ \A q \in Request \ {r} : tx[q].user => Who(q) # Who(r),
         pc'[r] = "insert_again" => Taken(r),
         pc'[r] \in {"reread", "refresh"} => tx'[r].user \/ Taken(r),
         pc'[r] \notin AtLogin \cup {"auth", "done"} => Known(Who(r))
  PROVE  Resolution'
<1>1. \A u : Known(u)' <=> Known(u)
  BY DEF Known
<1>2. \A q : /\ Who(q)' = Who(q)
             /\ Taken(q)' <=> Taken(q)
  BY DEF Who, Taken
<1>3. UsersInv'
  BY <1>1 DEF Resolution, UsersInv
<1>4. LoginInv'
  <2>1. \A q \in Request : tx'[q].user => ~Taken(q)
    BY DEF Resolution, LoginInv
  <2>2. ASSUME NEW p \in Request, NEW q \in Request,
               tx'[p].user, tx'[q].user, Who(p) = Who(q)
        PROVE  p = q
    <3>1. CASE p = r \/ q = r
      BY <2>2, <3>1
    <3>2. CASE p # r /\ q # r
      BY <2>2, <3>2 DEF Resolution, LoginInv
    <3> QED  BY <3>1, <3>2
  <2>3. \A q \in Request : pc'[q] = "insert_again" => Taken(q)
    BY DEF Resolution, LoginInv
  <2>4. \A q \in Request : pc'[q] \in {"reread", "refresh"} => tx'[q].user \/ Taken(q)
    BY DEF Resolution, LoginInv
  <2> QED  BY <1>2, <2>1, <2>2, <2>3, <2>4 DEF LoginInv
<1>5. AuthInv'
  BY <1>1, <1>2 DEF Resolution, AuthInv
<1> QED  BY <1>3, <1>4, <1>5 DEF Resolution

\* The transaction of a login that commits.
LEMMA SignedInResolution ==
  ASSUME TypeOK, PhaseInv, Resolution, NEW r \in Request, SignedIn(r)
  PROVE  Resolution'
<1>1. /\ want' = want /\ pc' = [pc EXCEPT ![r] = "done"] /\ tx' = [tx EXCEPT ![r] = NoTx]
      /\ pc[r] = "refresh"
      /\ users' = IF tx[r].user THEN users \cup {<<r, Who(r)>>} ELSE users
  BY DEF SignedIn, Answers
<1>2. /\ pc'[r] = "done" /\ ~tx'[r].user
      /\ \A q \in Request \ {r} : pc'[q] = pc[q] /\ tx'[q] = tx[q]
  BY <1>1 DEF TypeOK, NoTx
<1>3. PhaseInv'
  BY PhaseStep DEF Next, Step
<1>4. CASE ~tx[r].user
  BY <1>1, <1>2, <1>3, <1>4, ResolutionSameUsers
<1>5. CASE tx[r].user
  <2>1. users' = users \cup {<<r, Who(r)>>}
    BY <1>1, <1>5
  <2>2. ~Taken(r) /\ \A q \in Request \ {r} : tx[q].user => Who(q) # Who(r)
    BY <1>5 DEF Resolution, LoginInv
  <2>3. ~Known(r)
    BY <1>1 DEF Resolution, UsersInv
  <2>4. \A u : Known(u) => Known(u)'
    BY <2>1 DEF Known
  <2>5. \A q : /\ Who(q)' = Who(q)
               /\ Taken(q) => Taken(q)'
               /\ Who(q) # Who(r) /\ ~Taken(q) => ~Taken(q)'
    BY <1>1, <2>1 DEF Who, Taken
  <2>6. UsersInv'
    <3>1. Who(r) \in Identity
      BY <1>1, Wishes DEF PhaseInv, Phase, KindFits, AtLogin, TypeOK
    <3>2. ASSUME NEW u \in User, NEW v \in User, NEW i \in Identity,
                 <<u, i>> \in users', <<v, i>> \in users'
          PROVE  u = v
      <4>1. i = Who(r) => <<u, i>> \notin users /\ <<v, i>> \notin users
        BY <2>2 DEF Taken
      <4> QED  BY <2>1, <3>2, <4>1 DEF Resolution, UsersInv
    <3>3. ASSUME NEW u \in User, NEW i \in Identity, NEW j \in Identity,
                 <<u, i>> \in users', <<u, j>> \in users'
          PROVE  i = j
      <4>1. u = r => <<u, i>> \notin users /\ <<u, j>> \notin users
        BY <2>3 DEF Known
      <4> QED  BY <2>1, <3>3, <4>1 DEF Resolution, UsersInv
    <3>4. \A q \in Request : Known(q)' => pc'[q] = "done"
      BY <1>2, <2>1 DEF Resolution, UsersInv, Known
    <3>5. \A m \in Member : Known(m)'
      BY <2>4 DEF Resolution, UsersInv
    <3> QED  BY <3>2, <3>3, <3>4, <3>5 DEF UsersInv
  <2>7. LoginInv'
    <3>1. \A q \in Request : tx'[q].user => ~Taken(q)'
      BY <1>2, <2>2, <2>5 DEF Resolution, LoginInv
    <3>2. \A p, q \in Request : tx'[p].user /\ tx'[q].user /\ Who(p) = Who(q) => p = q
      BY <1>2 DEF Resolution, LoginInv
    <3>3. \A q \in Request : pc'[q] = "insert_again" => Taken(q)'
      BY <1>2, <2>5 DEF Resolution, LoginInv
    <3>4. \A q \in Request : pc'[q] \in {"reread", "refresh"} => tx'[q].user \/ Taken(q)'
      BY <1>2, <2>5 DEF Resolution, LoginInv
    <3> QED  BY <2>5, <3>1, <3>2, <3>3, <3>4 DEF LoginInv
  <2>8. AuthInv'
    BY <1>2, <2>4, <2>5 DEF Resolution, AuthInv
  <2> QED  BY <2>6, <2>7, <2>8 DEF Resolution
<1> QED  BY <1>4, <1>5

\* A request that ends, and one that goes on within or after its login.
LEMMA EndResolution ==
  ASSUME TypeOK, PhaseInv, PhaseInv', Resolution, NEW r \in Request, NEW a,
         Answers(r, a), users' = users
  PROVE  Resolution'
<1>1. /\ want' = want /\ pc'[r] = "done" /\ ~tx'[r].user
      /\ \A q \in Request \ {r} : pc'[q] = pc[q] /\ tx'[q] = tx[q]
  BY DEF Answers, TypeOK, NoTx
<1> QED  BY <1>1, ResolutionSameUsers

LEMMA InsertResolution ==
  ASSUME TypeOK, PhaseInv, PhaseInv', Resolution, NEW r \in Request, Insert(r)
  PROVE  Resolution'
<1>1. /\ want' = want /\ users' = users /\ pc[r] # "done"
      /\ \A q \in Request \ {r} : pc'[q] = pc[q] /\ tx'[q] = tx[q]
      /\ pc'[r] \in {"insert_again", "reread"}
  BY DEF Insert, Goto, TypeOK, dbVars
<1>2. \A q \in Request \ {r} : tx[q].user => Who(q) # Who(r)
  BY DEF Insert, InsertWaits
<1>3. ~tx[r].user
  BY DEF Insert, PhaseInv, Phase, TxFits
<1>4. CASE Taken(r)
  <2>1. tx' = tx
    BY <1>4 DEF Insert
  <2> QED  BY <1>1, <1>3, <1>4, <2>1, ResolutionSameUsers DEF AtLogin
<1>5. CASE ~Taken(r)
  <2>1. pc'[r] = "reread" /\ tx'[r].user
    BY <1>5 DEF Insert, Goto, TypeOK, Tx
  <2> QED  BY <1>1, <1>2, <1>5, <2>1, ResolutionSameUsers DEF AtLogin
<1> QED  BY <1>4, <1>5

LEMMA LoginResolution ==
  ASSUME TypeOK, PhaseInv, PhaseInv', Resolution, NEW r \in Request,
         LookUp(r) \/ Reread(r) \/ Authenticate(r)
  PROVE  Resolution'
<1>1. CASE Rollback(r, "unresolved") \/ Rollback(r, "error")
  BY <1>1, EndResolution DEF Rollback, dbVars
<1>2. CASE /\ ~Rollback(r, "unresolved") /\ ~Rollback(r, "error")
           /\ LookUp(r) \/ Reread(r) \/ Authenticate(r)
  <2>1. /\ want' = want /\ users' = users /\ tx' = tx /\ pc[r] # "done"
        /\ \A q \in Request \ {r} : pc'[q] = pc[q] /\ tx'[q] = tx[q]
    BY <1>2 DEF LookUp, Reread, Authenticate, Goto, TypeOK, dbVars
  <2>2. tx[r].user => /\ ~Taken(r)
                      /\ \A q \in Request \ {r} : tx[q].user => Who(q) # Who(r)
    BY DEF Resolution, LoginInv
  <2>3. pc'[r] # "insert_again"
    <3>1. want[r].kind \in Kind
      BY Wishes DEF TypeOK
    <3>2. want[r].kind # "login" => First(want[r].kind) \in {"room", "find", "delete"}
      BY <3>1 DEF First, Kind
    <3>3. pc[r] = "auth" => want[r].kind # "login"
      BY DEF PhaseInv, Phase, KindFits, AtLogin
    <3> QED  BY <1>2, <3>2, <3>3 DEF LookUp, Reread, Authenticate, Goto, TypeOK
  <2>4. CASE LookUp(r)
    BY <2>1, <2>2, <2>3, <2>4, MatchesAre, ResolutionSameUsers
       DEF LookUp, Goto, TypeOK, AtLogin
  <2>5. CASE Reread(r)
    <3>1. pc'[r] = "refresh" /\ Matches(r) # {}
      BY <1>2, <2>5 DEF Reread, Goto, TypeOK
    <3> QED  BY <2>1, <2>2, <3>1, MatchesAre, ResolutionSameUsers DEF AtLogin
  <2>6. CASE Authenticate(r)
    <3>1. Known(Who(r))
      BY <1>2, <2>6 DEF Authenticate, Authenticated, Known
    <3>2. pc'[r] \notin {"reread", "refresh"}
      <4>1. want[r].kind \in Kind \ {"login"}
        BY <2>6, Wishes DEF Authenticate, PhaseInv, Phase, KindFits, AtLogin, TypeOK
      <4>2. First(want[r].kind) \in {"room", "find", "delete"}
        BY <4>1 DEF First, Kind
      <4> QED  BY <1>2, <2>6, <4>2 DEF Authenticate, Goto, TypeOK
    <3> QED  BY <2>1, <2>2, <2>3, <3>1, <3>2, ResolutionSameUsers
  <2> QED  BY <1>2, <2>4, <2>5, <2>6
<1> QED  BY <1>1, <1>2

LEMMA WorkResolution ==
  ASSUME TypeOK, PhaseInv, PhaseInv', Resolution, NEW r \in Request,
         MakeRoom(r) \/ Find(r) \/ DailyLimit(r) \/ Ask(r) \/ Answered(r)
  PROVE  Resolution'
<1>1. CASE Rollback(r, "error")
  BY <1>1, EndResolution DEF Rollback, dbVars
<1>2. CASE ~Rollback(r, "error")
  <2>1. /\ want' = want /\ users' = users
        /\ \A q \in Request \ {r} : pc'[q] = pc[q] /\ tx'[q] = tx[q]
    BY <1>2 DEF MakeRoom, Find, DailyLimit, Ask, Answered, Goto, TypeOK, dbVars
  <2>2. /\ pc[r] \in {"room", "find", "quota", "check", "asked"}
        /\ pc'[r] \in {"check", "quota", "asked", "write"}
    BY <1>2 DEF MakeRoom, Find, DailyLimit, Ask, Answered, Goto, TypeOK
  <2>3. ~tx'[r].user
    BY <2>2 DEF PhaseInv, Phase, TxFits
  <2>4. Known(Who(r))
    BY <2>2 DEF Resolution, AuthInv, AtLogin
  <2> QED  BY <2>1, <2>2, <2>3, <2>4, ResolutionSameUsers DEF AtLogin
<1> QED  BY <1>1, <1>2

LEMMA ResolutionStep ==
  ASSUME TypeOK, PhaseInv, Resolution, Next
  PROVE  Resolution'
<1>0. PhaseInv'
  BY PhaseStep
<1>1. ASSUME NEW r \in Request, Step(r) \/ Crash(r) PROVE Resolution'
  <2>1. CASE LookUp(r) \/ Reread(r) \/ Authenticate(r)
    BY <1>0, <2>1, LoginResolution
  <2>2. CASE Insert(r)
    BY <1>0, <2>2, InsertResolution
  <2>3. CASE SignedIn(r)
    BY <2>3, SignedInResolution
  <2>4. CASE MakeRoom(r) \/ Find(r) \/ DailyLimit(r) \/ Ask(r) \/ Answered(r)
    BY <1>0, <2>4, WorkResolution
  <2>5. CASE Rollback(r, "error")
    BY <1>0, <2>5, EndResolution DEF Rollback, dbVars
  <2>6. CASE StarterFails(r) \/ Write(r)
    BY <1>0, <2>6, EndResolution DEF StarterFails, Write
  <2>7. CASE Delete(r) /\ ~Rollback(r, "error")
    BY <1>0, <2>7, EndResolution DEF Delete
  <2> QED  BY <1>1, <2>1, <2>2, <2>3, <2>4, <2>5, <2>6, <2>7
       DEF Step, Crash, AskRefused, CallFails
<1>2. CASE Midnight \/ Idle
  <2>1. want' = want /\ pc' = pc /\ tx' = tx /\ users' = users
    BY <1>2 DEF Midnight, Idle, vars, dbVars
  <2> QED  BY <2>1 DEF Resolution, UsersInv, LoginInv, AuthInv, Known, Taken, Who
<1> QED  BY <1>1, <1>2 DEF Next

LEMMA InitResolution ==
  ASSUME Init
  PROVE  Resolution
<1>1. \A r \in Request : ~tx[r].user /\ pc[r] \in {"lookup", "auth"}
  BY DEF Init, NoTx
<1>2. users = {<<m, MemberOf[m]>> : m \in Member}
  BY DEF Init
<1>3. UsersInv
  BY <1>2, AccountsAssumption DEF UsersInv, Known
<1> QED  BY <1>1, <1>3 DEF Resolution, LoginInv, AuthInv, AtLogin

-----------------------------------------------------------------------------
(* What the tables say of one another.                                      *)

RowsInv ==
  /\ RowsWhole
  /\ \A r \in live \cap Request : want[r].kind = "create"
  /\ \A r \in Request : tx[r].rows # {} => CampaignOf(r) \in live

\* Users stay, and what is asked with them.
LEMMA KnownStays ==
  ASSUME TypeOK, PhaseInv, Next
  PROVE  /\ want' = want /\ users \subseteq users'
         /\ \A r : CampaignOf(r)' = CampaignOf(r)
         /\ \A c : OwnerOf(c)' = OwnerOf(c)
         /\ \A r : Who(r)' = Who(r)
<1>1. want' = want /\ users \subseteq users'
  <2>1. ASSUME NEW r \in Request, Step(r) \/ Crash(r)
        PROVE  want' = want /\ users \subseteq users'
    BY <2>1, Writers, OthersStay DEF SignedIn
  <2> QED  BY <2>1 DEF Next, Midnight, Idle, vars, dbVars
<1> QED  BY <1>1 DEF CampaignOf, OwnerOf, Who

\* An open transaction's turn is on a campaign there is when it is inserted.
LEMMA OpenRows ==
  ASSUME TypeOK, PhaseInv, NEW r \in Request, Step(r) \/ Crash(r)
  PROVE  \/ tx'[r].rows = {} \/ tx'[r].rows = tx[r].rows
         \/ (CampaignOf(r) \in live /\ live' = live)
<1> DEFINE Does == \/ tx'[r].rows = {} \/ tx'[r].rows = tx[r].rows
                   \/ (CampaignOf(r) \in live /\ live' = live)
<1>1. ASSUME NEW a, Answers(r, a) PROVE Does
  <2>1. tx'[r] = NoTx
    BY <1>1 DEF Answers, TypeOK
  <2> QED  BY <2>1 DEF NoTx
<1>2. CASE Ask(r)
  <2>1. CASE Opens(r)
    BY <1>2, <2>1 DEF Ask, dbVars
  <2>2. CASE ~Opens(r)
    BY <1>2, <2>2 DEF Ask, TypeOK, Tx
  <2> QED  BY <2>1, <2>2
<1>3. CASE Answered(r)
  BY <1>3 DEF Answered, TypeOK, Tx
<1>4. CASE Insert(r)
  BY <1>4 DEF Insert, TypeOK, Tx
<1>5. CASE tx' = tx
  BY <1>5
<1>6. CASE \E code \in {"error", "unresolved"} : Rollback(r, code)
  BY <1>1, <1>6 DEF Rollback
<1>7. CASE SignedIn(r) \/ StarterFails(r) \/ Write(r)
  BY <1>1, <1>7 DEF SignedIn, StarterFails, Write
<1>8. CASE Delete(r) /\ ~Rollback(r, "error")
  BY <1>1, <1>8 DEF Delete
<1>9. CASE LookUp(r) \/ Reread(r) \/ Authenticate(r) \/ MakeRoom(r) \/ Find(r) \/ DailyLimit(r)
  BY <1>5, <1>6, <1>9 DEF LookUp, Reread, Authenticate, MakeRoom, Find, DailyLimit
<1> QED  BY <1>2, <1>3, <1>4, <1>6, <1>7, <1>8, <1>9
     DEF Step, Crash, AskRefused, CallFails

\* The rows of open transactions stay with campaigns that stay.
LEMMA OpenRowsStay ==
  ASSUME TypeOK, PhaseInv, RowsInv, NEW r \in Request, Step(r) \/ Crash(r), live \subseteq live'
  PROVE  \A q \in Request : tx'[q].rows # {} => CampaignOf(q) \in live'
BY OpenRows, OthersStay DEF RowsInv

LEMMA WriteRows ==
  ASSUME TypeOK, PhaseInv, Resolution, RowsInv, NEW r \in Request, Write(r)
  PROVE  RowsInv'
<1>1. /\ pc[r] = "write"
      /\ live' = IF want[r].kind = "create" THEN live \cup {r} ELSE live
      /\ rows' = rows \cup Written(r)
      /\ calls' = calls \cup tx[r].log
      /\ users' = users /\ day' = day
  BY DEF Write, Answers
<1>2. /\ want' = want
      /\ \A q : CampaignOf(q)' = CampaignOf(q) /\ Who(q)' = Who(q)
      /\ \A c : OwnerOf(c)' = OwnerOf(c)
  BY KnownStays DEF Next, Step
<1>3. want[r].kind \in {"create", "play"}
  BY <1>1 DEF PhaseInv, Phase, KindFits, Working
<1>4. Known(Who(r))
  BY <1>1 DEF Resolution, AuthInv, AtLogin
<1>5. CampaignOf(r) \in live'
  <2>1. CASE want[r].kind = "create"
    BY <1>1, <2>1, CampaignOfCreate
  <2>2. CASE want[r].kind = "play"
    BY <1>1, <2>2 DEF PhaseInv, Phase, TxFits, RowsInv
  <2> QED  BY <1>3, <2>1, <2>2
<1>6. /\ \A row \in Written(r) : row.by = r
      /\ \A is \in {"assistant", "event"} : \E row \in Written(r) : row.by = r /\ row.is = is
  <2>1. \A row \in tx[r].rows : row.by = r
    BY DEF PhaseInv, Phase, TxFits
  <2>2. \A is : NewRow(r, is).by = r /\ NewRow(r, is).is = is
    BY DEF NewRow
  <2>3. \A row \in Written(r) : row.by = r
    BY <2>1, <2>2 DEF Written
  <2>4. NewRow(r, "assistant") \in Written(r) /\ NewRow(r, "event") \in Written(r)
    BY DEF Written
  <2> QED  BY <2>2, <2>3, <2>4
<1>7. \A q \in live' \cap Request : \E row \in rows' : row.by = q /\ row.is = "assistant"
  BY <1>1, <1>6 DEF RowsInv, RowsWhole
<1>8. \A row \in rows' :
        /\ CampaignOf(row.by) \in live'
        /\ \A is \in {"assistant", "event"} :
             \E other \in rows' : other.by = row.by /\ other.is = is
  <2> SUFFICES ASSUME NEW row \in rows'
               PROVE  /\ CampaignOf(row.by) \in live'
                      /\ \A is \in {"assistant", "event"} :
                           \E other \in rows' : other.by = row.by /\ other.is = is
    OBVIOUS
  <2>1. CASE row \in rows
    <3>1. CampaignOf(row.by) \in live'
      BY <1>1, <2>1 DEF RowsInv, RowsWhole
    <3>2. ASSUME NEW is \in {"assistant", "event"}
          PROVE  \E other \in rows' : other.by = row.by /\ other.is = is
      <4>1. \E other \in rows : other.by = row.by /\ other.is = is
        BY <2>1 DEF RowsInv, RowsWhole
      <4> QED  BY <1>1, <4>1
    <3> QED  BY <3>1, <3>2
  <2>2. CASE row \in Written(r)
    <3>1. row.by = r
      BY <1>6, <2>2
    <3> QED  BY <1>1, <1>5, <1>6, <3>1
  <2> QED  BY <1>1, <2>1, <2>2
<1>9. \A c \in live' : \E i \in Identity : <<OwnerOf(c), i>> \in users
  BY <1>1, <1>4, CampaignOfCreate DEF RowsInv, RowsWhole, Known
<1>10. \A call \in calls' : \E i \in Identity : <<Who(call.by), i>> \in users
  <2>1. \A call \in tx[r].log : call.by = r
    BY DEF PhaseInv, Phase, TxFits
  <2> QED  BY <1>1, <1>4, <2>1 DEF RowsInv, RowsWhole, Known
<1>11. RowsWhole'
  BY <1>1, <1>2, <1>7, <1>8, <1>9, <1>10 DEF RowsWhole
<1>12. \A q \in live' \cap Request : want[q].kind = "create"
  BY <1>1 DEF RowsInv
<1>13. \A q \in Request : tx'[q].rows # {} => CampaignOf(q) \in live'
  BY <1>1, OpenRowsStay DEF Step
<1> QED  BY <1>2, <1>11, <1>12, <1>13 DEF RowsInv

LEMMA DeleteRows ==
  ASSUME TypeOK, PhaseInv, RowsInv, NEW r \in Request, Delete(r), ~Rollback(r, "error")
  PROVE  RowsInv'
<1> DEFINE c == CampaignOf(r)
<1>1. /\ ~Referenced(c) /\ live' = live \ {c}
      /\ rows' = {row \in rows : CampaignOf(row.by) # c}
      /\ calls' = calls /\ users' = users
  BY DEF Delete, Cascade
<1>2. /\ want' = want
      /\ \A q : CampaignOf(q)' = CampaignOf(q) /\ Who(q)' = Who(q)
      /\ \A d : OwnerOf(d)' = OwnerOf(d)
  BY KnownStays DEF Next, Step
<1>3. \A q \in Request : tx'[q].rows # {} => CampaignOf(q) \in live /\ CampaignOf(q) # c
  <2>1. tx'[r] = NoTx
    BY DEF Delete, Answers, TypeOK
  <2>2. \A q \in Request \ {r} : tx'[q] = tx[q]
    BY OthersStay DEF Step
  <2> QED  BY <1>1, <2>1, <2>2 DEF NoTx, RowsInv, Referenced
<1> HIDE DEF c
<1>4. \A q \in live' \cap Request : want[q].kind = "create"
  BY <1>1 DEF RowsInv
<1>5. \A q \in live' \cap Request : \E row \in rows' : row.by = q /\ row.is = "assistant"
  <2>1. \A q \in live' \cap Request : CampaignOf(q) = q /\ q # c
    BY <1>1, <1>4, CampaignOfCreate
  <2>2. \A q \in live \cap Request : \E row \in rows : row.by = q /\ row.is = "assistant"
    BY DEF RowsInv, RowsWhole
  <2> SUFFICES ASSUME NEW q \in live' \cap Request
               PROVE  \E row \in rows' : row.by = q /\ row.is = "assistant"
    OBVIOUS
  <2>3. PICK row \in rows : row.by = q /\ row.is = "assistant"
    BY <1>1, <2>2
  <2>4. CampaignOf(row.by) # c
    BY <2>1, <2>3
  <2> QED  BY <1>1, <2>3, <2>4
<1>6. \A row \in rows' :
        /\ CampaignOf(row.by) \in live'
        /\ \A is \in {"assistant", "event"} :
             \E other \in rows' : other.by = row.by /\ other.is = is
  <2> SUFFICES ASSUME NEW row \in rows'
               PROVE  /\ CampaignOf(row.by) \in live'
                      /\ \A is \in {"assistant", "event"} :
                           \E other \in rows' : other.by = row.by /\ other.is = is
    OBVIOUS
  <2>1. row \in rows /\ CampaignOf(row.by) # c
    BY <1>1
  <2>2. CampaignOf(row.by) \in live'
    BY <1>1, <2>1 DEF RowsInv, RowsWhole
  <2>3. ASSUME NEW is \in {"assistant", "event"}
        PROVE  \E other \in rows' : other.by = row.by /\ other.is = is
    <3>1. PICK other \in rows : other.by = row.by /\ other.is = is
      BY <2>1 DEF RowsInv, RowsWhole
    <3> QED  BY <1>1, <2>1, <3>1
  <2> QED  BY <2>2, <2>3
<1>7. RowsWhole'
  BY <1>1, <1>2, <1>5, <1>6 DEF RowsInv, RowsWhole
<1> QED  BY <1>1, <1>2, <1>3, <1>4, <1>7 DEF RowsInv

LEMMA StarterFailsRows ==
  ASSUME TypeOK, PhaseInv, Resolution, RowsInv, NEW r \in Request, StarterFails(r)
  PROVE  RowsInv'
<1>1. PICK tokens \in Counted : calls' = calls \cup Logged(r, tokens)
  BY DEF StarterFails
<1>2. live' = live /\ rows' = rows /\ users' = users /\ pc[r] = "asked"
  BY DEF StarterFails
<1>3. /\ want' = want
      /\ \A q : CampaignOf(q)' = CampaignOf(q) /\ Who(q)' = Who(q)
      /\ \A d : OwnerOf(d)' = OwnerOf(d)
  BY KnownStays DEF Next, Step
<1>4. Known(Who(r))
  BY <1>2 DEF Resolution, AuthInv, AtLogin
<1>5. \A call \in Logged(r, tokens) : call.by = r
  BY <1>2, LoggedIsLog DEF PhaseInv
<1>6. \A call \in calls' : \E i \in Identity : <<Who(call.by), i>> \in users
  BY <1>1, <1>4, <1>5 DEF RowsInv, RowsWhole, Known
<1>7. RowsWhole'
  BY <1>2, <1>3, <1>6 DEF RowsInv, RowsWhole
<1>8. \A q \in Request : tx'[q].rows # {} => CampaignOf(q) \in live'
  BY <1>2, OpenRowsStay DEF Step
<1> QED  BY <1>2, <1>3, <1>7, <1>8 DEF RowsInv

LEMMA RowsStep ==
  ASSUME TypeOK, PhaseInv, Resolution, RowsInv, Next
  PROVE  RowsInv'
<1>0. /\ want' = want /\ users \subseteq users'
      /\ \A q : CampaignOf(q)' = CampaignOf(q) /\ Who(q)' = Who(q)
      /\ \A d : OwnerOf(d)' = OwnerOf(d)
  BY KnownStays
<1>1. ASSUME NEW r \in Request, Step(r) \/ Crash(r) PROVE RowsInv'
  <2>1. CASE Write(r)
    BY <2>1, WriteRows
  <2>2. CASE StarterFails(r)
    BY <2>2, StarterFailsRows
  <2>3. CASE Delete(r) /\ ~Rollback(r, "error")
    BY <2>3, DeleteRows
  <2>4. CASE live' = live /\ rows' = rows /\ calls' = calls
    <3>1. \A q \in Request : tx'[q].rows # {} => CampaignOf(q) \in live'
      BY <1>1, <2>4, OpenRowsStay
    <3>2. RowsWhole'
      BY <1>0, <2>4 DEF RowsInv, RowsWhole
    <3> QED  BY <1>0, <2>4, <3>1, <3>2 DEF RowsInv
  <2>5. CASE Rollback(r, "error")
    BY <2>4, <2>5 DEF Rollback, dbVars
  <2> QED  BY <1>1, <2>1, <2>2, <2>3, <2>4, <2>5, Writers
<1>2. CASE Midnight \/ Idle
  <2>1. live' = live /\ rows' = rows /\ calls' = calls /\ tx' = tx
    BY <1>2 DEF Midnight, Idle, vars, dbVars
  <2>2. RowsWhole'
    BY <1>0, <2>1 DEF RowsInv, RowsWhole
  <2> QED  BY <1>0, <2>1, <2>2 DEF RowsInv
<1> QED  BY <1>1, <1>2 DEF Next

LEMMA InitRows ==
  ASSUME Init
  PROVE  RowsInv
<1>1. live \cap Request = {} /\ rows = {} /\ calls = {}
  BY AccountsAssumption DEF Init
<1>2. \A c \in live : \E i \in Identity : <<OwnerOf(c), i>> \in users
  <2> SUFFICES ASSUME NEW c \in Campaign
               PROVE  \E i \in Identity : <<SeedOwner[c], i>> \in users
    BY DEF Init, OwnerOf
  <2>1. SeedOwner[c] \in Member /\ MemberOf[SeedOwner[c]] \in Identity
    BY AccountsAssumption
  <2>2. <<SeedOwner[c], MemberOf[SeedOwner[c]]>> \in users
    BY <2>1 DEF Init
  <2> QED  BY <2>1, <2>2
<1>3. \A r \in Request : tx[r].rows = {}
  BY DEF Init, NoTx
<1> QED  BY <1>1, <1>2, <1>3 DEF RowsInv, RowsWhole

-----------------------------------------------------------------------------
(* The inductive invariant and what it gives.                               *)

IInv == TypeOK /\ PhaseInv /\ Resolution /\ RowsInv

LEMMA IInvStep ==
  ASSUME IInv, [Next]_vars
  PROVE  IInv'
<1>1. CASE Next
  BY <1>1, TypesStep, PhaseStep, ResolutionStep, RowsStep DEF IInv
<1>2. CASE UNCHANGED vars
  <2>1. /\ want' = want /\ pc' = pc /\ tx' = tx /\ answer' = answer /\ day' = day
        /\ users' = users /\ live' = live /\ rows' = rows /\ calls' = calls /\ knew' = knew
    BY <1>2 DEF vars, dbVars
  <2>2. TypeOK'
    BY <2>1 DEF IInv, TypeOK
  <2>3. PhaseInv'
    BY <2>1, PhaseStays DEF IInv, PhaseInv
  <2>4. Resolution'
    BY <2>1 DEF IInv, Resolution, UsersInv, LoginInv, AuthInv, Known, Taken, Who
  <2>5. RowsInv'
    <3>1. \A q : CampaignOf(q)' = CampaignOf(q) /\ Who(q)' = Who(q) /\ OwnerOf(q)' = OwnerOf(q)
      BY <2>1 DEF CampaignOf, Who, OwnerOf
    <3> QED  BY <2>1, <3>1 DEF IInv, RowsInv, RowsWhole
  <2> QED  BY <2>2, <2>3, <2>4, <2>5 DEF IInv
<1> QED  BY <1>1, <1>2

\* IInv is an invariant of Accounts: the argument behind every theorem here.
THEOREM Invariance == Spec => []IInv
<1>1. Init => IInv
  BY InitTypes, InitResolution, InitRows DEF IInv
<1> QED  BY <1>1, IInvStep, PTL DEF Spec

\* Every variable keeps its type.
THEOREM TypeCorrect == Spec => []TypeOK
BY Invariance, PTL DEF IInv

\* A campaign is there with its opening or not at all, a turn with the rest
\* of its exchange and with its campaign, and everything with its user.
THEOREM RowsAreWhole == Spec => []RowsWhole
BY Invariance, PTL DEF IInv, RowsInv

\* What a step tells is told to the request that ends in it.
LEMMA AnswersStep ==
  ASSUME IInv, NEW r \in Request, Step(r) \/ Crash(r)
  PROVE  \/ answer' = answer
         \/ SignedIn(r)
         \/ /\ answer[r] = Unanswered
            /\ \E code \in {"ok", "error"} : answer' = [answer EXCEPT ![r] = Told(code)]
<1> DEFINE Does == \/ answer' = answer
                   \/ SignedIn(r)
                   \/ /\ answer[r] = Unanswered
                      /\ \E code \in {"ok", "error"} :
                           answer' = [answer EXCEPT ![r] = Told(code)]
<1>1. pc[r] # "done"
  BY DEF Step, Crash, LookUp, Insert, Reread, SignedIn, Authenticate, MakeRoom, Find,
     DailyLimit, Ask, AskRefused, Answered, StarterFails, CallFails, Write, Delete, Goto
<1>2. answer[r] = Unanswered
  BY <1>1 DEF IInv, PhaseInv, Phase
<1>3. ASSUME NEW code \in {"ok", "error"}, Answers(r, Told(code)) PROVE Does
  BY <1>2, <1>3 DEF Answers
<1>4. CASE Rollback(r, "error")
  BY <1>3, <1>4 DEF Rollback
<1>5. CASE Reread(r)
  BY <1>5, MatchesWhenDue DEF Reread, IInv, Resolution
<1>6. CASE LookUp(r) \/ Insert(r) \/ Ask(r) \/ Answered(r)
  BY <1>6 DEF LookUp, Insert, Ask, Answered
<1>7. CASE Authenticate(r) \/ MakeRoom(r) \/ Find(r) \/ DailyLimit(r)
  BY <1>4, <1>7 DEF Authenticate, MakeRoom, Find, DailyLimit
<1>8. CASE StarterFails(r) \/ Write(r)
  BY <1>3, <1>8 DEF StarterFails, Write
<1>9. CASE Delete(r) /\ ~Rollback(r, "error")
  BY <1>3, <1>9 DEF Delete
<1>10. CASE SignedIn(r)
  BY <1>10
<1> QED  BY <1>4, <1>5, <1>6, <1>7, <1>8, <1>9, <1>10
     DEF Step, Crash, AskRefused, CallFails

\* No answer is a login that found nothing.
Resolves == \A r \in Request : answer[r].code # "unresolved"

LEMMA ResolvesStep ==
  ASSUME IInv, Resolves, [Next]_vars
  PROVE  Resolves'
<1>1. ASSUME NEW r \in Request, Step(r) \/ Crash(r) PROVE Resolves'
  <2>1. CASE answer' = answer
    BY <2>1 DEF Resolves
  <2>2. CASE SignedIn(r)
    BY <2>2 DEF SignedIn, Answers, IInv, TypeOK, Resolves
  <2>3. ASSUME NEW code \in {"ok", "error"}, answer' = [answer EXCEPT ![r] = Told(code)]
        PROVE  Resolves'
    BY <2>3 DEF Told, IInv, TypeOK, Resolves
  <2> QED  BY <1>1, <2>1, <2>2, <2>3, AnswersStep
<1>2. CASE Midnight \/ Idle \/ UNCHANGED vars
  BY <1>2 DEF Midnight, Idle, vars, Resolves
<1> QED  BY <1>1, <1>2 DEF Next

\* However first logins race, fail or crash, none finds nothing: who loses
\* the INSERT reads the winner's row.
THEOREM LoginsSucceed == Spec => []SignInSucceeds
<1>1. Init => Resolves
  BY DEF Init, Unanswered, Resolves
<1>2. Resolves => SignInSucceeds
  BY DEF Resolves, SignInSucceeds
<1> QED  BY <1>1, <1>2, ResolvesStep, Invariance, PTL DEF Spec
-----------------------------------------------------------------------------
(* What a step may never do.                                                *)

\* Within a day nothing gives tokens back, and only a deletion gives turns.
THEOREM SpendingStays == Spec => SpendingIsKept
<1> DEFINE Kept == \A u \in User :
      day' = day =>
         /\ Of(u, Today(calls)) \subseteq Of(u, Today(calls))'
         /\ TurnsToday(u) \subseteq TurnsToday(u)' \/ live \ live' # {}
<1>1. ASSUME IInv, [Next]_vars PROVE Kept
  <2>1. CASE UNCHANGED vars
    BY <2>1 DEF vars, dbVars, Of, Today, TurnsToday, Who, CampaignOf
  <2>2. CASE Next
    <3>1. /\ \A r : CampaignOf(r)' = CampaignOf(r)
          /\ \A r : Who(r)' = Who(r)
      BY <1>1, <2>2, KnownStays DEF IInv
    <3>2. /\ calls \subseteq calls'
          /\ (rows \subseteq rows' /\ live \subseteq live') \/ live \ live' # {}
      <4>1. ASSUME NEW r \in Request, Step(r) \/ Crash(r)
            PROVE  /\ calls \subseteq calls'
                   /\ (rows \subseteq rows' /\ live \subseteq live') \/ live \ live' # {}
        <5>1. CASE Write(r)
          BY <5>1 DEF Write
        <5>2. CASE StarterFails(r)
          BY <5>2 DEF StarterFails
        <5>3. CASE Delete(r)
          BY <5>3 DEF Delete, Deletable, Owned, Cascade, Rollback, dbVars
        <5> QED  BY <1>1, <4>1, <5>1, <5>2, <5>3, Writers DEF IInv
      <4> QED  BY <2>2, <4>1 DEF Next, Midnight, Idle, vars, dbVars
    <3> QED  BY <3>1, <3>2 DEF Of, Today, TurnsToday
  <2> QED  BY <1>1, <2>1, <2>2
<1> QED  BY <1>1, Invariance, PTL DEF Spec, SpendingIsKept

\* What a user has changes only in a step of that user.
LEMMA HoldingsStep ==
  ASSUME IInv, NEW r \in Request, Step(r) \/ Crash(r),
         NEW u \in User, Holdings(u)' # Holdings(u)
  PROVE  Who(r) = u /\ pc[r] \in Working \cup {"delete"} /\ pc'[r] = "done"
<1>0. /\ \A q : CampaignOf(q)' = CampaignOf(q)
      /\ \A q : Who(q)' = Who(q)
      /\ \A c : OwnerOf(c)' = OwnerOf(c)
  BY KnownStays DEF IInv, Next
<1> DEFINE Same == /\ {c \in live' : OwnerOf(c) = u} = {c \in live : OwnerOf(c) = u}
                   /\ {row \in rows' : OwnerOf(CampaignOf(row.by)) = u}
                        = {row \in rows : OwnerOf(CampaignOf(row.by)) = u}
                   /\ {c \in calls' : Who(c.by) = u} = {c \in calls : Who(c.by) = u}
<1>1. ~Same
  BY <1>0 DEF Holdings, Owned, Of
<1>2. CASE Write(r)
  <2>1. /\ live' = IF want[r].kind = "create" THEN live \cup {r} ELSE live
        /\ rows' = rows \cup Written(r) /\ calls' = calls \cup tx[r].log
        /\ pc[r] = "write" /\ pc'[r] = "done"
    BY <1>2 DEF Write, Answers, IInv, TypeOK
  <2>2. Phase(r)
    BY DEF IInv, PhaseInv
  <2>3. /\ \A row \in Written(r) : row.by = r
        /\ \A c \in tx[r].log : c.by = r
    BY <2>2 DEF Phase, TxFits, Written, NewRow
  <2>4. want[r].kind = "create" => OwnerOf(r) = Who(r)
    BY CampaignOfCreate
  <2>5. OwnerOf(CampaignOf(r)) = Who(r)
    BY <2>1, <2>2, CampaignOfCreate DEF Phase, KindFits, OwnerFits, Working
  <2>6. Who(r) # u => Same
    BY <2>1, <2>3, <2>4, <2>5
  <2> QED  BY <1>1, <2>1, <2>6 DEF Working
<1>3. CASE StarterFails(r)
  <2>1. PICK tokens \in Counted : calls' = calls \cup Logged(r, tokens)
    BY <1>3 DEF StarterFails
  <2>2. live' = live /\ rows' = rows /\ pc[r] = "asked" /\ pc'[r] = "done"
    BY <1>3 DEF StarterFails, Answers, IInv, TypeOK
  <2>3. \A c \in Logged(r, tokens) : c.by = r
    BY <2>2, LoggedIsLog DEF IInv, PhaseInv
  <2>4. Who(r) # u => Same
    BY <2>1, <2>2, <2>3
  <2> QED  BY <1>1, <2>2, <2>4 DEF Working
<1>4. CASE Delete(r) /\ ~Rollback(r, "error")
  <2>1. /\ OwnerOf(CampaignOf(r)) = Who(r)
        /\ live' = live \ {CampaignOf(r)}
        /\ rows' = {row \in rows : CampaignOf(row.by) # CampaignOf(r)}
        /\ calls' = calls /\ pc[r] = "delete" /\ pc'[r] = "done"
    BY <1>4 DEF Delete, Deletable, Owned, Cascade, Answers, IInv, TypeOK
  <2>2. Who(r) # u => Same
    BY <2>1
  <2> QED  BY <1>1, <2>1, <2>2
<1>5. CASE live' = live /\ rows' = rows /\ calls' = calls
  BY <1>1, <1>5
<1>6. CASE Rollback(r, "error")
  BY <1>5, <1>6 DEF Rollback, dbVars
<1> QED  BY <1>2, <1>3, <1>4, <1>5, <1>6, Writers DEF IInv

\* Nobody changes what is another user's, and who changes anything exists.
THEOREM TenantsStayApart == Spec => TenantsApart
<1> DEFINE Untouched == \A u \in User :
       Holdings(u)' # Holdings(u) =>
         \E r \in Request : /\ pc[r] # pc'[r] /\ Who(r) = u
                            /\ \E i \in Identity : <<u, i>> \in users
<1>1. ASSUME IInv, [Next]_vars PROVE Untouched
  <2>1. CASE UNCHANGED vars \/ Midnight \/ Idle
    BY <2>1 DEF vars, dbVars, Midnight, Idle, Holdings, Owned, Of, OwnerOf, CampaignOf, Who
  <2>2. ASSUME NEW r \in Request, Step(r) \/ Crash(r) PROVE Untouched
    <3> SUFFICES ASSUME NEW u \in User, Holdings(u)' # Holdings(u)
                 PROVE  /\ pc[r] # pc'[r] /\ Who(r) = u
                        /\ \E i \in Identity : <<u, i>> \in users
      OBVIOUS
    <3>1. Who(r) = u /\ pc[r] \in Working \cup {"delete"} /\ pc'[r] = "done"
      BY <1>1, <2>2, HoldingsStep
    <3>2. Known(u)
      BY <1>1, <3>1 DEF IInv, Resolution, AuthInv, AtLogin, Working
    <3> QED  BY <3>1, <3>2 DEF Known, Working
  <2> QED  BY <1>1, <2>1, <2>2 DEF Next
<1> QED  BY <1>1, Invariance, PTL DEF Spec, TenantsApart
-----------------------------------------------------------------------------
(* Accounts implements UserDirectory.                                       *)

Logins == {r \in Request : want[r].kind = "login"}
UserOf(i) == IF IdsOf(i) = {} THEN NoUser ELSE CHOOSE u \in IdsOf(i) : TRUE
DirectoryVars == <<[r \in Logins |-> Who(r)], [i \in Identity |-> UserOf(i)],
                   [r \in Request |-> answer[r].user]>>

LEMMA DirectoryInit ==
  ASSUME Init
  PROVE  Directory!Init
<1>1. [r \in Logins |-> Who(r)] \in [Logins -> Identity]
  BY Wishes DEF Logins, Init
<1>2. \A i \in Identity : UserOf(i) \in User \cup {NoUser}
  BY DEF UserOf, IdsOf
<1>3. \A r \in Request : answer[r].user = NoUser
  BY DEF Init, Unanswered
<1> QED  BY <1>1, <1>2, <1>3 DEF Directory!Init, Logins, UserOf

\* An identity's user is the one row it has.
LEMMA UserOfKnown ==
  ASSUME IInv, NEW r \in Request, NEW i \in Identity
  PROVE  /\ \A u \in IdsOf(i) : UserOf(i) = u
         /\ UserOf(i) = NoUser <=> IdsOf(i) = {}
         /\ pc[r] # "done" => UserOf(i) # r
<1>1. \A u, v \in IdsOf(i) : u = v
  BY DEF IInv, Resolution, UsersInv, IdsOf
<1>2. \A u \in IdsOf(i) : UserOf(i) = u
  BY <1>1 DEF UserOf
<1>3. NoUser \notin User
  BY AccountsAssumption
<1>4. UserOf(i) = NoUser <=> IdsOf(i) = {}
  BY <1>2, <1>3 DEF UserOf, IdsOf
<1>5. r # NoUser
  BY <1>3 DEF User
<1>6. pc[r] # "done" => UserOf(i) # r
  BY <1>2, <1>5 DEF UserOf, IInv, Resolution, UsersInv, Known, IdsOf
<1> QED  BY <1>2, <1>4, <1>6

LEMMA DirectoryStutters ==
  ASSUME want' = want, users' = users,
         \A r \in Request : answer'[r].user = answer[r].user
  PROVE  UNCHANGED DirectoryVars
BY DEF DirectoryVars, Logins, UserOf, IdsOf, Who

\* A login that commits is told the user its identity has then.
LEMMA DirectorySignIn ==
  ASSUME IInv, NEW r \in Request, SignedIn(r)
  PROVE  Directory!SignIn(r) /\ r \in Logins
<1> DEFINE i == Who(r)
           fresh == tx[r].user
<1>1. want[r].kind = "login" /\ i \in Identity /\ r \in Logins
  BY Wishes DEF IInv, TypeOK, PhaseInv, Phase, KindFits, AtLogin, SignedIn, Logins
<1>2. answer[r] = Unanswered /\ pc[r] # "done" /\ want' = want
  BY DEF SignedIn, Answers, IInv, PhaseInv, Phase
<1>3. answer' = [answer EXCEPT ![r] = [code |-> "ok", user |-> Resolved(r)]]
  BY DEF SignedIn, Answers
<1>4. /\ [q \in Request |-> answer'[q].user]
           = [[q \in Request |-> answer[q].user] EXCEPT ![r] = Resolved(r)]
      /\ answer[r].user = NoUser
  <2> DEFINE told == [code |-> "ok", user |-> Resolved(r)]
  <2>1. \A q \in Request : answer'[q] = IF q = r THEN told ELSE answer[q]
    BY <1>3 DEF IInv, TypeOK
  <2>2. told.user = Resolved(r)
    OBVIOUS
  <2> HIDE DEF told
  <2>3. \A q \in Request : answer'[q].user = IF q = r THEN Resolved(r) ELSE answer[q].user
    BY <2>1, <2>2
  <2>4. [q \in Request |-> answer'[q].user]
           = [[q \in Request |-> answer[q].user] EXCEPT ![r] = Resolved(r)]
    BY <2>3
  <2>5. Unanswered.user = NoUser
    BY DEF Unanswered
  <2> QED  BY <1>2, <2>4, <2>5
<1>5. [q \in Logins |-> Who(q)]' = [q \in Logins |-> Who(q)]
  BY <1>2 DEF Logins, Who
<1>6. Matches(r) # {} /\ Resolved(r) \in Matches(r)
  BY ResolvedIsUser DEF SignedIn
<1>7. CASE ~fresh
  <2>1. users' = users
    BY <1>7 DEF SignedIn
  <2>2. Resolved(r) \in IdsOf(i)
    BY <1>6, <1>7, MatchesAre DEF IInv, IdsOf
  <2>3. UserOf(i) = Resolved(r) /\ UserOf(i) # NoUser
    BY <1>1, <2>2, UserOfKnown
  <2>4. [j \in Identity |-> UserOf(j)]' = [j \in Identity |-> UserOf(j)]
    BY <2>1 DEF UserOf, IdsOf
  <2> QED  BY <1>1, <1>4, <1>5, <2>3, <2>4 DEF Directory!SignIn, Logins, UserOf
<1>8. CASE fresh
  <2>1. Resolved(r) = r
    BY <1>6, <1>8, MatchesAre DEF IInv
  <2>2. IdsOf(i) = {}
    BY <1>8 DEF IInv, Resolution, LoginInv, Taken, IdsOf
  <2>3. users' = users \cup {<<r, i>>}
    BY <1>8 DEF SignedIn
  <2>4. r \in User /\ r # NoUser
    BY AccountsAssumption DEF User
  <2>5. \A j : IdsOf(j)' = IF j = i THEN {r} ELSE IdsOf(j)
    BY <2>2, <2>3, <2>4 DEF IdsOf
  <2>6. \A j : UserOf(j)' = IF j = i THEN r ELSE UserOf(j)
    <3>1. ASSUME NEW j, j = i PROVE UserOf(j)' = r
      <4>1. IdsOf(j)' = {r}
        BY <2>5, <3>1
      <4> QED  BY <4>1 DEF UserOf
    <3>2. ASSUME NEW j, j # i PROVE UserOf(j)' = UserOf(j)
      <4>1. IdsOf(j)' = IdsOf(j)
        BY <2>5, <3>2
      <4> QED  BY <4>1 DEF UserOf
    <3> QED  BY <3>1, <3>2
  <2>7. [j \in Identity |-> UserOf(j)]' = [[j \in Identity |-> UserOf(j)] EXCEPT ![i] = r]
    BY <1>1, <2>6
  <2>8. UserOf(i) = NoUser
    BY <2>2 DEF UserOf
  <2>9. \A j \in Identity : UserOf(j) # r
    BY <1>2, UserOfKnown
  <2> QED  BY <1>1, <1>4, <1>5, <2>1, <2>4, <2>7, <2>8, <2>9
           DEF Directory!SignIn, Directory!Unused, Logins, UserOf
<1> QED  BY <1>7, <1>8

LEMMA DirectoryNext == IInv /\ [Next]_vars => [Directory!Next]_(Directory!vars)
<1> SUFFICES ASSUME IInv, [Next]_vars PROVE Directory!Next \/ UNCHANGED DirectoryVars
  BY DEF Directory!vars, DirectoryVars, Logins, UserOf
<1>1. CASE UNCHANGED vars \/ Midnight \/ Idle
  BY <1>1, DirectoryStutters DEF vars, dbVars, Midnight, Idle
<1>2. ASSUME NEW r \in Request, Step(r) \/ Crash(r)
      PROVE  Directory!Next \/ UNCHANGED DirectoryVars
  <2>1. CASE SignedIn(r)
    <3>1. Directory!SignIn(r) /\ r \in Logins
      BY <2>1, DirectorySignIn
    <3> QED  BY <3>1 DEF Directory!Next, Logins
  <2>2. CASE ~SignedIn(r)
    <3>1. want' = want /\ users' = users
      BY <1>2, <2>2, Writers, OthersStay DEF IInv
    <3>2. \A q \in Request : answer'[q].user = answer[q].user
      <4>1. CASE answer' = answer
        BY <4>1
      <4>2. ASSUME answer[r] = Unanswered,
                   NEW code \in {"ok", "error"}, answer' = [answer EXCEPT ![r] = Told(code)]
            PROVE  \A q \in Request : answer'[q].user = answer[q].user
        <5>1. Unanswered.user = NoUser /\ Told(code).user = NoUser
          BY DEF Unanswered, Told
        <5>2. \A q \in Request : answer'[q] = IF q = r THEN Told(code) ELSE answer[q]
          BY <4>2 DEF IInv, TypeOK
        <5> QED  BY <4>2, <5>1, <5>2
      <4> QED  BY <1>2, <2>2, <4>1, <4>2, AnswersStep
    <3> QED  BY <3>1, <3>2, DirectoryStutters
  <2> QED  BY <2>1, <2>2
<1> QED  BY <1>1, <1>2 DEF Next

\* resolve_internal_user implements UserDirectory: one user for an identity,
\* whoever came first, and every login is told it.
THEOREM DirectoryRefinement == Spec => ImplementsDirectory
BY Invariance, DirectoryInit, DirectoryNext, PTL DEF Spec, ImplementsDirectory, Directory!Spec
=============================================================================
