---------------------------- MODULE UsageProofs ----------------------------
(***************************************************************************)
(* That a limit is overdrawn only by requests that overlap, for every set  *)
(* of requests, every usage report and every limit.  Each check leaves     *)
(* behind what it knew; the invariant says how much of what is there now   *)
(* an open request knew when it was checked, and that a finished one knew  *)
(* of nothing that was not finished.                                       *)
(***************************************************************************)
EXTENDS AccountsProofs, Induction

-----------------------------------------------------------------------------
(* The inductive invariant.                                                 *)

Done(q) == q \in Request /\ pc[q] = "done"

\* A check sees what is committed, and a request its own calls.
KnewInv ==
  \A q \in Request, thing \in Thing : \A a \in knew[q][thing] :
    a[1] = q \/ a[1] \in Campaign \/ Done(a[1])

\* What is committed is finitely much, of requests that are done, and not of
\* a day to come; a call has one record.
CommittedInv ==
  /\ IsFiniteSet(live) /\ IsFiniteSet(rows) /\ IsFiniteSet(calls)
  /\ \A row \in rows : Done(row.by) /\ row.on <= day
  /\ \A c \in calls : Done(c.by) /\ c.on <= day
  /\ \A r \in live \cap Request : Done(r)
  /\ \A c, d \in calls : c.by = d.by /\ c.call = d.call => c = d

\* What a transaction has open: at most one turn, the player's.
OpenInv ==
  \A r \in Request :
    /\ \A c \in tx[r].log : c.on <= day
    /\ \A row \in tx[r].rows : row.on <= day /\ row.is = "user"
    /\ \A row, other \in tx[r].rows : row = other

\* Of the campaigns, turns and exchanges there are, an open request knew fewer
\* than the limit when it was checked.
KnewOf(r, thing, some) == {row \in some : <<row.by, thing>> \in knew[r][thing]}
KnewCampaigns(r) == {c \in Owned(Who(r)) : <<c, "campaign">> \in knew[r]["campaign"]}

CampaignRoom(r) ==
  want[r].kind = "create" /\ pc[r] \in Working =>
    /\ Cardinality(KnewCampaigns(r)) < MaxCampaigns
    /\ \A c \in live \cap Campaign : <<c, "campaign">> \in knew[r]["campaign"]
ExchangeRoom(r) ==
  want[r].kind = "play" /\ pc[r] \in Working \cup {"quota"} =>
    Cardinality(KnewOf(r, "exchange", UserTurns(CampaignOf(r)))) < MaxTurns
TurnRoom(r) ==
  want[r].kind = "play" /\ pc[r] \in Working =>
    Cardinality(KnewOf(r, "turn", TurnsToday(Who(r)))) < MaxRequests
RoomInv == \A r \in Request : CampaignRoom(r) /\ ExchangeRoom(r) /\ TurnRoom(r)

\* Each call of a request knew the earlier ones and no other of its own, and
\* what it knew of today's calls left room for it.
PlanOf(r) == Plan(want[r].kind)
Affordable(u, log) ==
  /\ Tokens(Of(u, log)) + Pending <= MaxTokens
  /\ Cardinality(log) < MaxProjectRequests
  /\ Tokens(log) + Pending <= MaxProjectTokens
KnewCalls(r, call, log) ==
  {c \in Today(calls \cup log) : <<c.by, c.call>> \in knew[r][call]}
InOrder(r, reached) ==
  \A i \in 1 .. reached, k \in 1 .. 3 :
    <<r, PlanOf(r)[k]>> \in knew[r][PlanOf(r)[i]] <=> k < i
Budgeted(r, log, reached) ==
  /\ \A c \in log : \E i \in 1 .. reached : c.call = PlanOf(r)[i]
  /\ \A c, d \in log : c.call = d.call => c = d
  /\ InOrder(r, reached)
  /\ \A i \in 1 .. reached : Affordable(Who(r), KnewCalls(r, PlanOf(r)[i], log))

Reached(r) == IF pc[r] = "asked" THEN Made(r) + 1 ELSE Made(r)
CallsInv ==
  \A r \in Request : pc[r] \in Working =>
    /\ Made(r) \in 0 .. 3
    /\ \A k \in 1 .. Made(r) : \E c \in tx[r].log : c.call = PlanOf(r)[k]
    /\ \A c \in tx[r].log : \E k \in 1 .. Made(r) : c.call = PlanOf(r)[k]
    /\ Budgeted(r, tx[r].log, Reached(r))

\* The limits, as deletions keep them: whatever is left of the turns, the
\* exchanges or the campaigns.
TurnUses(some) == {<<row.by, "turn">> : row \in some}
ExchangeUses(some) == {<<row.by, "exchange">> : row \in some}
CampaignUses(some) == {<<c, "campaign">> : c \in some \cap Request}
TurnLimit ==
  \A u \in User : \A some \in SUBSET TurnsToday(u) :
    Cardinality(some) <= MaxRequests \/ Overlap(TurnUses(some))
ExchangeLimit ==
  \A c \in CampaignId : \A some \in SUBSET UserTurns(c) :
    Cardinality(some) <= MaxTurns \/ Overlap(ExchangeUses(some))
CampaignLimit ==
  \A u \in User : \A some \in SUBSET Owned(u) :
    Cardinality(some) <= MaxCampaigns \/ Overlap(CampaignUses(some))
CallLimits ==
  /\ \A u \in User : Fits(Of(u, Today(calls)), MaxTokens)
  /\ Fits(Today(calls), MaxProjectTokens)
  /\ \/ Cardinality(Today(calls)) <= MaxProjectRequests
     \/ Overlap(CallUses(Today(calls)))
LimitsInv == TurnLimit /\ ExchangeLimit /\ CampaignLimit /\ CallLimits

UsageInv == KnewInv /\ CommittedInv /\ OpenInv /\ RoomInv /\ CallsInv /\ LimitsInv
-----------------------------------------------------------------------------
(* Sums of tokens.                                                          *)

\* The sum of token counts is the one its recursion says, and a count.
LEMMA TokensCount ==
  ASSUME NEW log, IsFiniteSet(log), \A c \in log : c.tokens \in Nat
  PROVE  Tokens(log) \in Nat /\ (log = {} => Tokens(log) = 0)
<1> DEFINE Sums(f) == [s \in SUBSET log |->
                         IF s = {} THEN 0
                         ELSE LET x == CHOOSE y \in s : TRUE
                              IN x.tokens + f[s \ {x}]]
           sum == CHOOSE f : f = Sums(f)
           part == [c \in log |-> c.tokens]
           pick == [s \in (SUBSET log) \ {{}} |-> CHOOSE y \in s : TRUE]
<1>1. Tokens(log) = sum[log]
  BY DEF Tokens, MapThenSumSet, MapThenFoldSet
<1>2. part \in [log -> Nat] /\ pick \in [(SUBSET log) \ {{}} -> log]
  OBVIOUS
<1>8. \A s \in SUBSET log : s # {} => pick[s] \in s
  OBVIOUS
<1>3. PICK f : AreSubsetSums(f, log, part, pick)
  <2> HIDE DEF part, pick
  <2> QED
    BY <1>2, <1>8, SubsetSums
<1>4. f = Sums(f)
  <2>1. \A s \in SUBSET log : s # {} => pick[s] \in log /\ pick[s] = CHOOSE y \in s : TRUE
    OBVIOUS
  <2>2. ASSUME NEW s \in SUBSET log PROVE f[s] = Sums(f)[s]
    <3>1. f[s] = IF s = {} THEN 0 ELSE part[pick[s]] + f[s \ {pick[s]}]
      BY <1>3 DEF AreSubsetSums
    <3> QED
      BY <2>1, <3>1
  <2>3. f = [s \in SUBSET log |-> f[s]] /\ Sums(f) = [s \in SUBSET log |-> Sums(f)[s]]
    BY <1>3 DEF AreSubsetSums
  <2> HIDE DEF Sums
  <2> QED
    BY <2>2, <2>3
<1>5. sum = Sums(sum)
  <2> HIDE DEF Sums
  <2> QED
    BY <1>4
<1>6. sum[{}] = 0
  <2> HIDE DEF sum
  <2> QED  BY <1>5
<1> DEFINE Bad == {s \in SUBSET log : sum[s] \notin Nat}
<1>7. ASSUME Bad # {} PROVE FALSE
  <2> HIDE DEF sum
  <2>1. PICK T \in Bad : \A U \in Bad : U \subseteq T => U = T
    <3>1. Bad \subseteq SUBSET log
      OBVIOUS
    <3> HIDE DEF Bad
    <3> QED
      BY <1>7, <3>1, MinimalSet
  <2> DEFINE x == CHOOSE y \in T : TRUE
  <2>2. sum[T] = IF T = {} THEN 0 ELSE x.tokens + sum[T \ {x}]
    BY <1>5
  <2>3. T # {} => x \in T /\ T \ {x} # T /\ x.tokens \in Nat
    OBVIOUS
  <2>4. T # {} => T \ {x} \notin Bad
    <3> HIDE DEF Bad, x
    <3> QED
      BY <2>1, <2>3
  <2>5. T # {} => sum[T \ {x}] \in Nat
    BY <2>4
  <2> QED
    BY <2>2, <2>3, <2>5
<1> QED
  <2> HIDE DEF sum
  <2> QED
    BY <1>1, <1>6, <1>7

-----------------------------------------------------------------------------
(* What a step changes of what counts.                                      *)

LEMMA RequestSteps ==
  ASSUME IInv, NEW r \in Request, Step(r) \/ Crash(r)
  PROVE  /\ pc[r] # "done"
         /\ want' = want /\ day' = day
         /\ \A q : /\ CampaignOf(q)' = CampaignOf(q)
                   /\ Who(q)' = Who(q)
                   /\ OwnerOf(q)' = OwnerOf(q)
                   /\ PlanOf(q)' = PlanOf(q)
         /\ \A q \in Request \ {r} : /\ pc'[q] = pc[q]
                                     /\ tx'[q] = tx[q]
                                     /\ knew'[q] = knew[q]
         /\ \A q : Done(q) => Done(q)'
<1>1. pc[r] # "done"
  BY DEF Step, Crash, LookUp, Insert, Reread, SignedIn, Authenticate, MakeRoom, Find,
     DailyLimit, Ask, AskRefused, Answered, StarterFails, CallFails, Write, Delete, Goto
<1>2. want' = want /\ day' = day
  BY OthersStay, Writers DEF IInv
<1>3. \A q \in Request \ {r} : pc'[q] = pc[q] /\ tx'[q] = tx[q]
  BY OthersStay DEF IInv
<1>4. \A q \in Request \ {r} : knew'[q] = knew[q]
  <2>1. ASSUME NEW code, Rollback(r, code) 
        PROVE  \A q \in Request \ {r} : knew'[q] = knew[q]
    BY <2>1 DEF Rollback, IInv, TypeOK
  <2>2. ASSUME NEW thing, NEW uses, Knows(r, thing, uses)
        PROVE  \A q \in Request \ {r} : knew'[q] = knew[q]
    BY <2>2 DEF Knows, IInv, TypeOK
  <2>3. CASE LookUp(r) \/ Insert(r) \/ Reread(r) \/ SignedIn(r) \/ Authenticate(r)
    BY <2>1, <2>3 DEF LookUp, Insert, Reread, SignedIn, Authenticate
  <2>4. CASE MakeRoom(r) \/ Find(r) \/ DailyLimit(r) \/ Ask(r)
    BY <2>1, <2>2, <2>4 DEF MakeRoom, Find, DailyLimit, Ask
  <2>5. CASE Answered(r) \/ StarterFails(r) \/ Write(r) \/ Delete(r)
    BY <2>1, <2>5 DEF Answered, StarterFails, Write, Delete
  <2>6. CASE AskRefused(r) \/ CallFails(r) \/ Crash(r)
    BY <2>1, <2>6 DEF AskRefused, CallFails, Crash
  <2> QED  BY <2>3, <2>4, <2>5, <2>6 DEF Step
<1>5. \A q : Done(q) => Done(q)'
  BY <1>1, <1>3 DEF Done
<1> QED  BY <1>1, <1>2, <1>3, <1>4, <1>5 DEF CampaignOf, OwnerOf, Who, PlanOf

\* Only a request that ends with it adds to the tables.
LEMMA TablesGrow ==
  ASSUME IInv, NEW r \in Request, Step(r) \/ Crash(r)
  PROVE  /\ calls \subseteq calls'
         /\ \A c \in calls' : c \in calls \/ (c.by = r /\ Done(r)')
         /\ \A row \in rows' : row \in rows \/ (row.by = r /\ Done(r)')
         /\ \A c \in live' : c \in live \/ (c = r /\ Done(r)')
<1> DEFINE Grow == /\ calls \subseteq calls'
                   /\ \A c \in calls' : c \in calls \/ (c.by = r /\ Done(r)')
                   /\ \A row \in rows' : row \in rows \/ (row.by = r /\ Done(r)')
                   /\ \A c \in live' : c \in live \/ (c = r /\ Done(r)')
<1>1. Phase(r)
  BY DEF IInv, PhaseInv
<1>2. ASSUME NEW a, Answers(r, a) PROVE Done(r)'
  BY <1>2 DEF Answers, Done, IInv, TypeOK
<1>3. CASE Write(r)
  <2>1. \A row \in Written(r) : row.by = r
    BY <1>1 DEF Written, NewRow, Phase, TxFits
  <2>2. \A c \in tx[r].log : c.by = r
    BY <1>1 DEF Phase, TxFits
  <2> QED  BY <1>2, <1>3, <2>1, <2>2 DEF Write
<1>4. CASE StarterFails(r)
  <2>1. PICK tokens \in Counted : calls' = calls \cup Logged(r, tokens)
    BY <1>4 DEF StarterFails
  <2>2. \A c \in Logged(r, tokens) : c.by = r
    BY <1>1, <1>4, LoggedIsLog DEF StarterFails, IInv
  <2> QED  BY <1>2, <1>4, <2>1, <2>2 DEF StarterFails
<1>5. CASE Delete(r)
  <2>1. CASE Rollback(r, "error")
    BY <2>1 DEF Rollback, dbVars
  <2> QED  BY <1>5, <2>1 DEF Delete, Cascade
<1> QED  BY <1>3, <1>4, <1>5, Writers DEF IInv

\* Of what is not finished nobody else knew.
LEMMA OpenIsUnknown ==
  ASSUME KnewInv, NEW r \in Request, pc[r] # "done", NEW q \in Request \ {r},
         NEW thing \in Thing, NEW other
  PROVE  <<r, other>> \notin knew[q][thing]
BY AccountsAssumption DEF KnewInv, Done

-----------------------------------------------------------------------------
(* What was known.                                                          *)

LEMMA KnewStep ==
  ASSUME IInv, KnewInv, CommittedInv, NEW r \in Request, Step(r) \/ Crash(r)
  PROVE  KnewInv'
<1> DEFINE Fine(q, uses) == \A a \in uses : a[1] = q \/ a[1] \in Campaign \/ Done(a[1])
<1>1. ASSUME NEW q \in Request \ {r}, NEW thing \in Thing
      PROVE  Fine(q, knew'[q][thing])
  BY RequestSteps DEF KnewInv
<1>2. \A thing \in Thing : Fine(r, knew'[r][thing])
  <2>1. CASE knew'[r] = knew[r]
    BY <2>1 DEF KnewInv
  <2>2. ASSUME NEW code, Rollback(r, code) PROVE \A thing \in Thing : Fine(r, knew'[r][thing])
    BY <2>2 DEF Rollback, IInv, TypeOK, NothingUsed
  <2>3. ASSUME NEW of \in Thing, NEW uses, Knows(r, of, uses), Fine(r, uses)
        PROVE  \A thing \in Thing : Fine(r, knew'[r][thing])
    <3>1. \A thing \in Thing : knew'[r][thing] = IF thing = of THEN uses ELSE knew[r][thing]
      BY <2>3 DEF Knows, IInv, TypeOK
    <3> QED  BY <2>3, <3>1 DEF KnewInv
  <2>4. CASE LookUp(r) \/ Insert(r) \/ Reread(r) \/ SignedIn(r) \/ Authenticate(r)
    BY <2>1, <2>2, <2>4 DEF LookUp, Insert, Reread, SignedIn, Authenticate
  <2>5. CASE MakeRoom(r)
    <3>1. Fine(r, {<<c, "campaign">> : c \in live})
      BY DEF CommittedInv, IInv, TypeOK, CampaignId
    <3> QED  BY <2>2, <2>3, <2>5, <3>1 DEF MakeRoom, Thing
  <2>6. CASE Find(r) \/ DailyLimit(r)
    <3>1. \A thing : Fine(r, {<<row.by, thing>> : row \in rows})
      BY DEF CommittedInv
    <3> QED  BY <2>2, <2>3, <2>6, <3>1 DEF Find, DailyLimit, Thing
  <2>7. CASE Ask(r)
    <3>1. Fine(r, {<<c.by, c.call>> : c \in calls \cup tx[r].log})
      BY DEF CommittedInv, IInv, PhaseInv, Phase, TxFits
    <3>2. NextCall(r) \in Thing
      BY <2>7, NextCallIsCall DEF Ask, Goto, IInv, PhaseInv, Thing
    <3> QED  BY <2>3, <2>7, <3>1, <3>2 DEF Ask
  <2>8. CASE Answered(r) \/ StarterFails(r) \/ Write(r) \/ Delete(r)
    BY <2>1, <2>2, <2>8 DEF Answered, StarterFails, Write, Delete
  <2>9. CASE AskRefused(r) \/ CallFails(r) \/ Crash(r)
    BY <2>2, <2>9 DEF AskRefused, CallFails, Crash
  <2> QED  BY <2>4, <2>5, <2>6, <2>7, <2>8, <2>9 DEF Step
<1>3. \A q : Done(q) => Done(q)'
  BY RequestSteps
<1>4. \A q \in Request, thing \in Thing : Fine(q, knew'[q][thing])
  BY <1>1, <1>2
<1> HIDE DEF Done
<1> QED  BY <1>3, <1>4 DEF KnewInv
-----------------------------------------------------------------------------
(* The calls of a request.                                                  *)

LEMMA Plans ==
  ASSUME NEW r
  PROVE  /\ \A i \in 1 .. 3 : PlanOf(r)[i] \in Call /\ PlanOf(r)[i] \in Thing
         /\ \A i, k \in 1 .. 3 : PlanOf(r)[i] = PlanOf(r)[k] => i = k
BY DEF PlanOf, Plan, Call, Thing

\* A call that was answered is recorded, and its record changes nothing of
\* what the calls so far knew.
LEMMA LoggedIsBudgeted ==
  ASSUME IInv, CallsInv, NEW r \in Request, pc[r] = "asked", NEW tokens \in Counted
  PROVE  /\ Budgeted(r, Logged(r, tokens), Made(r) + 1)
         /\ Made(r) \in 0 .. 2
         /\ Cardinality(Logged(r, tokens)) = Made(r) + 1
         /\ \E c \in Logged(r, tokens) : c.call = PlanOf(r)[Made(r) + 1]
         /\ tx[r].log \subseteq Logged(r, tokens)
         /\ \A c \in Logged(r, tokens) : c \in tx[r].log \/ c.on = day
<1> DEFINE log == tx[r].log
           n == Made(r) + 1
           new == [by |-> r, call |-> NextCall(r), on |-> day, tokens |-> tokens]
<1>1. Made(r) \in 0 .. 2 /\ IsFiniteSet(log) /\ n \in 1 .. 3
  BY DEF IInv, PhaseInv, Phase, TxFits, Made
<1>2. Logged(r, tokens) = log \cup {new}
  BY DEF Logged
<1>3. new.by = r /\ new.call = PlanOf(r)[n] /\ new.on = day
  BY DEF NextCall, PlanOf
<1>4. /\ Budgeted(r, log, n)
      /\ \A c \in log : \E k \in 1 .. Made(r) : c.call = PlanOf(r)[k]
  BY DEF CallsInv, Working, Reached
<1> HIDE DEF new, log
<1>5. \A c \in log : c.call # new.call
  BY <1>1, <1>3, <1>4, Plans
<1>6. new \notin log /\ Cardinality(log \cup {new}) = n
  BY <1>1, <1>5, FS_AddElement DEF Made, log
<1>7. /\ \A c \in log \cup {new} : \E i \in 1 .. n : c.call = PlanOf(r)[i]
      /\ \A c, d \in log \cup {new} : c.call = d.call => c = d
  BY <1>1, <1>3, <1>4, <1>5 DEF Budgeted
<1>8. ASSUME NEW i \in 1 .. n
      PROVE  KnewCalls(r, PlanOf(r)[i], log \cup {new}) = KnewCalls(r, PlanOf(r)[i], log)
  <2>1. <<new.by, new.call>> \notin knew[r][PlanOf(r)[i]]
    BY <1>1, <1>3, <1>4 DEF Budgeted, InOrder
  <2> QED  BY <2>1 DEF KnewCalls, Today
<1>9. Budgeted(r, log \cup {new}, n)
  BY <1>4, <1>7, <1>8 DEF Budgeted
<1> QED  BY <1>1, <1>2, <1>3, <1>6, <1>9 DEF log

\* What a request commits as its calls.
Records(r, log) == /\ IsFiniteSet(log) /\ log \subseteq CallRow
                   /\ \A c \in log : c.by = r /\ c.on <= day
                   /\ \E n \in 0 .. 3 : Budgeted(r, log, n)

LEMMA CommitRecords ==
  ASSUME IInv, OpenInv, CallsInv, NEW r \in Request, Write(r) \/ StarterFails(r)
  PROVE  \E log : Records(r, log) /\ calls' = calls \cup log
<1>1. Phase(r)
  BY DEF IInv, PhaseInv
<1>2. CASE Write(r)
  <2>1. Made(r) \in 0 .. 3 /\ Budgeted(r, tx[r].log, Made(r))
    BY <1>2 DEF Write, CallsInv, Working, Reached
  <2>2. tx[r].log \subseteq CallRow /\ IsFiniteSet(tx[r].log) /\ \A c \in tx[r].log : c.by = r
    BY <1>1 DEF Phase, TxFits, IInv, TypeOK, Tx
  <2>3. Records(r, tx[r].log)
    BY <2>1, <2>2 DEF Records, OpenInv
  <2> QED  BY <1>2, <2>3 DEF Write
<1>3. CASE StarterFails(r)
  <2>1. PICK tokens \in Counted : calls' = calls \cup Logged(r, tokens)
    BY <1>3 DEF StarterFails
  <2>2. pc[r] = "asked"
    BY <1>3 DEF StarterFails
  <2>3. /\ Budgeted(r, Logged(r, tokens), Made(r) + 1)
        /\ Made(r) + 1 \in 0 .. 3
        /\ \A c \in Logged(r, tokens) : c \in tx[r].log \/ c.on = day
    BY <2>2, LoggedIsBudgeted
  <2>4. /\ Logged(r, tokens) \subseteq CallRow /\ IsFiniteSet(Logged(r, tokens))
        /\ \A c \in Logged(r, tokens) : c.by = r
    BY <1>1, <2>2, LoggedIsLog DEF IInv
  <2>5. day \in Nat
    BY DEF IInv, TypeOK, Days
  <2>6. Records(r, Logged(r, tokens))
    BY <2>3, <2>4, <2>5 DEF Records, OpenInv
  <2> QED  BY <2>1, <2>6
<1> QED  BY <1>2, <1>3

-----------------------------------------------------------------------------
(* What is committed and what is open.                                      *)

LEMMA CommittedStep ==
  ASSUME IInv, OpenInv, CallsInv, CommittedInv, NEW r \in Request, Step(r) \/ Crash(r)
  PROVE  CommittedInv'
<1>1. /\ pc[r] # "done" /\ day' = day
      /\ \A q : Done(q) => Done(q)'
  BY RequestSteps
<1>2. /\ \A c \in calls' : c \in calls \/ (c.by = r /\ Done(r)')
      /\ \A row \in rows' : row \in rows \/ (row.by = r /\ Done(r)')
      /\ \A c \in live' : c \in live \/ (c = r /\ Done(r)')
  BY TablesGrow
<1>3. day \in Nat
  BY DEF IInv, TypeOK, Days
<1>4. IsFiniteSet(live')
  <2>1. live' \subseteq live \cup {r} /\ IsFiniteSet(live \cup {r})
    BY <1>2, FS_AddElement DEF CommittedInv
  <2> QED  BY <2>1, FS_Subset
<1>5. IsFiniteSet(rows') /\ \A row \in rows' : row \in rows \/ row.on <= day
  <2>1. CASE Write(r)
    <3>1. IsFiniteSet(tx[r].rows)
      <4>1. PICK row : tx[r].rows \subseteq {row}
        BY DEF OpenInv
      <4>2. IsFiniteSet({row})
        BY FS_Singleton
      <4> QED  BY <4>1, <4>2, FS_Subset
    <3>2. IsFiniteSet({NewRow(r, "assistant"), NewRow(r, "event")})
      <4>1. IsFiniteSet({NewRow(r, "assistant")})
        BY FS_Singleton
      <4>2. IsFiniteSet({NewRow(r, "assistant")} \cup {NewRow(r, "event")})
        BY <4>1, FS_AddElement
      <4>3. {NewRow(r, "assistant")} \cup {NewRow(r, "event")}
              = {NewRow(r, "assistant"), NewRow(r, "event")}
        OBVIOUS
      <4> QED  BY <4>2, <4>3
    <3>3. rows' = rows \cup Written(r) /\ IsFiniteSet(Written(r))
      BY <2>1, <3>1, <3>2, FS_Union DEF Write, Written
    <3>4. \A row \in Written(r) : row.on <= day
      BY <1>3 DEF Written, NewRow, OpenInv
    <3> QED  BY <3>3, <3>4, FS_Union DEF CommittedInv
  <2>2. CASE ~Write(r)
    <3>1. rows' \subseteq rows
      BY <2>2, Writers DEF Delete, Cascade, Rollback, dbVars, IInv
    <3> QED  BY <3>1, FS_Subset DEF CommittedInv
  <2> QED  BY <2>1, <2>2
<1>6. /\ IsFiniteSet(calls')
      /\ \A c \in calls' : c.on <= day
      /\ \A c, d \in calls' : c.by = d.by /\ c.call = d.call => c = d
  <2>1. CASE calls' = calls
    BY <2>1 DEF CommittedInv
  <2>2. CASE calls' # calls
    <3>1. PICK log : Records(r, log) /\ calls' = calls \cup log
      BY <2>2, CommitRecords, Writers DEF IInv
    <3>2. \A c \in calls : c.by # r /\ c.on <= day
      BY <1>1 DEF CommittedInv, Done
    <3>3. \A c \in log : c.by = r /\ c.on <= day
      BY <3>1 DEF Records
    <3>4. \A c, d \in log : c.call = d.call => c = d
      BY <3>1 DEF Records, Budgeted
    <3>5. IsFiniteSet(calls \cup log)
      BY <3>1, FS_Union DEF Records, CommittedInv
    <3> QED  BY <3>1, <3>2, <3>3, <3>4, <3>5 DEF CommittedInv
  <2> QED  BY <2>1, <2>2
<1> HIDE DEF Done
<1>7. \A row \in rows' : Done(row.by)' /\ row.on <= day'
  BY <1>1, <1>2, <1>5 DEF CommittedInv
<1>8. \A c \in calls' : Done(c.by)' /\ c.on <= day'
  BY <1>1, <1>2, <1>6 DEF CommittedInv
<1>9. \A q \in live' \cap Request : Done(q)'
  BY <1>1, <1>2 DEF CommittedInv
<1> QED  BY <1>4, <1>5, <1>6, <1>7, <1>8, <1>9 DEF CommittedInv

LEMMA OpenStep ==
  ASSUME IInv, OpenInv, NEW r \in Request, Step(r) \/ Crash(r)
  PROVE  OpenInv'
<1> DEFINE Opened(q) == /\ \A c \in tx'[q].log : c.on <= day
                        /\ \A row \in tx'[q].rows : row.on <= day /\ row.is = "user"
                        /\ \A row, other \in tx'[q].rows : row = other
<1>1. \A q \in Request \ {r} : Opened(q)
  BY RequestSteps DEF OpenInv
<1>2. Opened(r)
  <2>1. ASSUME NEW a, Answers(r, a) PROVE Opened(r)
    BY <2>1 DEF Answers, IInv, TypeOK, NoTx
  <2>2. CASE tx' = tx
    BY <2>2 DEF OpenInv
  <2>3. CASE Insert(r)
    <3>1. tx'[r].log = tx[r].log /\ tx'[r].rows = tx[r].rows
      BY <2>3 DEF Insert, IInv, TypeOK, Tx
    <3> QED  BY <3>1 DEF OpenInv
  <2>4. CASE Ask(r)
    <3>1. day \in Nat
      BY DEF IInv, TypeOK, Days
    <3>2. /\ tx'[r].log = tx[r].log
          /\ tx'[r].rows = IF Opens(r) THEN {NewRow(r, "user")} ELSE tx[r].rows
      BY <2>4 DEF Ask, IInv, TypeOK, Tx
    <3> QED  BY <3>1, <3>2 DEF OpenInv, NewRow
  <2>5. CASE Answered(r)
    <3>1. PICK tokens \in Counted : tx' = [tx EXCEPT ![r].log = Logged(r, tokens)]
      BY <2>5 DEF Answered
    <3>2. tx'[r].log = Logged(r, tokens) /\ tx'[r].rows = tx[r].rows
      BY <3>1 DEF IInv, TypeOK, Tx
    <3>3. day \in Nat
      BY DEF IInv, TypeOK, Days
    <3> QED  BY <3>2, <3>3 DEF Logged, OpenInv
  <2>6. ASSUME NEW code, Rollback(r, code) PROVE Opened(r)
    BY <2>1, <2>6 DEF Rollback
  <2>7. CASE LookUp(r) \/ Reread(r) \/ SignedIn(r) \/ Authenticate(r)
    BY <2>1, <2>2, <2>6, <2>7 DEF LookUp, Reread, SignedIn, Authenticate
  <2>8. CASE MakeRoom(r) \/ Find(r) \/ DailyLimit(r)
    BY <2>2, <2>6, <2>8 DEF MakeRoom, Find, DailyLimit
  <2>9. CASE StarterFails(r) \/ Write(r) \/ Delete(r)
    BY <2>1, <2>6, <2>9 DEF StarterFails, Write, Delete
  <2>10. CASE AskRefused(r) \/ CallFails(r) \/ Crash(r)
    BY <2>6, <2>10 DEF AskRefused, CallFails, Crash
  <2> QED  BY <2>3, <2>4, <2>5, <2>7, <2>8, <2>9, <2>10 DEF Step
<1>3. day' = day
  BY RequestSteps
<1> QED  BY <1>1, <1>2, <1>3 DEF OpenInv

-----------------------------------------------------------------------------
(* The room a check left.                                                   *)

LEMMA PartOfFew ==
  ASSUME NEW all, IsFiniteSet(all), NEW some \in SUBSET all
  PROVE  /\ IsFiniteSet(some) /\ Cardinality(some) \in Nat /\ Cardinality(all) \in Nat
         /\ Cardinality(some) <= Cardinality(all)
BY FS_Subset, FS_CardinalityType

LEMMA LimitsAreNumbers ==
  /\ MaxCampaigns \in Nat /\ MaxTurns \in Nat /\ MaxRequests \in Nat
  /\ MaxTokens \in Nat /\ MaxProjectRequests \in Nat /\ MaxProjectTokens \in Nat
  /\ Pending \in Nat
BY AccountsAssumption

\* What another request adds an open one knew nothing of.
LEMMA RoomOfOthers ==
  ASSUME IInv, KnewInv, CommittedInv, RoomInv, NEW r \in Request, Step(r) \/ Crash(r),
         NEW q \in Request \ {r}
  PROVE  CampaignRoom(q)' /\ ExchangeRoom(q)' /\ TurnRoom(q)'
<1>1. /\ pc[r] # "done" /\ want' = want /\ day' = day
      /\ pc'[q] = pc[q] /\ knew'[q] = knew[q]
  BY RequestSteps
<1>2. \A p : /\ CampaignOf(p)' = CampaignOf(p)
             /\ Who(p)' = Who(p)
             /\ OwnerOf(p)' = OwnerOf(p)
  BY RequestSteps
<1>3. \A thing \in Thing : \A other : <<r, other>> \notin knew[q][thing]
  BY <1>1, OpenIsUnknown
<1>4. /\ \A row \in rows' : row \in rows \/ row.by = r
      /\ \A c \in live' : c \in live \/ c = r
  BY TablesGrow
<1>5. CampaignRoom(q)'
  <2> SUFFICES ASSUME want[q].kind = "create", pc[q] \in Working PROVE CampaignRoom(q)'
    BY <1>1 DEF CampaignRoom
  <2>1. /\ Cardinality(KnewCampaigns(q)) < MaxCampaigns
        /\ \A c \in live \cap Campaign : <<c, "campaign">> \in knew[q]["campaign"]
    BY DEF RoomInv, CampaignRoom
  <2>2. KnewCampaigns(q)' \subseteq KnewCampaigns(q)
    BY <1>1, <1>2, <1>3, <1>4 DEF KnewCampaigns, Owned, Thing
  <2>3. IsFiniteSet(KnewCampaigns(q))
    BY FS_Subset DEF KnewCampaigns, Owned, CommittedInv
  <2>4. Cardinality(KnewCampaigns(q)') < MaxCampaigns
    BY <2>1, <2>2, <2>3, PartOfFew, LimitsAreNumbers
  <2>5. \A c \in live' \cap Campaign : <<c, "campaign">> \in knew'[q]["campaign"]
    <3>1. r \notin Campaign
      BY AccountsAssumption
    <3> QED  BY <1>1, <1>4, <2>1, <3>1
  <2> QED  BY <2>4, <2>5 DEF CampaignRoom
<1>6. ExchangeRoom(q)'
  <2> DEFINE known == KnewOf(q, "exchange", UserTurns(CampaignOf(q)))
  <2> SUFFICES ASSUME want[q].kind = "play", pc[q] \in Working \cup {"quota"}
               PROVE  ExchangeRoom(q)'
    BY <1>1 DEF ExchangeRoom
  <2>1. Cardinality(known) < MaxTurns
    BY DEF RoomInv, ExchangeRoom
  <2>2. known' \subseteq known
    BY <1>1, <1>2, <1>3, <1>4 DEF KnewOf, UserTurns, Thing
  <2>3. IsFiniteSet(known)
    BY FS_Subset DEF KnewOf, UserTurns, CommittedInv
  <2>4. Cardinality(known') < MaxTurns
    <3> HIDE DEF known
    <3> QED  BY <2>1, <2>2, <2>3, PartOfFew, LimitsAreNumbers
  <2> QED  BY <2>4 DEF ExchangeRoom
<1>7. TurnRoom(q)'
  <2> DEFINE known == KnewOf(q, "turn", TurnsToday(Who(q)))
  <2> SUFFICES ASSUME want[q].kind = "play", pc[q] \in Working PROVE TurnRoom(q)'
    BY <1>1 DEF TurnRoom
  <2>1. Cardinality(known) < MaxRequests
    BY DEF RoomInv, TurnRoom
  <2>2. \A row \in rows : CampaignOf(row.by) \in live
    BY DEF IInv, RowsInv, RowsWhole
  <2>3. known' \subseteq known
    BY <1>1, <1>2, <1>3, <1>4, <2>2 DEF KnewOf, TurnsToday, Thing
  <2>4. IsFiniteSet(known)
    BY FS_Subset DEF KnewOf, TurnsToday, CommittedInv
  <2>5. Cardinality(known') < MaxRequests
    <3> HIDE DEF known
    <3> QED  BY <2>1, <2>3, <2>4, PartOfFew, LimitsAreNumbers
  <2> QED  BY <2>5 DEF TurnRoom
<1> QED  BY <1>5, <1>6, <1>7

\* Where a request is after a step that does not end or refuse it.
LEMMA OwnStep ==
  ASSUME IInv, NEW r \in Request, Step(r) \/ Crash(r),
         pc'[r] \in Working \cup {"quota"}
  PROVE  /\ live' = live /\ rows' = rows /\ calls' = calls
         /\ \/ /\ MakeRoom(r) /\ pc'[r] = "check" /\ want[r].kind = "create"
               /\ Cardinality(Owned(Who(r))) < MaxCampaigns
               /\ Knows(r, "campaign", {<<c, "campaign">> : c \in live})
            \/ /\ Find(r) /\ pc'[r] = "quota" /\ want[r].kind = "play"
               /\ TurnsLeft(CampaignOf(r))
               /\ Knows(r, "exchange", {<<row.by, "exchange">> : row \in rows})
            \/ /\ DailyLimit(r) /\ pc[r] = "quota" /\ pc'[r] = "check"
               /\ want[r].kind = "play"
               /\ Cardinality(TurnsToday(Who(r))) < MaxRequests
               /\ Knows(r, "turn", {<<row.by, "turn">> : row \in rows})
            \/ Ask(r) /\ pc[r] = "check" /\ pc'[r] = "asked"
            \/ Answered(r) /\ pc[r] = "asked" /\ pc'[r] \in {"check", "write"}
<1> USE DEF Working
<1>0. Phase(r)
  BY DEF IInv, PhaseInv
<1>1. ASSUME NEW a, Answers(r, a) PROVE FALSE
  BY <1>1 DEF Answers, IInv, TypeOK
<1>2. ASSUME NEW code, Rollback(r, code) PROVE FALSE
  BY <1>1, <1>2 DEF Rollback
<1>3. ~(LookUp(r) \/ Insert(r) \/ Reread(r) \/ SignedIn(r))
  BY <1>1, <1>2 DEF LookUp, Insert, Reread, SignedIn, Goto, IInv, TypeOK
<1>4. ~Authenticate(r)
  <2> SUFFICES ASSUME Authenticate(r) PROVE FALSE
    OBVIOUS
  <2>1. pc'[r] = First(want[r].kind) /\ pc[r] = "auth"
    BY <1>2 DEF Authenticate, Goto, IInv, TypeOK
  <2>2. want[r].kind \in {"create", "play", "delete"}
    BY <1>0, <2>1, Wishes DEF Phase, KindFits, AtLogin, Kind, IInv, TypeOK
  <2>3. First(want[r].kind) \in {"room", "find", "delete"}
    BY <2>2 DEF First
  <2> QED  BY <2>1, <2>3
<1>5. ~(StarterFails(r) \/ Write(r) \/ Delete(r))
  BY <1>1, <1>2 DEF StarterFails, Write, Delete
<1>6. ~(AskRefused(r) \/ CallFails(r) \/ Crash(r))
  BY <1>2 DEF AskRefused, CallFails, Crash
<1>7. live' = live /\ rows' = rows /\ calls' = calls
  BY <1>5, Writers DEF IInv
<1>8. ASSUME NEW from, NEW to, Goto(r, from, to) PROVE pc[r] = from /\ pc'[r] = to
  BY <1>8 DEF Goto, IInv, TypeOK
<1>9. CASE MakeRoom(r)
  BY <1>0, <1>2, <1>7, <1>8, <1>9 DEF MakeRoom, Phase, KindFits
<1>10. CASE Find(r)
  BY <1>0, <1>2, <1>7, <1>8, <1>10 DEF Find, Phase, KindFits
<1>11. CASE DailyLimit(r)
  BY <1>0, <1>2, <1>7, <1>8, <1>11 DEF DailyLimit, Phase, KindFits
<1>12. CASE Ask(r)
  BY <1>7, <1>8, <1>12 DEF Ask
<1>13. CASE Answered(r)
  BY <1>7, <1>13 DEF Answered, IInv, TypeOK
<1> QED  BY <1>3, <1>4, <1>5, <1>6, <1>9, <1>10, <1>11, <1>12, <1>13 DEF Step

\* What a check knew when it passed is all there was.
LEMMA RoomOfOwn ==
  ASSUME IInv, RoomInv, NEW r \in Request, Step(r) \/ Crash(r)
  PROVE  CampaignRoom(r)' /\ ExchangeRoom(r)' /\ TurnRoom(r)'
<1> SUFFICES ASSUME pc'[r] \in Working \cup {"quota"}
             PROVE  CampaignRoom(r)' /\ ExchangeRoom(r)' /\ TurnRoom(r)'
  BY DEF CampaignRoom, ExchangeRoom, TurnRoom
<1>1. /\ live' = live /\ rows' = rows /\ want' = want /\ day' = day
      /\ \A p : /\ CampaignOf(p)' = CampaignOf(p)
                /\ Who(p)' = Who(p)
                /\ OwnerOf(p)' = OwnerOf(p)
  BY OwnStep, RequestSteps
<1>2. ASSUME NEW thing \in Thing, NEW uses, Knows(r, thing, uses)
      PROVE  \A other \in Thing :
               knew'[r][other] = IF other = thing THEN uses ELSE knew[r][other]
  BY <1>2 DEF Knows, IInv, TypeOK
<1>3. /\ {"campaign", "exchange", "turn"} \subseteq Thing
      /\ \A thing \in Call : thing \in Thing /\ thing \notin {"campaign", "exchange", "turn"}
  BY DEF Thing, Call
<1>4. CASE /\ MakeRoom(r) /\ pc'[r] = "check" /\ want[r].kind = "create"
           /\ Cardinality(Owned(Who(r))) < MaxCampaigns
           /\ Knows(r, "campaign", {<<c, "campaign">> : c \in live})
  <2>1. knew'[r]["campaign"] = {<<c, "campaign">> : c \in live}
    BY <1>2, <1>3, <1>4
  <2>2. KnewCampaigns(r)' = Owned(Who(r))
    BY <1>1, <2>1 DEF KnewCampaigns, Owned
  <2> QED  BY <1>1, <1>4, <2>1, <2>2 DEF CampaignRoom, ExchangeRoom, TurnRoom
<1>5. CASE /\ Find(r) /\ pc'[r] = "quota" /\ want[r].kind = "play"
           /\ TurnsLeft(CampaignOf(r))
           /\ Knows(r, "exchange", {<<row.by, "exchange">> : row \in rows})
  <2>1. knew'[r]["exchange"] = {<<row.by, "exchange">> : row \in rows}
    BY <1>2, <1>3, <1>5
  <2>2. KnewOf(r, "exchange", UserTurns(CampaignOf(r)))' = UserTurns(CampaignOf(r))
    BY <1>1, <2>1 DEF KnewOf, UserTurns
  <2>3. Cardinality(KnewOf(r, "exchange", UserTurns(CampaignOf(r)))') < MaxTurns
    BY <1>5, <2>2 DEF TurnsLeft
  <2>4. ExchangeRoom(r)'
    BY <2>3 DEF ExchangeRoom
  <2> QED  BY <1>1, <1>5, <2>4 DEF CampaignRoom, TurnRoom, Working
<1>6. CASE /\ DailyLimit(r) /\ pc[r] = "quota" /\ pc'[r] = "check"
           /\ want[r].kind = "play"
           /\ Cardinality(TurnsToday(Who(r))) < MaxRequests
           /\ Knows(r, "turn", {<<row.by, "turn">> : row \in rows})
  <2>1. /\ knew'[r]["turn"] = {<<row.by, "turn">> : row \in rows}
        /\ knew'[r]["exchange"] = knew[r]["exchange"]
    BY <1>2, <1>3, <1>6
  <2>2. KnewOf(r, "turn", TurnsToday(Who(r)))' = TurnsToday(Who(r))
    BY <1>1, <2>1 DEF KnewOf, TurnsToday
  <2>3. TurnRoom(r)'
    <3>1. Cardinality(KnewOf(r, "turn", TurnsToday(Who(r)))') < MaxRequests
      BY <1>6, <2>2
    <3> QED  BY <3>1 DEF TurnRoom
  <2>4. KnewOf(r, "exchange", UserTurns(CampaignOf(r)))'
          = KnewOf(r, "exchange", UserTurns(CampaignOf(r)))
    BY <1>1, <2>1 DEF KnewOf, UserTurns
  <2>5. ExchangeRoom(r)'
    <3>1. Cardinality(KnewOf(r, "exchange", UserTurns(CampaignOf(r)))') < MaxTurns
      BY <1>6, <2>4 DEF RoomInv, ExchangeRoom
    <3> QED  BY <3>1 DEF ExchangeRoom
  <2> QED  BY <1>1, <1>6, <2>3, <2>5 DEF CampaignRoom
<1>7. CASE (Ask(r) \/ Answered(r)) /\ pc[r] \in Working /\ pc'[r] \in Working
  <2>1. /\ knew'[r]["campaign"] = knew[r]["campaign"]
        /\ knew'[r]["exchange"] = knew[r]["exchange"]
        /\ knew'[r]["turn"] = knew[r]["turn"]
    <3>1. CASE Answered(r)
      BY <3>1 DEF Answered
    <3>2. CASE Ask(r)
      <4>1. NextCall(r) \in Call
        BY <3>2, NextCallIsCall DEF Ask, Goto, IInv, PhaseInv
      <4> QED  BY <1>2, <1>3, <3>2, <4>1 DEF Ask
    <3> QED  BY <1>7, <3>1, <3>2
  <2>2. /\ KnewCampaigns(r)' = KnewCampaigns(r)
        /\ KnewOf(r, "exchange", UserTurns(CampaignOf(r)))'
             = KnewOf(r, "exchange", UserTurns(CampaignOf(r)))
        /\ KnewOf(r, "turn", TurnsToday(Who(r)))' = KnewOf(r, "turn", TurnsToday(Who(r)))
    BY <1>1, <2>1 DEF KnewCampaigns, Owned, KnewOf, UserTurns, TurnsToday
  <2>3. CampaignRoom(r) /\ ExchangeRoom(r) /\ TurnRoom(r)
    BY DEF RoomInv
  <2>4. CampaignRoom(r)'
    BY <1>1, <1>7, <2>1, <2>2, <2>3 DEF CampaignRoom
  <2>5. ExchangeRoom(r)'
    <3>1. want[r].kind = "play" =>
            Cardinality(KnewOf(r, "exchange", UserTurns(CampaignOf(r)))') < MaxTurns
      BY <1>7, <2>2, <2>3 DEF ExchangeRoom
    <3> QED  BY <1>1, <3>1 DEF ExchangeRoom
  <2>6. TurnRoom(r)'
    <3>1. want[r].kind = "play" =>
            Cardinality(KnewOf(r, "turn", TurnsToday(Who(r)))') < MaxRequests
      BY <1>7, <2>2, <2>3 DEF TurnRoom
    <3> QED  BY <1>1, <3>1 DEF TurnRoom
  <2> QED  BY <2>4, <2>5, <2>6
<1> QED  BY <1>4, <1>5, <1>6, <1>7, OwnStep DEF Working

LEMMA RoomStep ==
  ASSUME IInv, KnewInv, CommittedInv, RoomInv, NEW r \in Request, Step(r) \/ Crash(r)
  PROVE  RoomInv'
<1>1. \A q \in Request \ {r} : CampaignRoom(q)' /\ ExchangeRoom(q)' /\ TurnRoom(q)'
  BY RoomOfOthers
<1>2. CampaignRoom(r)' /\ ExchangeRoom(r)' /\ TurnRoom(r)'
  BY RoomOfOwn
<1> QED  BY <1>1, <1>2 DEF RoomInv

\* At midnight the turns of the day are gone.
LEMMA RoomMidnight ==
  ASSUME IInv, CommittedInv, RoomInv, Midnight
  PROVE  RoomInv'
<1>1. /\ want' = want /\ pc' = pc /\ knew' = knew /\ live' = live /\ rows' = rows
      /\ day' = day + 1 /\ day \in Nat
  BY DEF Midnight, dbVars, IInv, TypeOK, Days
<1>2. \A p : /\ CampaignOf(p)' = CampaignOf(p)
             /\ Who(p)' = Who(p)
             /\ OwnerOf(p)' = OwnerOf(p)
  BY <1>1 DEF CampaignOf, Who, OwnerOf
<1>3. \A row \in rows : row.on # day + 1
  BY <1>1 DEF CommittedInv, IInv, TypeOK, Row, Days
<1> SUFFICES ASSUME NEW r \in Request
             PROVE  CampaignRoom(r)' /\ ExchangeRoom(r)' /\ TurnRoom(r)'
  BY DEF RoomInv
<1>4. CampaignRoom(r) /\ ExchangeRoom(r) /\ TurnRoom(r)
  BY DEF RoomInv
<1>5. CampaignRoom(r)'
  <2>1. KnewCampaigns(r)' = KnewCampaigns(r)
    BY <1>1, <1>2 DEF KnewCampaigns, Owned
  <2> QED  BY <1>1, <1>4, <2>1 DEF CampaignRoom
<1>6. ExchangeRoom(r)'
  <2>1. KnewOf(r, "exchange", UserTurns(CampaignOf(r)))'
          = KnewOf(r, "exchange", UserTurns(CampaignOf(r)))
    BY <1>1, <1>2 DEF KnewOf, UserTurns
  <2>2. want[r].kind = "play" /\ pc[r] \in Working \cup {"quota"} =>
          Cardinality(KnewOf(r, "exchange", UserTurns(CampaignOf(r)))') < MaxTurns
    BY <1>4, <2>1 DEF ExchangeRoom
  <2> QED  BY <1>1, <2>2 DEF ExchangeRoom
<1>7. TurnRoom(r)'
  <2> DEFINE known == KnewOf(r, "turn", TurnsToday(Who(r)))
  <2>1. known' = {}
    BY <1>1, <1>3 DEF KnewOf, TurnsToday
  <2>2. IsFiniteSet(known)
    BY FS_Subset DEF KnewOf, TurnsToday, CommittedInv
  <2>3. want[r].kind = "play" /\ pc[r] \in Working => Cardinality(known) < MaxRequests
    BY <1>4 DEF TurnRoom
  <2>4. want[r].kind = "play" /\ pc[r] \in Working => Cardinality(known') < MaxRequests
    <3> HIDE DEF known
    <3>1. Cardinality(known) \in Nat /\ Cardinality({}) = 0
      BY <2>2, FS_CardinalityType, FS_EmptySet
    <3> QED  BY <2>1, <2>3, <3>1, LimitsAreNumbers
  <2> QED  BY <1>1, <2>4 DEF TurnRoom
<1> QED  BY <1>5, <1>6, <1>7

-----------------------------------------------------------------------------
(* What the calls of open requests knew of the others.                      *)

LEMMA ReachedIsInPlan ==
  ASSUME IInv, CallsInv, NEW r \in Request, pc[r] \in Working
  PROVE  Reached(r) \in 0 .. 3 /\ Made(r) \in 0 .. 3
BY DEF CallsInv, Reached, Made, IInv, PhaseInv, Phase, TxFits

LEMMA AffordableStays ==
  ASSUME want' = want, NEW u, NEW log, Affordable(u, log)
  PROVE  Affordable(u, log)'
<1>1. Of(u, log)' = Of(u, log)
  BY DEF Of, Who
<1>2. Tokens(log)' = Tokens(log) /\ Tokens(Of(u, log))' = Tokens(Of(u, log))
  BY <1>1 DEF Tokens, MapThenSumSet, MapThenFoldSet
<1> QED  BY <1>2 DEF Affordable

LEMMA BudgetStays ==
  ASSUME NEW r, NEW log, NEW n \in 0 .. 3, Budgeted(r, log, n),
         want' = want, knew'[r] = knew[r],
         \A i \in 1 .. n : KnewCalls(r, PlanOf(r)[i], log)' = KnewCalls(r, PlanOf(r)[i], log)
  PROVE  Budgeted(r, log, n)'
<1>1. PlanOf(r)' = PlanOf(r) /\ Who(r)' = Who(r)
  BY DEF PlanOf, Who
<1>2. InOrder(r, n)'
  BY <1>1 DEF Budgeted, InOrder
<1>3. ASSUME NEW i \in 1 .. n
      PROVE  Affordable(Who(r), KnewCalls(r, PlanOf(r)[i], log))'
  <2> DEFINE known == KnewCalls(r, PlanOf(r)[i], log)
  <2>1. Affordable(Who(r), known)
    BY DEF Budgeted
  <2>2. known' = known
    BY <1>1
  <2>3. \A u, some : Affordable(u, some) => Affordable(u, some)'
    BY AffordableStays
  <2> QED  BY <1>1, <2>1, <2>2, <2>3
<1> QED  BY <1>1, <1>2, <1>3 DEF Budgeted

\* Calls that others record were unknown to those of an open request.
LEMMA CallsOfOthers ==
  ASSUME IInv, KnewInv, CallsInv, NEW r \in Request, Step(r) \/ Crash(r),
         NEW q \in Request \ {r}, pc[q] \in Working
  PROVE  Budgeted(q, tx[q].log, Reached(q))'
<1>1. /\ pc[r] # "done" /\ want' = want /\ day' = day
      /\ pc'[q] = pc[q] /\ knew'[q] = knew[q] /\ tx'[q] = tx[q]
  BY RequestSteps
<1>2. Reached(q) \in 0 .. 3 /\ Reached(q)' = Reached(q)
  BY <1>1, ReachedIsInPlan DEF Reached, Made
<1>3. PlanOf(q)' = PlanOf(q)
  BY <1>1 DEF PlanOf
<1>4. \A thing \in Thing : \A other : <<r, other>> \notin knew[q][thing]
  BY <1>1, OpenIsUnknown
<1>5. calls \subseteq calls' /\ \A c \in calls' : c \in calls \/ c.by = r
  BY TablesGrow
<1> DEFINE log == tx[q].log
<1>6. ASSUME NEW i \in 1 .. Reached(q)
      PROVE  {c \in Today(calls' \cup log) : <<c.by, c.call>> \in knew[q][PlanOf(q)[i]]}
               = KnewCalls(q, PlanOf(q)[i], log)
  <2>1. PlanOf(q)[i] \in Thing
    BY <1>2, Plans
  <2> QED  BY <1>4, <1>5, <2>1 DEF KnewCalls, Today
<1>7. Budgeted(q, log, Reached(q))
  BY DEF CallsInv
<1>8. ASSUME NEW some, some = log, NEW n, n = Reached(q) PROVE Budgeted(q, some, n)'
  <2>1. ASSUME NEW i \in 1 .. n
        PROVE  KnewCalls(q, PlanOf(q)[i], some)' = KnewCalls(q, PlanOf(q)[i], some)
    BY <1>1, <1>3, <1>6, <1>8 DEF KnewCalls, Today
  <2> QED  BY <1>1, <1>2, <1>7, <1>8, <2>1, BudgetStays
<1> QED  BY <1>1, <1>2, <1>8

\* A check passes with what it sees, and its request's calls so far are part
\* of that.
LEMMA CallsOfAsk ==
  ASSUME IInv, KnewInv, CommittedInv, CallsInv, NEW r \in Request, Ask(r)
  PROVE  /\ Budgeted(r, tx[r].log, Made(r) + 1)'
         /\ Made(r)' = Made(r) /\ Made(r) \in 0 .. 2 /\ tx'[r].log = tx[r].log
<1>1. pc[r] = "check" /\ want' = want /\ day' = day /\ calls' = calls
  BY DEF Ask, Goto, dbVars
<1>2. tx'[r].log = tx[r].log
  BY DEF Ask, IInv, TypeOK, Tx
<1>3. Made(r)' = Made(r) /\ Made(r) \in 0 .. 2
  BY <1>1, <1>2 DEF Made, IInv, PhaseInv, Phase, TxFits
<1> DEFINE n == Made(r) + 1
           log == tx[r].log
           new == PlanOf(r)[n]
           uses == {<<c.by, c.call>> : c \in calls \cup log}
<1>4. n \in 1 .. 3 /\ new = NextCall(r) /\ new \in Thing
  BY <1>3, Plans DEF NextCall, PlanOf
<1>5. \A thing \in Thing : knew'[r][thing] = IF thing = new THEN uses ELSE knew[r][thing]
  <2>1. knew' = [knew EXCEPT ![r][new] = uses]
    BY <1>4 DEF Ask, Knows
  <2> HIDE DEF new, uses
  <2> QED  BY <1>4, <2>1 DEF IInv, TypeOK
<1>6. PlanOf(r)' = PlanOf(r) /\ Who(r)' = Who(r)
  BY <1>1 DEF PlanOf, Who
<1>7. /\ Budgeted(r, log, Made(r))
      /\ \A k \in 1 .. Made(r) : \E c \in log : c.call = PlanOf(r)[k]
      /\ \A c \in log : \E k \in 1 .. Made(r) : c.call = PlanOf(r)[k]
  BY <1>1 DEF CallsInv, Working, Reached
<1>8. /\ \A c \in calls : c.by # r
      /\ \A c \in log : c.by = r
  BY <1>1 DEF CommittedInv, Done, IInv, PhaseInv, Phase, TxFits
<1>9. \A i, k \in 1 .. 3 : PlanOf(r)[i] = PlanOf(r)[k] => i = k
  BY Plans
<1> DEFINE plan == PlanOf(r)
<1>10. \A i \in 1 .. n, k \in 1 .. 3 : <<r, plan[k]>> \in knew'[r][plan[i]] <=> k < i
  <2> SUFFICES ASSUME NEW i \in 1 .. n, NEW k \in 1 .. 3
               PROVE  <<r, plan[k]>> \in knew'[r][plan[i]] <=> k < i
    OBVIOUS
  <2>1. CASE i = n
    <3>1. knew'[r][plan[i]] = uses
      BY <1>4, <1>5, <2>1
    <3>2. <<r, plan[k]>> \in uses <=> \E c \in log : c.call = plan[k]
      BY <1>8
    <3>3. (\E c \in log : c.call = plan[k]) <=> k < n
      <4> HIDE DEF plan, log
      <4>1. k < n => k \in 1 .. Made(r)
        BY <1>3
      <4>2. \A m \in 1 .. Made(r) : m \in 1 .. 3 /\ m < n
        BY <1>3
      <4> QED  BY <1>7, <1>9, <4>1, <4>2 DEF log, plan
    <3> QED  BY <2>1, <3>1, <3>2, <3>3
  <2>2. CASE i # n
    <3>1. i \in 1 .. Made(r) /\ i \in 1 .. 3
      BY <1>3, <2>2
    <3>2. plan[i] # new /\ plan[i] \in Thing
      BY <1>4, <1>9, <2>2, <3>1, Plans
    <3>3. knew'[r][plan[i]] = knew[r][plan[i]]
      BY <1>5, <3>2
    <3> QED  BY <1>7, <3>1, <3>3 DEF Budgeted, InOrder
  <2> QED  BY <2>1, <2>2
<1>11. ASSUME NEW i \in 1 .. n
       PROVE  Affordable(Who(r), {c \in Today(calls \cup log) :
                                    <<c.by, c.call>> \in knew'[r][plan[i]]})
  <2>1. CASE i = n
    <3>1. knew'[r][plan[i]] = uses
      BY <1>4, <1>5, <2>1
    <3>2. {c \in Today(calls \cup log) : <<c.by, c.call>> \in uses} = Visible(r)
      BY DEF Today, Visible
    <3>3. Affordable(Who(r), Visible(r))
      BY DEF Ask, BudgetAllows, Affordable
    <3> QED  BY <3>1, <3>2, <3>3
  <2>2. CASE i # n
    <3>1. i \in 1 .. Made(r) /\ i \in 1 .. 3
      BY <1>3, <2>2
    <3>2. plan[i] # new /\ plan[i] \in Thing
      BY <1>4, <1>9, <2>2, <3>1, Plans
    <3>3. knew'[r][plan[i]] = knew[r][plan[i]]
      BY <1>5, <3>2
    <3>4. Affordable(Who(r), KnewCalls(r, plan[i], log))
      BY <1>7, <3>1 DEF Budgeted
    <3> QED  BY <3>3, <3>4 DEF KnewCalls
  <2> QED  BY <2>1, <2>2
<1>12. /\ \A c \in log : \E i \in 1 .. n : c.call = plan[i]
       /\ \A c, d \in log : c.call = d.call => c = d
  BY <1>3, <1>7 DEF Budgeted
<1>13. ASSUME NEW i \in 1 .. n
       PROVE  Affordable(Who(r), KnewCalls(r, PlanOf(r)[i], log))'
  <2>1. KnewCalls(r, PlanOf(r)[i], log)'
          = {c \in Today(calls \cup log) : <<c.by, c.call>> \in knew'[r][plan[i]]}
    BY <1>1, <1>2, <1>6 DEF KnewCalls, Today
  <2>2. \A u, some : Affordable(u, some) => Affordable(u, some)'
    BY <1>1, AffordableStays
  <2> QED  BY <1>6, <1>11, <2>1, <2>2
<1> QED  BY <1>2, <1>3, <1>6, <1>10, <1>12, <1>13 DEF Budgeted, InOrder

CallsFit(r) ==
  /\ Made(r) \in 0 .. 3
  /\ \A k \in 1 .. Made(r) : \E c \in tx[r].log : c.call = PlanOf(r)[k]
  /\ \A c \in tx[r].log : \E k \in 1 .. Made(r) : c.call = PlanOf(r)[k]
  /\ Budgeted(r, tx[r].log, Reached(r))

LEMMA CallsOfAnswered ==
  ASSUME IInv, CallsInv, NEW r \in Request, Answered(r)
  PROVE  CallsFit(r)'
<1>1. /\ pc[r] = "asked" /\ pc'[r] \in {"check", "write"}
      /\ want' = want /\ day' = day /\ calls' = calls /\ knew' = knew
  BY DEF Answered, IInv, TypeOK, dbVars
<1>2. PICK tokens \in Counted : tx' = [tx EXCEPT ![r].log = Logged(r, tokens)]
  BY DEF Answered
<1>3. tx'[r].log = Logged(r, tokens)
  BY <1>2 DEF IInv, TypeOK, Tx
<1>4. /\ Budgeted(r, Logged(r, tokens), Made(r) + 1)
      /\ Made(r) \in 0 .. 2
      /\ Cardinality(Logged(r, tokens)) = Made(r) + 1
      /\ \E c \in Logged(r, tokens) : c.call = PlanOf(r)[Made(r) + 1]
      /\ tx[r].log \subseteq Logged(r, tokens)
  BY <1>1, LoggedIsBudgeted
<1>5. Made(r)' = Made(r) + 1 /\ Reached(r)' = Made(r) + 1
  BY <1>1, <1>3, <1>4 DEF Made, Reached
<1>6. PlanOf(r)' = PlanOf(r)
  BY <1>1 DEF PlanOf
<1>7. \A k \in 1 .. Made(r) + 1 : \E c \in Logged(r, tokens) : c.call = PlanOf(r)[k]
  <2> SUFFICES ASSUME NEW k \in 1 .. Made(r) + 1
               PROVE  \E c \in Logged(r, tokens) : c.call = PlanOf(r)[k]
    OBVIOUS
  <2>1. CASE k = Made(r) + 1
    BY <1>4, <2>1
  <2>2. CASE k # Made(r) + 1
    <3>1. k \in 1 .. Made(r)
      BY <1>4, <2>2
    <3>2. \E c \in tx[r].log : c.call = PlanOf(r)[k]
      BY <1>1, <3>1 DEF CallsInv, Working
    <3> QED  BY <1>4, <3>2
  <2> QED  BY <2>1, <2>2
<1>8. \A c \in Logged(r, tokens) : \E k \in 1 .. Made(r) + 1 : c.call = PlanOf(r)[k]
  BY <1>4 DEF Budgeted
<1>9. ASSUME NEW log, log = Logged(r, tokens), NEW n \in 0 .. 3, n = Made(r) + 1
      PROVE  Budgeted(r, log, n)'
  <2>1. \A i \in 1 .. n :
          KnewCalls(r, PlanOf(r)[i], log)' = KnewCalls(r, PlanOf(r)[i], log)
    BY <1>1, <1>6 DEF KnewCalls, Today
  <2> QED  BY <1>1, <1>4, <1>9, <2>1, BudgetStays
<1>10. Budgeted(r, tx[r].log, Reached(r))'
  BY <1>3, <1>4, <1>5, <1>9
<1> QED  BY <1>3, <1>4, <1>5, <1>6, <1>7, <1>8, <1>10 DEF CallsFit

LEMMA CallsOfOwn ==
  ASSUME IInv, KnewInv, CommittedInv, CallsInv, NEW r \in Request, Step(r) \/ Crash(r),
         pc'[r] \in Working
  PROVE  CallsFit(r)'
<1>1. CASE Answered(r)
  BY <1>1, CallsOfAnswered
<1>2. CASE Ask(r)
  <2>1. /\ Budgeted(r, tx[r].log, Made(r) + 1)'
        /\ Made(r)' = Made(r) /\ Made(r) \in 0 .. 2 /\ tx'[r].log = tx[r].log
    BY <1>2, CallsOfAsk
  <2>2. pc[r] = "check" /\ pc'[r] = "asked" /\ want' = want
    BY <1>2 DEF Ask, Goto, IInv, TypeOK
  <2>3. Reached(r)' = (Made(r) + 1)'
    BY <2>2 DEF Reached
  <2>4. PlanOf(r)' = PlanOf(r)
    BY <2>2 DEF PlanOf
  <2>5. /\ \A k \in 1 .. Made(r) : \E c \in tx[r].log : c.call = PlanOf(r)[k]
        /\ \A c \in tx[r].log : \E k \in 1 .. Made(r) : c.call = PlanOf(r)[k]
    BY <2>2 DEF CallsInv, Working
  <2>6. Made(r) \in 0 .. 3
    BY <2>1
  <2> QED  BY <2>1, <2>3, <2>4, <2>5, <2>6 DEF CallsFit
<1>3. CASE (MakeRoom(r) \/ Find(r) \/ DailyLimit(r)) /\ pc[r] \notin Working
  <2>1. tx[r].log = {}
    BY <1>3 DEF IInv, PhaseInv, Phase, TxFits
  <2>2. tx'[r].log = {} /\ pc'[r] # "asked"
    <3>1. ASSUME NEW a, Answers(r, a) PROVE tx'[r].log = {} /\ pc'[r] # "asked"
      BY <3>1 DEF Answers, NoTx, IInv, TypeOK
    <3>2. CASE Rollback(r, "error")
      BY <3>1, <3>2 DEF Rollback
    <3>3. CASE ~Rollback(r, "error")
      BY <1>3, <2>1, <3>3 DEF MakeRoom, Find, DailyLimit, Goto, IInv, TypeOK
    <3> QED  BY <3>2, <3>3
  <2>3. Made(r)' = 0 /\ Reached(r)' = 0
    BY <2>2, FS_EmptySet DEF Made, Reached
  <2>4. Budgeted(r, tx[r].log, Reached(r))'
    BY <2>2, <2>3 DEF Budgeted, InOrder
  <2> QED  BY <2>2, <2>3, <2>4 DEF CallsFit
<1>4. MakeRoom(r) \/ Find(r) \/ DailyLimit(r) => pc[r] \notin Working
  <2>1. ASSUME NEW code, Rollback(r, code) PROVE FALSE
    BY <2>1 DEF Rollback, Answers, Working, IInv, TypeOK
  <2> QED  BY <2>1 DEF MakeRoom, Find, DailyLimit, Working
<1> QED  BY <1>1, <1>2, <1>3, <1>4, OwnStep

LEMMA CallsStep ==
  ASSUME IInv, KnewInv, CommittedInv, CallsInv, NEW r \in Request, Step(r) \/ Crash(r)
  PROVE  CallsInv'
<1> SUFFICES ASSUME NEW q \in Request, pc'[q] \in Working PROVE CallsFit(q)'
  BY DEF CallsInv, CallsFit
<1>1. CASE q = r
  BY <1>1, CallsOfOwn
<1>2. CASE q # r
  <2>1. want' = want /\ pc'[q] = pc[q] /\ tx'[q] = tx[q]
    BY <1>2, RequestSteps
  <2>2. Budgeted(q, tx[q].log, Reached(q))'
    BY <1>2, <2>1, CallsOfOthers
  <2>3. /\ Made(q) \in 0 .. 3
        /\ \A k \in 1 .. Made(q) : \E c \in tx[q].log : c.call = PlanOf(q)[k]
        /\ \A c \in tx[q].log : \E k \in 1 .. Made(q) : c.call = PlanOf(q)[k]
    BY <2>1 DEF CallsInv
  <2>4. Made(q)' = Made(q) /\ PlanOf(q)' = PlanOf(q)
    BY <2>1 DEF Made, PlanOf
  <2> QED  BY <2>1, <2>2, <2>3, <2>4 DEF CallsFit
<1> QED  BY <1>1, <1>2

LEMMA NothingIsAffordable ==
  ASSUME NEW u, NEW log, IsFiniteSet(log), log \subseteq CallRow, Affordable(u, log)
  PROVE  Affordable(u, {})
<1>1. /\ Tokens(log) \in Nat /\ Tokens(Of(u, log)) \in Nat
      /\ IsFiniteSet({}) /\ Tokens({}) = 0
  <2>1. IsFiniteSet(Of(u, log)) /\ Of(u, log) \subseteq CallRow
    BY FS_Subset DEF Of
  <2>2. \A c \in CallRow : c.tokens \in Nat
    BY DEF CallRow
  <2>3. Tokens(log) \in Nat /\ Tokens(Of(u, log)) \in Nat
    BY <2>1, <2>2, TokensCount
  <2>4. IsFiniteSet({})
    BY FS_EmptySet
  <2>5. Tokens({}) = 0
    BY <2>4, TokensCount
  <2> QED  BY <2>3, <2>4, <2>5
<1>2. Of(u, {}) = {} /\ Cardinality({}) = 0 /\ Cardinality(log) \in Nat
  BY FS_EmptySet, FS_CardinalityType DEF Of
<1> QED  BY <1>1, <1>2, LimitsAreNumbers DEF Affordable

\* At midnight the calls of the day are gone.
LEMMA CallsMidnight ==
  ASSUME IInv, CommittedInv, OpenInv, CallsInv, Midnight
  PROVE  CallsInv'
<1>1. /\ want' = want /\ pc' = pc /\ tx' = tx /\ knew' = knew /\ calls' = calls
      /\ day' = day + 1 /\ day \in Nat
  BY DEF Midnight, dbVars, IInv, TypeOK, Days
<1> SUFFICES ASSUME NEW r \in Request, pc[r] \in Working PROVE CallsFit(r)'
  BY <1>1 DEF CallsInv, CallsFit
<1>2. /\ Made(r)' = Made(r) /\ Reached(r)' = Reached(r)
      /\ PlanOf(r)' = PlanOf(r) /\ Who(r)' = Who(r)
  BY <1>1 DEF Made, Reached, PlanOf, Who
<1>3. CallsFit(r)
  BY DEF CallsInv, CallsFit
<1> DEFINE log == tx[r].log
<1>4. /\ IsFiniteSet(calls \cup log) /\ calls \cup log \subseteq CallRow
      /\ \A c \in calls \cup log : c.on # day + 1
  <2>1. IsFiniteSet(calls) /\ IsFiniteSet(log)
    BY DEF CommittedInv, IInv, PhaseInv, Phase, TxFits
  <2>2. calls \cup log \subseteq CallRow
    BY DEF IInv, TypeOK, Tx
  <2>3. \A c \in calls \cup log : c.on <= day /\ c.on \in Nat
    BY <2>2 DEF CommittedInv, OpenInv, CallRow, Days
  <2>4. IsFiniteSet(calls \cup log)
    BY <2>1, FS_Union
  <2>5. \A c \in calls \cup log : c.on # day + 1
    BY <1>1, <2>3
  <2> QED  BY <2>2, <2>4, <2>5
<1>5. ASSUME NEW i \in 1 .. Reached(r)
      PROVE  Affordable(Who(r), KnewCalls(r, PlanOf(r)[i], log))'
  <2> DEFINE known == KnewCalls(r, PlanOf(r)[i], log)
  <2>1. Affordable(Who(r), known)
    BY <1>3 DEF CallsFit, Budgeted
  <2>2. IsFiniteSet(known) /\ known \subseteq CallRow
    <3>1. known \subseteq calls \cup log
      BY DEF KnewCalls, Today
    <3> HIDE DEF known, log
    <3> QED  BY <1>4, <3>1, FS_Subset
  <2>3. Affordable(Who(r), {})
    <3> HIDE DEF known
    <3> QED  BY <2>1, <2>2, NothingIsAffordable
  <2>4. known' = {}
    BY <1>1, <1>4 DEF KnewCalls, Today
  <2>5. \A u, some : Affordable(u, some) => Affordable(u, some)'
    BY <1>1, AffordableStays
  <2> QED  BY <1>2, <2>3, <2>4, <2>5
<1>6. Budgeted(r, log, Reached(r))'
  <2>1. Budgeted(r, log, Reached(r))
    BY <1>3 DEF CallsFit
  <2>2. InOrder(r, Reached(r))'
    BY <1>1, <1>2, <2>1 DEF Budgeted, InOrder
  <2> QED  BY <1>1, <1>2, <1>5, <2>1, <2>2 DEF Budgeted
<1> QED  BY <1>1, <1>2, <1>3, <1>6 DEF CallsFit

-----------------------------------------------------------------------------
(* The limits.                                                              *)

\* Requests that are done overlap for good.
LEMMA OverlapStays ==
  ASSUME IInv, NEW r \in Request, Step(r) \/ Crash(r),
         NEW uses, \A a \in uses : Done(a[1]), Overlap(uses)
  PROVE  Overlap(uses)'
<1>1. \A a \in uses : knew'[a[1]] = knew[a[1]]
  BY RequestSteps DEF Done
<1> QED  BY <1>1 DEF Overlap, Apart

\* Who did not know of another's use overlaps with it, as nobody knows of
\* what is still open.
LEMMA UnknownOverlaps ==
  ASSUME KnewInv, NEW r \in Request, pc[r] # "done", NEW q \in Request \ {r},
         NEW thing \in Thing, NEW other, <<q, thing>> \notin knew[r][other],
         NEW uses, <<q, thing>> \in uses, <<r, other>> \in uses
  PROVE  Overlap(uses)
<1> DEFINE a == <<q, thing>>
           b == <<r, other>>
<1>1. <<r, other>> \notin knew[q][thing]
  BY OpenIsUnknown
<1>2. a[1] = q /\ a[2] = thing /\ b[1] = r /\ b[2] = other
  OBVIOUS
<1>3. a \in uses /\ b \in uses /\ a \notin knew[r][other] /\ b \notin knew[q][thing]
  BY <1>1
<1> HIDE DEF a, b
<1> QED  BY <1>2, <1>3 DEF Overlap, Apart

LEMMA OneMore ==
  ASSUME NEW some, IsFiniteSet(some), NEW x \in some, NEW limit \in Nat,
         Cardinality(some \ {x}) < limit
  PROVE  Cardinality(some) <= limit
<1>1. Cardinality(some \ {x}) = Cardinality(some) - 1 /\ Cardinality(some) \in Nat
  BY FS_RemoveElement, FS_CardinalityType
<1> QED  BY <1>1

\* The turn of an open request, on top of those there are.
LEMMA OneTurnMore ==
  ASSUME KnewInv, NEW r \in Request, pc[r] # "done", NEW thing \in Thing,
         NEW all, IsFiniteSet(all), \A row \in all : Done(row.by),
         NEW limit \in Nat, Cardinality(KnewOf(r, thing, all)) < limit,
         NEW some, NEW mine \in some, mine.by = r, some \ {mine} \subseteq all
  PROVE  \/ Cardinality(some) <= limit
         \/ Overlap({<<row.by, thing>> : row \in some})
<1>1. IsFiniteSet(some)
  <2>1. some \subseteq all \cup {mine} /\ IsFiniteSet(all \cup {mine})
    BY FS_AddElement
  <2> QED  BY <2>1, FS_Subset
<1>2. CASE some \ {mine} \subseteq KnewOf(r, thing, all)
  <2>1. IsFiniteSet(KnewOf(r, thing, all))
    BY FS_Subset DEF KnewOf
  <2>2. Cardinality(some \ {mine}) < limit
    BY <1>2, <2>1, PartOfFew
  <2> QED  BY <1>1, <2>2, OneMore
<1>3. CASE ~(some \ {mine} \subseteq KnewOf(r, thing, all))
  <2>1. PICK row \in some \ {mine} : row \notin KnewOf(r, thing, all)
    BY <1>3
  <2>2. row.by \in Request \ {r} /\ <<row.by, thing>> \notin knew[r][thing]
    BY <2>1 DEF KnewOf, Done
  <2> DEFINE uses == {<<o.by, thing>> : o \in some}
  <2>3. <<row.by, thing>> \in uses /\ <<r, thing>> \in uses
    BY <2>1
  <2> HIDE DEF uses
  <2>4. Overlap(uses)
    BY <2>2, <2>3, UnknownOverlaps
  <2> QED  BY <2>4 DEF uses
<1> QED  BY <1>2, <1>3

\* The user's turn of a request that commits.
LEMMA OwnTurn ==
  ASSUME IInv, OpenInv, NEW r \in Request, Step(r) \/ Crash(r),
         NEW row \in rows', row \notin rows, row.is = "user"
  PROVE  /\ Write(r) /\ row.by = r /\ want[r].kind = "play" /\ knew' = knew
         /\ \A other \in rows' : other \in rows \/ other.is # "user" \/ other = row
<1>1. Write(r)
  BY Writers DEF IInv, Delete, Cascade, Rollback, dbVars
<1>2. rows' = rows \cup Written(r) /\ knew' = knew
  BY <1>1 DEF Write
<1>3. \A other \in Written(r) : other.is = "user" => other \in tx[r].rows
  BY DEF Written, NewRow
<1>4. row \in tx[r].rows
  BY <1>2, <1>3
<1> QED  BY <1>1, <1>2, <1>3, <1>4 DEF OpenInv, IInv, PhaseInv, Phase, TxFits

LEMMA TurnLimitStep ==
  ASSUME IInv, UsageInv, NEW r \in Request, Step(r) \/ Crash(r)
  PROVE  TurnLimit'
<1> USE DEF UsageInv
<1>1. /\ pc[r] # "done" /\ want' = want /\ day' = day
      /\ \A p : /\ CampaignOf(p)' = CampaignOf(p)
                /\ Who(p)' = Who(p)
  BY RequestSteps
<1>2. \A c \in live' : c \in live \/ c = r
  BY TablesGrow
<1> SUFFICES ASSUME NEW u \in User, NEW some \in SUBSET (TurnsToday(u)')
             PROVE  Cardinality(some) <= MaxRequests \/ Overlap(TurnUses(some))'
  BY DEF TurnLimit, TurnUses
<1>3. \A row \in some : /\ row \in rows' /\ row.is = "user" /\ row.on = day
                        /\ Who(row.by) = u
                        /\ row \in rows => row \in TurnsToday(u)
  BY <1>1 DEF TurnsToday, IInv, RowsInv, RowsWhole
<1>4. \A row \in rows : Done(row.by)
  BY DEF CommittedInv
<1>5. CASE some \subseteq rows
  <2>1. Cardinality(some) <= MaxRequests \/ Overlap(TurnUses(some))
    BY <1>3, <1>5 DEF LimitsInv, TurnLimit
  <2>2. \A a \in TurnUses(some) : Done(a[1])
    BY <1>4, <1>5 DEF TurnUses
  <2> QED  BY <2>1, <2>2, OverlapStays DEF TurnUses
<1>6. CASE ~(some \subseteq rows)
  <2>1. PICK mine \in some : mine \notin rows
    BY <1>6
  <2>2. /\ Write(r) /\ mine.by = r /\ want[r].kind = "play" /\ knew' = knew
        /\ \A other \in rows' : other \in rows \/ other.is # "user" \/ other = mine
    BY <1>3, <2>1, OwnTurn
  <2>3. some \ {mine} \subseteq TurnsToday(u) /\ Who(r) = u
    BY <1>3, <2>1, <2>2
  <2>4. Cardinality(KnewOf(r, "turn", TurnsToday(u))) < MaxRequests
    BY <2>2, <2>3 DEF Write, RoomInv, TurnRoom, Working
  <2>5. IsFiniteSet(TurnsToday(u)) /\ \A row \in TurnsToday(u) : Done(row.by)
    BY <1>4, FS_Subset DEF TurnsToday, CommittedInv
  <2>6. Cardinality(some) <= MaxRequests \/ Overlap(TurnUses(some))
    BY <1>1, <2>1, <2>2, <2>3, <2>4, <2>5, OneTurnMore, LimitsAreNumbers DEF TurnUses, Thing
  <2> QED  BY <2>2, <2>6 DEF TurnUses, Overlap, Apart
<1> QED  BY <1>5, <1>6

LEMMA ExchangeLimitStep ==
  ASSUME IInv, UsageInv, NEW r \in Request, Step(r) \/ Crash(r)
  PROVE  ExchangeLimit'
<1> USE DEF UsageInv
<1>1. /\ pc[r] # "done" /\ want' = want
      /\ \A p : CampaignOf(p)' = CampaignOf(p)
  BY RequestSteps
<1> SUFFICES ASSUME NEW c \in CampaignId, NEW some \in SUBSET (UserTurns(c)')
             PROVE  Cardinality(some) <= MaxTurns \/ Overlap(ExchangeUses(some))'
  BY DEF ExchangeLimit, ExchangeUses
<1>2. \A row \in some : /\ row \in rows' /\ row.is = "user" /\ CampaignOf(row.by) = c
                        /\ row \in rows => row \in UserTurns(c)
  BY <1>1 DEF UserTurns
<1>3. \A row \in rows : Done(row.by)
  BY DEF CommittedInv
<1>4. CASE some \subseteq rows
  <2>1. Cardinality(some) <= MaxTurns \/ Overlap(ExchangeUses(some))
    BY <1>2, <1>4 DEF LimitsInv, ExchangeLimit
  <2>2. \A a \in ExchangeUses(some) : Done(a[1])
    BY <1>3, <1>4 DEF ExchangeUses
  <2> QED  BY <2>1, <2>2, OverlapStays DEF ExchangeUses
<1>5. CASE ~(some \subseteq rows)
  <2>1. PICK mine \in some : mine \notin rows
    BY <1>5
  <2>2. /\ Write(r) /\ mine.by = r /\ want[r].kind = "play" /\ knew' = knew
        /\ \A other \in rows' : other \in rows \/ other.is # "user" \/ other = mine
    BY <1>2, <2>1, OwnTurn
  <2>3. some \ {mine} \subseteq UserTurns(c) /\ CampaignOf(r) = c
    BY <1>2, <2>1, <2>2
  <2>4. Cardinality(KnewOf(r, "exchange", UserTurns(c))) < MaxTurns
    BY <2>2, <2>3 DEF Write, RoomInv, ExchangeRoom, Working
  <2>5. IsFiniteSet(UserTurns(c)) /\ \A row \in UserTurns(c) : Done(row.by)
    BY <1>3, FS_Subset DEF UserTurns, CommittedInv
  <2>6. Cardinality(some) <= MaxTurns \/ Overlap(ExchangeUses(some))
    BY <1>1, <2>1, <2>2, <2>3, <2>4, <2>5, OneTurnMore, LimitsAreNumbers DEF ExchangeUses, Thing
  <2> QED  BY <2>2, <2>6 DEF ExchangeUses, Overlap, Apart
<1> QED  BY <1>4, <1>5

LEMMA CampaignLimitStep ==
  ASSUME IInv, UsageInv, NEW r \in Request, Step(r) \/ Crash(r)
  PROVE  CampaignLimit'
<1> USE DEF UsageInv
<1>1. /\ pc[r] # "done" /\ want' = want
      /\ \A p : OwnerOf(p)' = OwnerOf(p)
  BY RequestSteps
<1>2. \A c \in live' : c \in live \/ c = r
  BY TablesGrow
<1> SUFFICES ASSUME NEW u \in User, NEW some \in SUBSET (Owned(u)')
             PROVE  Cardinality(some) <= MaxCampaigns \/ Overlap(CampaignUses(some))'
  BY DEF CampaignLimit, CampaignUses
<1>3. \A c \in some : /\ c \in live' /\ OwnerOf(c) = u
                      /\ c \in live => c \in Owned(u)
  BY <1>1 DEF Owned
<1>4. CASE some \subseteq live
  <2>1. Cardinality(some) <= MaxCampaigns \/ Overlap(CampaignUses(some))
    BY <1>3, <1>4 DEF LimitsInv, CampaignLimit
  <2>2. \A a \in CampaignUses(some) : Done(a[1])
    BY <1>4 DEF CampaignUses, CommittedInv
  <2> QED  BY <2>1, <2>2, OverlapStays DEF CampaignUses
<1>5. CASE ~(some \subseteq live)
  <2>1. r \in some /\ r \in live' /\ r \notin live
    BY <1>2, <1>3, <1>5
  <2>2. Write(r)
    BY <2>1, Writers DEF IInv, Delete, Rollback, dbVars
  <2>3. want[r].kind = "create" /\ knew' = knew /\ pc[r] = "write"
    BY <2>1, <2>2 DEF Write
  <2>4. some \ {r} \subseteq Owned(u) /\ Who(r) = u
    <3>1. OwnerOf(r) = Who(r)
      BY <2>3, CampaignOfCreate
    <3> QED  BY <1>2, <1>3, <2>1, <3>1
  <2>5. /\ Cardinality(KnewCampaigns(r)) < MaxCampaigns
        /\ \A c \in live \cap Campaign : <<c, "campaign">> \in knew[r]["campaign"]
    BY <2>3 DEF RoomInv, CampaignRoom, Working
  <2>6. CASE some \ {r} \subseteq KnewCampaigns(r)
    <3>1. IsFiniteSet(KnewCampaigns(r))
      BY FS_Subset DEF KnewCampaigns, Owned, CommittedInv
    <3>2. Cardinality(some \ {r}) < MaxCampaigns /\ IsFiniteSet(some \ {r})
      BY <2>5, <2>6, <3>1, PartOfFew, LimitsAreNumbers
    <3>3. IsFiniteSet((some \ {r}) \cup {r}) /\ (some \ {r}) \cup {r} = some
      BY <2>1, <3>2, FS_AddElement
    <3> QED  BY <2>1, <3>2, <3>3, OneMore, LimitsAreNumbers
  <2>7. CASE ~(some \ {r} \subseteq KnewCampaigns(r))
    <3>1. PICK q \in some \ {r} : q \notin KnewCampaigns(r)
      BY <2>7
    <3>2. q \in live /\ <<q, "campaign">> \notin knew[r]["campaign"]
      BY <2>4, <3>1 DEF KnewCampaigns, Owned
    <3>3. q \in Request \ {r}
      BY <2>5, <3>1, <3>2 DEF IInv, TypeOK, CampaignId
    <3>4. <<q, "campaign">> \in CampaignUses(some) /\ <<r, "campaign">> \in CampaignUses(some)
      BY <2>1, <3>1, <3>3 DEF CampaignUses
    <3>5. "campaign" \in Thing
      BY DEF Thing
    <3>6. Overlap(CampaignUses(some))
      BY <1>1, <3>2, <3>3, <3>4, <3>5, UnknownOverlaps
    <3> QED  BY <2>3, <3>6 DEF CampaignUses, Overlap, Apart
  <2> QED  BY <2>6, <2>7
<1> QED  BY <1>4, <1>5

\* Of the calls of a request that commits, the last of the day knew the others
\* of that day, and had room for itself beside what it knew.
LEMMA LastCall ==
  ASSUME KnewInv, CommittedInv, NEW r \in Request, pc[r] # "done",
         NEW log, Records(r, log), Today(log) # {}
  PROVE  \E last \in Today(log) :
           LET known == KnewCalls(r, last.call, log)
           IN /\ Affordable(Who(r), known)
              /\ last \notin known
              /\ \A c \in Today(log) : c = last \/ c \in known
              /\ \A c \in Today(calls) : c \in known \/ <<c.by, c.call>> \notin knew[r][last.call]
<1>1. PICK n \in 0 .. 3 : Budgeted(r, log, n)
  BY DEF Records
<1>2. \A i \in 1 .. n : i \in 1 .. 3
  OBVIOUS
<1>3. /\ \A c \in log : c.by = r /\ \E i \in 1 .. n : c.call = PlanOf(r)[i]
      /\ \A c, d \in log : c.call = d.call => c = d
      /\ InOrder(r, n)
      /\ \A i \in 1 .. n : Affordable(Who(r), KnewCalls(r, PlanOf(r)[i], log))
  BY <1>1 DEF Records, Budgeted
<1> DEFINE At(i) == \E c \in Today(log) : c.call = PlanOf(r)[i]
<1>4. PICK i \in 1 .. n : At(i) /\ \A k \in 1 .. n : k > i => ~At(k)
  <2>1. \E k \in 1 .. n : At(k)
    BY <1>3 DEF Today
  <2> HIDE DEF At
  <2>2. n = 0 \/ n = 1 \/ n = 2 \/ n = 3
    OBVIOUS
  <2> QED  BY <2>1, <2>2
<1>5. PICK last \in Today(log) : last.call = PlanOf(r)[i]
  BY <1>4
<1> DEFINE known == KnewCalls(r, last.call, log)
<1>6. Affordable(Who(r), known)
  BY <1>3, <1>5
<1>7. last \notin known
  <2>1. <<r, PlanOf(r)[i]>> \notin knew[r][PlanOf(r)[i]]
    BY <1>2, <1>3 DEF InOrder
  <2> QED  BY <1>3, <1>5, <2>1 DEF KnewCalls, Today
<1>8. ASSUME NEW c \in Today(log) PROVE c = last \/ c \in known
  <2>1. PICK k \in 1 .. n : c.call = PlanOf(r)[k]
    BY <1>3 DEF Today
  <2>2. ~(k > i)
    BY <1>4, <2>1
  <2>3. CASE k = i
    BY <1>3, <1>5, <2>1, <2>3 DEF Today
  <2>4. CASE k < i
    <3>1. <<r, PlanOf(r)[k]>> \in knew[r][PlanOf(r)[i]]
      BY <1>2, <1>3, <2>4 DEF InOrder
    <3> QED  BY <1>3, <1>5, <2>1, <3>1 DEF KnewCalls, Today
  <2> QED  BY <2>2, <2>3, <2>4
<1>9. \A c \in Today(calls) : c \in known \/ <<c.by, c.call>> \notin knew[r][last.call]
  BY DEF KnewCalls, Today
<1> QED  BY <1>5, <1>6, <1>7, <1>8, <1>9

\* With a log committed the limits hold.
LEMMA CommitFits ==
  ASSUME IInv, UsageInv, NEW r \in Request, pc[r] # "done",
         NEW log, Records(r, log), NEW all, all = Today(calls \cup log)
  PROVE  /\ \A u \in User : Fits(Of(u, all), MaxTokens)
         /\ Fits(all, MaxProjectTokens)
         /\ Cardinality(all) <= MaxProjectRequests \/ Overlap(CallUses(all))
<1> USE DEF UsageInv
<1>1. CASE Today(log) = {}
  <2>1. all = Today(calls)
    BY <1>1 DEF Today
  <2> QED  BY <2>1 DEF LimitsInv, CallLimits
<1>2. CASE Today(log) # {}
  <2>1. PICK last \in Today(log) :
           LET known == KnewCalls(r, last.call, log)
           IN /\ Affordable(Who(r), known)
              /\ last \notin known
              /\ \A c \in Today(log) : c = last \/ c \in known
              /\ \A c \in Today(calls) : c \in known \/ <<c.by, c.call>> \notin knew[r][last.call]
    BY <1>2, LastCall
  <2> DEFINE known == KnewCalls(r, last.call, log)
  <2>2. last \in all /\ last.by = r /\ known \subseteq all \ {last}
    BY <2>1 DEF KnewCalls, Records, Today
  <2>3. ASSUME NEW some \in SUBSET all, last \in some, ~(some \ {last} \subseteq known)
        PROVE  Overlap(CallUses(some))
    <3>1. PICK c \in some \ {last} : c \notin known
      BY <2>3
    <3>2. c \in Today(calls) /\ <<c.by, c.call>> \notin knew[r][last.call]
      BY <2>1, <3>1 DEF Today
    <3>3. c.by \in Request \ {r} /\ c.call \in Thing
      BY <3>2 DEF Today, CommittedInv, Done, IInv, TypeOK, CallRow, Thing
    <3>4. <<c.by, c.call>> \in CallUses(some) /\ <<r, last.call>> \in CallUses(some)
      BY <2>2, <2>3, <3>1 DEF CallUses
    <3> QED  BY <3>2, <3>3, <3>4, UnknownOverlaps
  <2>4. ASSUME NEW u \in User PROVE Fits(Of(u, all), MaxTokens)
    <3>1. CASE u # Who(r)
      <4>1. Of(u, all) = Of(u, Today(calls))
        BY <3>1 DEF Of, Today, Records
      <4> QED  BY <4>1 DEF LimitsInv, CallLimits
    <3>2. CASE u = Who(r)
      <4>1. last \in Of(u, all)
        BY <2>2, <3>2 DEF Of
      <4>2. CASE Of(u, all) \ {last} \subseteq known
        <5>1. Of(u, all) \ {last} = Of(u, known)
          BY <2>2, <4>2 DEF Of
        <5>2. Tokens(Of(u, known)) + Pending <= MaxTokens
          BY <2>1, <3>2 DEF Affordable
        <5> HIDE DEF known
        <5> QED  BY <4>1, <5>1, <5>2 DEF Fits
      <4>3. CASE ~(Of(u, all) \ {last} \subseteq known)
        <5>1. Of(u, all) \in SUBSET all
          BY DEF Of
        <5>2. Overlap(CallUses(Of(u, all)))
          BY <2>3, <4>1, <4>3, <5>1
        <5> QED  BY <5>2 DEF Fits
      <4> QED  BY <4>2, <4>3
    <3> QED  BY <3>1, <3>2
  <2>5. Fits(all, MaxProjectTokens)
    <3>1. CASE all \ {last} \subseteq known
      <4>1. all \ {last} = known
        BY <2>2, <3>1
      <4>2. Tokens(known) + Pending <= MaxProjectTokens
        BY <2>1 DEF Affordable
      <4> HIDE DEF known
      <4> QED  BY <2>2, <4>1, <4>2 DEF Fits
    <3>2. CASE ~(all \ {last} \subseteq known)
      BY <2>2, <2>3, <3>2 DEF Fits
    <3> QED  BY <3>1, <3>2
  <2>6. Cardinality(all) <= MaxProjectRequests \/ Overlap(CallUses(all))
    <3>1. CASE all \ {last} \subseteq known
      <4>1. all \ {last} = known
        BY <2>2, <3>1
      <4>2. Cardinality(known) < MaxProjectRequests
        BY <2>1 DEF Affordable
      <4>3. IsFiniteSet(all)
        <5>1. IsFiniteSet(calls \cup log)
          BY FS_Union DEF CommittedInv, Records
        <5> QED  BY <5>1, FS_Subset DEF Today
      <4> HIDE DEF known
      <4> QED  BY <2>2, <4>1, <4>2, <4>3, OneMore, LimitsAreNumbers
    <3>2. CASE ~(all \ {last} \subseteq known)
      BY <2>2, <2>3, <3>2
    <3> QED  BY <3>1, <3>2
  <2> QED  BY <2>4, <2>5, <2>6
<1> QED  BY <1>1, <1>2

LEMMA FitsStays ==
  ASSUME IInv, UsageInv, NEW r \in Request, Step(r) \/ Crash(r),
         NEW log \in SUBSET calls, NEW limit, Fits(log, limit)
  PROVE  Fits(log, limit)'
<1>1. \A a \in CallUses(log) : Done(a[1])
  BY DEF CallUses, UsageInv, CommittedInv
<1>2. Overlap(CallUses(log)) => Overlap(CallUses(log))'
  BY <1>1, OverlapStays DEF CallUses
<1>3. \A some : Tokens(some)' = Tokens(some)
  BY DEF Tokens, MapThenSumSet, MapThenFoldSet
<1> QED  BY <1>2, <1>3 DEF Fits

LEMMA CallLimitsStep ==
  ASSUME IInv, UsageInv, NEW r \in Request, Step(r) \/ Crash(r)
  PROVE  CallLimits'
<1>1. /\ pc[r] # "done" /\ want' = want /\ day' = day
      /\ \A p : Who(p)' = Who(p)
  BY RequestSteps
<1>2. CASE calls' = calls
  <2>1. /\ Today(calls)' = Today(calls) /\ Today(calls) \in SUBSET calls
        /\ \A u : Of(u, Today(calls))' = Of(u, Today(calls)) /\ Of(u, Today(calls)) \in SUBSET calls
    BY <1>1, <1>2 DEF Today, Of
  <2>2. \A u \in User : Fits(Of(u, Today(calls)), MaxTokens)'
    <3> SUFFICES ASSUME NEW u \in User, NEW log, log = Of(u, Today(calls))
                 PROVE  Fits(log, MaxTokens)'
      BY <2>1 DEF Fits
    <3>1. Fits(log, MaxTokens)
      BY DEF UsageInv, LimitsInv, CallLimits
    <3> QED  BY <2>1, <3>1, FitsStays
  <2> DEFINE all == Today(calls)
  <2>3. Fits(all, MaxProjectTokens)'
    <3> SUFFICES ASSUME NEW log, log = Today(calls) PROVE Fits(log, MaxProjectTokens)'
      BY <2>1 DEF Fits
    <3>1. Fits(log, MaxProjectTokens)
      BY DEF UsageInv, LimitsInv, CallLimits
    <3> QED  BY <2>1, <3>1, FitsStays
  <2>4. Cardinality(all) <= MaxProjectRequests \/ Overlap(CallUses(all))'
    <3>1. Cardinality(all) <= MaxProjectRequests \/ Overlap(CallUses(all))
      BY DEF UsageInv, LimitsInv, CallLimits
    <3>2. \A a \in CallUses(all) : Done(a[1])
      BY DEF CallUses, Today, UsageInv, CommittedInv
    <3>3. CallUses(all)' = CallUses(all)
      BY <2>1 DEF CallUses
    <3>4. ASSUME NEW uses, uses = CallUses(all), Overlap(uses) PROVE Overlap(uses)'
      BY <3>2, <3>4, OverlapStays
    <3> QED  BY <3>1, <3>3, <3>4 DEF Overlap
  <2> QED  BY <2>1, <2>2, <2>3, <2>4 DEF CallLimits
<1>3. CASE calls' # calls
  <2>1. Write(r) \/ StarterFails(r)
    BY <1>3, Writers DEF IInv
  <2>2. PICK log : Records(r, log) /\ calls' = calls \cup log
    BY <2>1, CommitRecords DEF UsageInv
  <2>3. knew' = knew
    BY <2>1 DEF Write, StarterFails
  <2> DEFINE all == Today(calls \cup log)
  <2>4. /\ \A u \in User : Fits(Of(u, all), MaxTokens)
        /\ Fits(all, MaxProjectTokens)
        /\ Cardinality(all) <= MaxProjectRequests \/ Overlap(CallUses(all))
    BY <1>1, <2>2, CommitFits
  <2>5. Today(calls)' = all /\ \A u : Of(u, Today(calls))' = Of(u, all)
    BY <1>1, <2>2 DEF Today, Of
  <2>6. \A some : /\ Tokens(some)' = Tokens(some)
                  /\ Overlap(CallUses(some))' <=> Overlap(CallUses(some))
    BY <2>3 DEF Tokens, MapThenSumSet, MapThenFoldSet, Overlap, Apart, CallUses
  <2>7. \A some, limit : Fits(some, limit) => Fits(some, limit)'
    BY <2>6 DEF Fits
  <2> HIDE DEF all
  <2>8. \A u \in User : Fits(Of(u, Today(calls)), MaxTokens)'
    BY <2>4, <2>5, <2>7 DEF Fits
  <2>9. Fits(Today(calls), MaxProjectTokens)'
    BY <2>4, <2>5, <2>7 DEF Fits
  <2>10. Cardinality(Today(calls)') <= MaxProjectRequests \/ Overlap(CallUses(Today(calls)))'
    BY <2>4, <2>5, <2>6 DEF CallUses, Overlap
  <2> QED  BY <2>8, <2>9, <2>10 DEF CallLimits
<1> QED  BY <1>2, <1>3

\* At midnight nothing of the day is used yet.
LEMMA LimitsMidnight ==
  ASSUME IInv, UsageInv, Midnight
  PROVE  LimitsInv'
<1>1. /\ want' = want /\ knew' = knew /\ live' = live /\ rows' = rows /\ calls' = calls
      /\ day' = day + 1 /\ day \in Nat
  BY DEF Midnight, dbVars, IInv, TypeOK, Days
<1>2. \A p : /\ CampaignOf(p)' = CampaignOf(p)
             /\ Who(p)' = Who(p)
             /\ OwnerOf(p)' = OwnerOf(p)
  BY <1>1 DEF CampaignOf, Who, OwnerOf
<1>3. \A uses : Overlap(uses)' <=> Overlap(uses)
  BY <1>1 DEF Overlap, Apart
<1>4. Cardinality({}) = 0
  BY FS_EmptySet
<1>5. TurnLimit'
  <2>1. \A row \in rows : row.on # day + 1
    BY <1>1 DEF UsageInv, CommittedInv, IInv, TypeOK, Row, Days
  <2>2. \A u : TurnsToday(u)' = {}
    BY <1>1, <2>1 DEF TurnsToday
  <2>3. \A u \in User : \A some \in SUBSET (TurnsToday(u)') : Cardinality(some) <= MaxRequests
    BY <1>4, <2>2, LimitsAreNumbers
  <2> QED  BY <2>3 DEF TurnLimit
<1>6. ExchangeLimit'
  <2>1. \A c : UserTurns(c)' = UserTurns(c)
    BY <1>1, <1>2 DEF UserTurns
  <2>2. ExchangeLimit
    BY DEF UsageInv, LimitsInv
  <2> QED  BY <1>3, <2>1, <2>2 DEF ExchangeLimit, ExchangeUses
<1>7. CampaignLimit'
  <2>1. \A u : Owned(u)' = Owned(u)
    BY <1>1, <1>2 DEF Owned
  <2>2. CampaignLimit
    BY DEF UsageInv, LimitsInv
  <2> QED  BY <1>3, <2>1, <2>2 DEF CampaignLimit, CampaignUses
<1>8. CallLimits'
  <2>1. \A c \in calls : c.on # day + 1
    BY <1>1 DEF UsageInv, CommittedInv, IInv, TypeOK, CallRow, Days
  <2>2. Today(calls)' = {} /\ \A u : Of(u, Today(calls))' = {}
    BY <1>1, <2>1 DEF Today, Of
  <2> QED  BY <1>4, <2>2, LimitsAreNumbers DEF CallLimits, Fits
<1> QED  BY <1>5, <1>6, <1>7, <1>8 DEF LimitsInv
-----------------------------------------------------------------------------
(* UsageInv is an invariant and what it gives.                              *)

LEMMA UsageMidnight ==
  ASSUME IInv, UsageInv, Midnight
  PROVE  UsageInv'
<1>1. /\ want' = want /\ pc' = pc /\ tx' = tx /\ knew' = knew /\ live' = live
      /\ rows' = rows /\ calls' = calls /\ day' = day + 1 /\ day \in Nat
  BY DEF Midnight, dbVars, IInv, TypeOK, Days
<1>2. \A q : Done(q)' <=> Done(q)
  BY <1>1 DEF Done
<1>3. KnewInv'
  BY <1>1, <1>2 DEF UsageInv, KnewInv
<1>4. CommittedInv'
  <2>1. /\ \A row \in rows : row.on \in Nat
        /\ \A c \in calls : c.on \in Nat
    BY DEF IInv, TypeOK, Row, CallRow, Days
  <2>2. /\ \A row \in rows : row.on <= day + 1
        /\ \A c \in calls : c.on <= day + 1
    BY <1>1, <2>1 DEF UsageInv, CommittedInv
  <2> QED  BY <1>1, <1>2, <2>2 DEF UsageInv, CommittedInv
<1>5. OpenInv'
  <2>1. \A r \in Request : /\ \A row \in tx[r].rows : row.on \in Nat
                           /\ \A c \in tx[r].log : c.on \in Nat
    BY DEF IInv, TypeOK, Tx, Row, CallRow, Days
  <2>2. \A r \in Request : /\ \A row \in tx[r].rows : row.on <= day + 1
                           /\ \A c \in tx[r].log : c.on <= day + 1
    BY <1>1, <2>1 DEF UsageInv, OpenInv
  <2> QED  BY <1>1, <2>2 DEF UsageInv, OpenInv
<1> QED  BY <1>3, <1>4, <1>5, RoomMidnight, CallsMidnight, LimitsMidnight DEF UsageInv

LEMMA UsageStays ==
  ASSUME UNCHANGED vars, UsageInv
  PROVE  UsageInv'
<1>1. /\ want' = want /\ pc' = pc /\ tx' = tx /\ knew' = knew /\ live' = live
      /\ rows' = rows /\ calls' = calls /\ day' = day
  BY DEF vars, dbVars
<1>2. KnewInv' /\ CommittedInv' /\ OpenInv'
  BY <1>1 DEF UsageInv, KnewInv, CommittedInv, OpenInv, Done
<1>3. \A p : /\ CampaignOf(p)' = CampaignOf(p)
             /\ Who(p)' = Who(p)
             /\ OwnerOf(p)' = OwnerOf(p)
             /\ PlanOf(p)' = PlanOf(p)
  BY <1>1 DEF CampaignOf, Who, OwnerOf, PlanOf
<1>4. RoomInv'
  <2>1. /\ \A u : Owned(u)' = Owned(u) /\ TurnsToday(u)' = TurnsToday(u)
        /\ \A c : UserTurns(c)' = UserTurns(c)
    BY <1>1, <1>3 DEF Owned, TurnsToday, UserTurns
  <2> QED  BY <1>1, <1>3, <2>1
           DEF UsageInv, RoomInv, CampaignRoom, ExchangeRoom, TurnRoom, KnewCampaigns, KnewOf
<1>5. CallsInv'
  <2>1. \A r : Made(r)' = Made(r) /\ Reached(r)' = Reached(r)
    BY <1>1 DEF Made, Reached
  <2>2. \A r, call, log : KnewCalls(r, call, log)' = KnewCalls(r, call, log)
    BY <1>1 DEF KnewCalls, Today
  <2>3. \A u, log : Affordable(u, log) => Affordable(u, log)'
    BY <1>1, AffordableStays
  <2>4. \A r, log, n : Budgeted(r, log, n) => Budgeted(r, log, n)'
    BY <1>1, <1>3, <2>2, <2>3 DEF Budgeted, InOrder
  <2> QED  BY <1>1, <1>3, <2>1, <2>4 DEF UsageInv, CallsInv
<1>6. LimitsInv'
  <2>1. /\ \A u : Owned(u)' = Owned(u) /\ TurnsToday(u)' = TurnsToday(u)
        /\ \A c : UserTurns(c)' = UserTurns(c)
        /\ Today(calls)' = Today(calls)
        /\ \A u, log : Of(u, log)' = Of(u, log)
    BY <1>1, <1>3 DEF Owned, TurnsToday, UserTurns, Today, Of
  <2>2. \A uses : Overlap(uses)' <=> Overlap(uses)
    BY <1>1 DEF Overlap, Apart
  <2>3. \A some : Tokens(some)' = Tokens(some)
    BY DEF Tokens, MapThenSumSet, MapThenFoldSet
  <2>4. \A log, limit : Fits(log, limit)' <=> Fits(log, limit)
    BY <2>2, <2>3 DEF Fits, CallUses
  <2>5. TurnLimit' /\ ExchangeLimit' /\ CampaignLimit'
    BY <2>1, <2>2 DEF UsageInv, LimitsInv, TurnLimit, ExchangeLimit, CampaignLimit,
       TurnUses, ExchangeUses, CampaignUses
  <2>6. CallLimits'
    BY <2>1, <2>2, <2>4 DEF UsageInv, LimitsInv, CallLimits, CallUses
  <2> QED  BY <2>5, <2>6 DEF LimitsInv
<1> QED  BY <1>2, <1>4, <1>5, <1>6 DEF UsageInv

LEMMA UsageStep ==
  ASSUME IInv, UsageInv, [Next]_vars
  PROVE  UsageInv'
<1>1. ASSUME NEW r \in Request, Step(r) \/ Crash(r) PROVE UsageInv'
  <2>1. KnewInv' /\ CommittedInv' /\ OpenInv'
    BY <1>1, KnewStep, CommittedStep, OpenStep DEF UsageInv
  <2>2. RoomInv' /\ CallsInv'
    BY <1>1, RoomStep, CallsStep DEF UsageInv
  <2>3. LimitsInv'
    BY <1>1, TurnLimitStep, ExchangeLimitStep, CampaignLimitStep, CallLimitsStep DEF LimitsInv
  <2> QED  BY <2>1, <2>2, <2>3 DEF UsageInv
<1>2. CASE Midnight
  BY <1>2, UsageMidnight
<1>3. CASE UNCHANGED vars \/ Idle
  BY <1>3, UsageStays DEF Idle
<1> QED  BY <1>1, <1>2, <1>3 DEF Next

LEMMA UsageInit ==
  ASSUME Init
  PROVE  UsageInv
<1>1. /\ live = Campaign /\ rows = {} /\ calls = {}
      /\ \A r \in Request : /\ knew[r] = NothingUsed
                            /\ tx[r] = NoTx
                            /\ pc[r] \notin Working \cup {"quota"}
  BY DEF Init, Working
<1>2. /\ IsFiniteSet({}) /\ Cardinality({}) = 0
      /\ Request \cap Campaign = {}
      /\ \A r \in Request : tx[r].log = {} /\ tx[r].rows = {}
  BY <1>1, FS_EmptySet, AccountsAssumption DEF NoTx
<1>3. KnewInv
  BY <1>1 DEF KnewInv, NothingUsed
<1>4. CommittedInv /\ OpenInv
  BY <1>1, <1>2, SeedsAssumption DEF CommittedInv, OpenInv
<1>5. RoomInv /\ CallsInv
  BY <1>1 DEF RoomInv, CampaignRoom, ExchangeRoom, TurnRoom, CallsInv, Working
<1>6. \A u, c : TurnsToday(u) = {} /\ UserTurns(c) = {}
  BY <1>1 DEF TurnsToday, UserTurns
<1>7. TurnLimit /\ ExchangeLimit
  <2>1. \A some \in SUBSET {} : Cardinality(some) = 0
    BY <1>2
  <2> QED  BY <1>6, <2>1, LimitsAreNumbers DEF TurnLimit, ExchangeLimit
<1>8. CampaignLimit
  <2> SUFFICES ASSUME NEW u \in User, NEW some \in SUBSET Owned(u)
               PROVE  Cardinality(some) <= MaxCampaigns
    BY DEF CampaignLimit
  <2>1. Owned(u) = {c \in Campaign : SeedOwner[c] = u}
    BY <1>1 DEF Owned, OwnerOf
  <2>2. CASE u \in Member
    <3>1. IsFiniteSet(Owned(u)) /\ Cardinality(Owned(u)) <= MaxCampaigns
      BY <2>1, <2>2, SeedsAssumption, FS_Subset
    <3> QED  BY <3>1, PartOfFew, LimitsAreNumbers
  <2>3. CASE u \notin Member
    <3>1. Owned(u) = {}
      BY <2>1, <2>3, AccountsAssumption
    <3> QED  BY <1>2, <3>1, LimitsAreNumbers
  <2> QED  BY <2>2, <2>3
<1>9. CallLimits
  <2>1. Today(calls) = {} /\ \A u : Of(u, Today(calls)) = {}
    BY <1>1 DEF Today, Of
  <2> QED  BY <1>2, <2>1, LimitsAreNumbers DEF CallLimits, Fits
<1> QED  BY <1>3, <1>4, <1>5, <1>7, <1>8, <1>9 DEF UsageInv, LimitsInv

\* UsageInv is an invariant of Accounts.
THEOREM UsageInvariance == Spec => []UsageInv
BY UsageInit, UsageStep, Invariance, PTL DEF Spec

\* What is used goes beyond a limit only if two of the uses were checked
\* without knowing of each other, however requests interleave, fail, crash or
\* run over midnight, and whatever is deleted in between.
THEOREM OverdraftNeedsOverlap == Spec => []OverdrawnOnlyByOverlap
<1>1. ASSUME IInv, UsageInv PROVE OverdrawnOnlyByOverlap
  <2>1. live \subseteq CampaignId
    BY <1>1 DEF IInv, TypeOK
  <2>2. \A u \in User :
          /\ \/ Cardinality(TurnsToday(u)) <= MaxRequests
             \/ Overlap({<<row.by, "turn">> : row \in TurnsToday(u)})
          /\ \/ Cardinality(Owned(u)) <= MaxCampaigns
             \/ Overlap({<<c, "campaign">> : c \in Owned(u) \cap Request})
    BY <1>1 DEF UsageInv, LimitsInv, TurnLimit, CampaignLimit, TurnUses, CampaignUses
  <2>3. \A c \in live : \/ Cardinality(UserTurns(c)) <= MaxTurns
                        \/ Overlap({<<row.by, "exchange">> : row \in UserTurns(c)})
    BY <1>1, <2>1 DEF UsageInv, LimitsInv, ExchangeLimit, ExchangeUses
  <2> QED  BY <1>1, <2>2, <2>3 DEF UsageInv, LimitsInv, CallLimits, OverdrawnOnlyByOverlap
<1> QED  BY <1>1, Invariance, UsageInvariance, PTL
=============================================================================
