-------------------------- MODULE MemoryLayersProofs --------------------------
(***************************************************************************)
(* Theorems about MemoryLayers, for every number of turns at once and every *)
(* setting: no bound on how long the campaign is, how often summaries and   *)
(* reflections are due or what fails.                                       *)
(***************************************************************************)
EXTENDS MemoryLayers, FiniteSetTheorems, WellFoundedInduction, TLAPS

-----------------------------------------------------------------------------
(* Finite sets of numbers.                                                   *)

\* The largest element there is.
HasMax(S) == \E m \in S : \A x \in S : x <= m

LEMMA FiniteHasMax ==
  ASSUME NEW S, S \subseteq Nat, IsFiniteSet(S), S # {}
  PROVE  HasMax(S)
<1> SUFFICES ASSUME ~HasMax(S) PROVE FALSE
  OBVIOUS
<1> DEFINE Without == {U \in SUBSET S : U # {} /\ ~HasMax(U)}
<1>1. S \in Without
  OBVIOUS
<1>2. IsWellFoundedOn(StrictSubsetOrdering(S), SUBSET S)
  BY FS_StrictSubsetOrderingWellFounded, FS_FiniteSubsetsOfFinite
<1>3. PICK U \in Without : \A V \in Without : ~ (<<V, U>> \in StrictSubsetOrdering(S))
  <2>1. Without \subseteq SUBSET S /\ Without # {}
    BY <1>1
  <2> HIDE DEF Without
  <2> QED  BY <1>2, <2>1, WFMin
<1>4. PICK x \in U : TRUE
  OBVIOUS
<1>5. U \ {x} # {}
  <2> SUFFICES ASSUME U = {x} PROVE FALSE
    BY <1>4
  <2>1. x \in Nat
    BY <1>4
  <2>2. HasMax({x})
    BY <2>1 DEF HasMax
  <2> QED  BY <2>2
<1>6. HasMax(U \ {x})
  <2> SUFFICES ASSUME ~HasMax(U \ {x}) PROVE FALSE
    OBVIOUS
  <2>1. U \ {x} \in Without
    BY <1>5
  <2>2. <<U \ {x}, U>> \in StrictSubsetOrdering(S)
    BY <1>4 DEF StrictSubsetOrdering
  <2> QED  BY <1>3, <2>1, <2>2
<1>7. PICK m \in U \ {x} : \A y \in U \ {x} : y <= m
  BY <1>6 DEF HasMax
<1>8. m \in Nat /\ x \in Nat /\ U \subseteq Nat
  BY <1>4
<1>9. CASE x <= m
  BY <1>3, <1>7, <1>8, <1>9 DEF HasMax
<1>10. CASE m <= x
  <2>1. \A y \in U : y <= x
    BY <1>7, <1>8, <1>10
  <2> QED  BY <1>3, <1>4, <2>1 DEF HasMax
<1> QED  BY <1>8, <1>9, <1>10

LEMMA MaxBounds ==
  ASSUME NEW S, S \subseteq Nat, IsFiniteSet(S), S # {}
  PROVE  /\ Max(S) \in Nat
         /\ \A x \in S : x <= Max(S)
<1>1. PICK m \in S : \A x \in S : x <= m
  BY FiniteHasMax DEF HasMax
<1>2. \A x \in S : m >= x
  BY <1>1
<1>3. Max(S) \in S /\ \A x \in S : Max(S) >= x
  BY <1>2 DEF Max
<1> QED  BY <1>3

\* The values of a function on the requests.
LEMMA FiniteImage ==
  ASSUME NEW f, f \in [Request -> Nat]
  PROVE  IsFiniteSet({f[r] : r \in Request})
<1> DEFINE T == {f[r] : r \in Request}
<1>1. IsFiniteSet(Request)
  BY MemoryAssumption
<1>2. f \in Surjection(Request, T)
  BY DEF Surjection
<1> HIDE DEF T
<1>3. IsFiniteSet(T)
  BY <1>1, <1>2, FS_Surjection
<1> QED  BY <1>3 DEF T

\* The next created_at is later than all there are.
LEMMA NowIsLater ==
  ASSUME TypeOK
  PROVE  /\ Now \in Nat \ {0}
         /\ \A r \in Request : tx[r].reply < Now /\ tx[r].summary < Now
<1> DEFINE R == {[r \in Request |-> tx[r].reply][q] : q \in Request}
           S == {[r \in Request |-> tx[r].summary][q] : q \in Request}
           T == {0} \cup UNION {{tx[r].reply, tx[r].summary} : r \in Request}
<1>1. \A r \in Request : tx[r].reply \in Nat /\ tx[r].summary \in Nat
  BY DEF TypeOK, Tx
<1>2. IsFiniteSet(R) /\ IsFiniteSet(S)
  <2>1. /\ [r \in Request |-> tx[r].reply] \in [Request -> Nat]
        /\ [r \in Request |-> tx[r].summary] \in [Request -> Nat]
    BY <1>1
  <2> QED  BY <2>1, FiniteImage
<1>3. T = R \cup S \cup {0}
  OBVIOUS
<1>4. IsFiniteSet(T)
  <2> HIDE DEF R, S, T
  <2>1. IsFiniteSet(R \cup S)
    BY <1>2, FS_Union
  <2> QED  BY <1>3, <2>1, FS_AddElement
<1>5. T \subseteq Nat /\ T # {}
  BY <1>1
<1>6. Max(T) \in Nat /\ \A x \in T : x <= Max(T)
  <2> HIDE DEF T
  <2> QED  BY <1>4, <1>5, MaxBounds
<1>7. Now = 1 + Max(T)
  BY DEF Now
<1>8. \A r \in Request : tx[r].reply \in T /\ tx[r].summary \in T
  OBVIOUS
<1> HIDE DEF T
<1> QED  BY <1>1, <1>6, <1>7, <1>8
-----------------------------------------------------------------------------
(* Types.                                                                   *)

LEMMA NothingTypes == NoTx \in Tx /\ NothingSeen \in [Layer -> SUBSET Request]
<1>1. NoTx \in Tx
  BY DEF NoTx, Tx
<1> QED  BY <1>1 DEF NothingSeen

LEMMA LabelTypes ==
  \A layer \in Layer : {DueAt(layer), AskAt(layer), WaitAt(layer), After(layer)} \subseteq Labels
BY DEF Layer, DueAt, AskAt, WaitAt, After, Labels, Maintenance

LEMMA RollbackTypes ==
  ASSUME TypeOK, NEW r \in Request, NEW code \in {"ok", "error", "lost"}, Rollback(r, code)
  PROVE  TypeOK'
BY NothingTypes DEF Rollback, Ends, TypeOK, Labels

\* The fields of a transaction after a step of its request.
LEMMA TxFields ==
  ASSUME TypeOK, NEW r \in Request
  PROVE  /\ tx[r] \in Tx
         /\ tx[r].memories \subseteq Memory
         /\ tx[r].covers \subseteq Request
         /\ tx[r].log \subseteq Layer
         /\ tx[r].reply \in Nat /\ tx[r].summary \in Nat
BY DEF TypeOK, Tx

LEMMA CoversTypes ==
  ASSUME TypeOK, NEW r \in Request
  PROVE  /\ Visible(r) \subseteq Request
         /\ \A n : Newest(n) \subseteq Request
         /\ PreviousCovers(r) \subseteq Request
<1>1. stored \subseteq Request
  BY DEF TypeOK
<1>2. Visible(r) \subseteq Request /\ \A n : Newest(n) \subseteq Request
  BY <1>1 DEF Visible, Newest
<1>3. \A q \in Latest(r) : tx[q].covers \subseteq Request
  BY <1>2, TxFields DEF Latest, Summaries
<1> QED  BY <1>2, <1>3 DEF PreviousCovers

\* The steps that write.
LEMMA WriteTypes ==
  ASSUME TypeOK, NEW r \in Request,
         \/ Narrate(r) \/ Summarized(r) \/ Reflected(r)
         \/ \E layer \in Layer : Ask(r, layer) \/ CallFails(r, layer)
  PROVE  tx' \in [Request -> Tx]
<1>1. \A t \in Tx : tx' = [tx EXCEPT ![r] = t] => tx' \in [Request -> Tx]
  BY DEF TypeOK
<1>2. CASE Narrate(r)
  <2> DEFINE covers == {r} \cup Newest(Window - 1)
             leaves == Leaves(Deed[r])
             new == [tx[r] EXCEPT !.reply = Now, !.memories = leaves, !.covers = covers]
  <2>1. covers \subseteq Request
    BY CoversTypes
  <2>2. leaves \subseteq Memory
    <3>1. Deed[r] \in {"unparsed", "failed", "done", "changed"}
      BY MemoryAssumption
    <3> QED  BY <3>1 DEF Leaves, Memory
  <2>3. Now \in Nat
    BY NowIsLater
  <2>4. tx' = [tx EXCEPT ![r] = new]
    <3>1. tx \in [Request -> Tx]
      BY DEF TypeOK
    <3>2. tx' = [tx EXCEPT ![r].reply = Now, ![r].memories = Leaves(Deed[r]),
                           ![r].covers = {r} \cup Newest(Window - 1)]
      BY <1>2 DEF Narrate
    <3> QED  BY <3>1, <3>2
  <2> HIDE DEF covers, leaves
  <2>5. \A t \in Tx : [t EXCEPT !.reply = Now, !.memories = leaves, !.covers = covers] \in Tx
    BY <2>1, <2>2, <2>3 DEF Tx
  <2>6. new \in Tx
    BY <2>5, TxFields
  <2> QED  BY <1>1, <2>4, <2>6
<1>3. CASE Summarized(r)
  <2> DEFINE log == tx[r].log \cup {"summary"}
             new == [tx[r] EXCEPT !.log = log, !.summary = Now]
  <2>1. tx \in [Request -> Tx]
    BY DEF TypeOK
  <2>2. tx' = [tx EXCEPT ![r].log = @ \cup {"summary"}, ![r].summary = Now]
    BY <1>3 DEF Summarized
  <2>3. tx' = [tx EXCEPT ![r] = new]
    BY <2>1, <2>2
  <2>4. log \subseteq Layer /\ Now \in Nat
    BY NowIsLater, TxFields DEF Layer
  <2> HIDE DEF log
  <2>5. \A t \in Tx : [t EXCEPT !.log = log, !.summary = Now] \in Tx
    BY <2>4 DEF Tx
  <2>6. new \in Tx
    BY <2>5, TxFields
  <2> QED  BY <1>1, <2>3, <2>6
<1>4. CASE Reflected(r)
  <2> DEFINE log == tx[r].log \cup {"reflection"}
             memories == tx[r].memories \cup {"reflection"}
             new == [tx[r] EXCEPT !.log = log, !.memories = memories]
  <2>1. tx \in [Request -> Tx]
    BY DEF TypeOK
  <2>2. tx' = [tx EXCEPT ![r].log = @ \cup {"reflection"}, ![r].memories = @ \cup {"reflection"}]
    BY <1>4 DEF Reflected
  <2>3. tx' = [tx EXCEPT ![r] = new]
    BY <2>1, <2>2
  <2>4. log \subseteq Layer /\ memories \subseteq Memory
    BY TxFields DEF Layer, Memory
  <2> HIDE DEF log, memories
  <2>5. \A t \in Tx : [t EXCEPT !.log = log, !.memories = memories] \in Tx
    BY <2>4 DEF Tx
  <2>6. new \in Tx
    BY <2>5, TxFields
  <2> QED  BY <1>1, <2>3, <2>6
<1>5. ASSUME NEW layer \in Layer, Ask(r, layer) PROVE tx' \in [Request -> Tx]
  <2> DEFINE covers == IF layer = "summary" THEN tx[r].covers \cup PreviousCovers(r)
                                            ELSE tx[r].covers
             new == [tx[r] EXCEPT !.covers = covers]
  <2>1. covers \subseteq Request
    BY TxFields, CoversTypes
  <2>2. tx' = [tx EXCEPT ![r] = new]
    BY <1>5 DEF Ask, TypeOK
  <2> HIDE DEF covers
  <2>3. new \in Tx
    BY <2>1, TxFields DEF Tx
  <2> QED  BY <1>1, <2>2, <2>3
<1>6. ASSUME NEW layer \in Layer, CallFails(r, layer) PROVE tx' \in [Request -> Tx]
  <2> DEFINE new == [tx[r] EXCEPT !.log = @ \cup {layer}]
  <2>1. tx' = [tx EXCEPT ![r] = new]
    BY <1>6 DEF CallFails, TypeOK
  <2>2. new \in Tx
    BY TxFields DEF Tx
  <2> QED  BY <1>1, <2>1, <2>2
<1> QED  BY <1>2, <1>3, <1>4, <1>5, <1>6

LEMMA TypesStep ==
  ASSUME TypeOK, [Next]_vars
  PROVE  TypeOK'
<1>1. ASSUME NEW r \in Request, NEW from, NEW to \in Labels, Goto(r, from, to)
      PROVE  pc' \in [Request -> Labels]
  BY <1>1 DEF Goto, TypeOK
<1>2. ASSUME NEW r \in Request, Narrate(r) \/ Summarized(r) \/ Reflected(r) PROVE TypeOK'
  <2>1. tx' \in [Request -> Tx]
    BY <1>2, WriteTypes
  <2>2. pc' \in [Request -> Labels]
    BY <1>1, <1>2, LabelTypes DEF Narrate, Summarized, Reflected, Labels, Maintenance, Layer
  <2> QED  BY <1>2, <2>1, <2>2 DEF Narrate, Summarized, Reflected, TypeOK
<1>3. ASSUME NEW r \in Request, NEW layer \in Layer, Ask(r, layer) \/ CallFails(r, layer)
      PROVE  TypeOK'
  <2>1. tx' \in [Request -> Tx]
    BY <1>3, WriteTypes
  <2>2. pc' \in [Request -> Labels]
    BY <1>1, <1>3, LabelTypes DEF Ask, CallFails
  <2> QED  BY <1>3, <2>1, <2>2 DEF Ask, CallFails, TypeOK
<1>4. ASSUME NEW r \in Request, NEW layer \in Layer, Due(r, layer) PROVE TypeOK'
  <2>1. saw' \in [Request -> [Layer -> SUBSET Request]]
    BY <1>4, CoversTypes DEF Due, TypeOK
  <2>2. pc' \in [Request -> Labels]
    BY <1>1, <1>4, LabelTypes DEF Due
  <2> QED  BY <1>4, <2>1, <2>2 DEF Due, TypeOK
<1>5. ASSUME NEW r \in Request, StatementFails(r) \/ \E layer \in Layer : Refused(r, layer)
      PROVE  TypeOK'
  <2>1. trouble' \in [Request -> SUBSET {"budget", "statement"}]
    BY <1>5 DEF StatementFails, Refused, TypeOK
  <2>2. pc' \in [Request -> Labels]
    BY <1>1, <1>5 DEF StatementFails, Refused, Labels
  <2> QED  BY <1>5, <2>1, <2>2 DEF StatementFails, Refused, TypeOK
<1>6. ASSUME NEW r \in Request, NEW code \in {"ok", "error", "lost"}, Rollback(r, code)
      PROVE  TypeOK'
  BY <1>6, RollbackTypes
<1>7. ASSUME NEW r \in Request, Finish(r) PROVE TypeOK'
  BY <1>6, <1>7 DEF Finish, Ends, TypeOK, Labels
<1>8. CASE UNCHANGED vars
  BY <1>8 DEF vars, TypeOK
<1> QED  BY <1>2, <1>3, <1>4, <1>5, <1>6, <1>7, <1>8
     DEF Next, Step, Crash, NarratorFails, Idle

-----------------------------------------------------------------------------
(* Where a request stands says what it has counted and tried.               *)

\* Labels behind a layer's count, and behind its attempt.
PastDue(layer) ==
  IF layer = "summary"
  THEN {"summary_ask", "summary", "reflection_due", "reflection_ask", "reflection"}
  ELSE {"reflection_ask", "reflection"}
PastTry(layer) ==
  IF layer = "summary" THEN {"reflection_due", "reflection_ask", "reflection"} ELSE {}
BeforeSummary == {"narrator", "summary_due", "summary_ask", "summary"}

\* Its maintenance went to its end, as it does in every stored turn.
Settled(r) == (pc[r] = "finish" /\ "statement" \notin trouble[r]) \/ r \in stored

Answering(r) ==
  /\ pc[r] = "done" <=> answer[r] # "none"
  /\ r \in stored => pc[r] = "done" /\ "statement" \notin trouble[r]
  /\ "statement" \in trouble[r] => pc[r] \in {"finish", "done"}
  /\ answer[r] = "ok" => r \in stored \/ (r \notin Keyed /\ "statement" \in trouble[r])

Counting(r) == \A layer \in Layer :
  /\ saw[r][layer] \subseteq stored \cup {r}
  /\ saw[r][layer] # {} => r \in saw[r][layer]
  /\ pc[r] \in PastDue(layer) \/ Settled(r)
       => saw[r][layer] # {} \/ (layer = "reflection" /\ "budget" \in trouble[r])

Multiple(n, layer) == n % Every(layer) = 0
Tried(r, layer) == Multiple(before + Cardinality(saw[r][layer]), layer)
                     => layer \in tx[r].log \/ "budget" \in trouble[r]
Trying(r) ==
  /\ \A layer \in Layer : pc[r] \in PastTry(layer) \/ Settled(r) => Tried(r, layer)
  /\ pc[r] \in BeforeSummary => tx[r].summary = 0

Phase(r) == Answering(r) /\ Counting(r) /\ Trying(r)
PhaseInv == \A r \in Request : Phase(r)

\* A step is of one request, which is not stored; at most it is stored by it.
LEMMA OthersStay ==
  ASSUME TypeOK, PhaseInv, NEW r \in Request, Step(r) \/ Crash(r)
  PROVE  /\ before' = before
         /\ r \notin stored /\ pc[r] # "done"
         /\ stored' = stored \/ (stored' = stored \cup {r} /\ Finish(r))
         /\ \A q \in Request \ {r} : /\ pc'[q] = pc[q] /\ tx'[q] = tx[q]
                                     /\ answer'[q] = answer[q]
                                     /\ trouble'[q] = trouble[q] /\ saw'[q] = saw[q]
<1> DEFINE Same == /\ before' = before
                   /\ stored' = stored \/ (stored' = stored \cup {r} /\ Finish(r))
                   /\ \A q \in Request \ {r} : /\ pc'[q] = pc[q] /\ tx'[q] = tx[q]
                                               /\ answer'[q] = answer[q]
                                               /\ trouble'[q] = trouble[q] /\ saw'[q] = saw[q]
<1>1. pc[r] # "done"
  BY DEF Step, Crash, Narrate, NarratorFails, Due, Refused, Ask, Summarized, Reflected,
     CallFails, StatementFails, Finish, Goto, DueAt, AskAt, WaitAt, Maintenance
<1>2. r \notin stored
  BY <1>1 DEF PhaseInv, Phase, Answering
<1> SUFFICES Same
  BY <1>1, <1>2
<1>3. ASSUME NEW code, Rollback(r, code) PROVE Same
  BY <1>3 DEF Rollback, Ends, TypeOK
<1>4. CASE Narrate(r) \/ Summarized(r) \/ Reflected(r)
  BY <1>4 DEF Narrate, Summarized, Reflected, Goto, TypeOK
<1>5. ASSUME NEW layer \in Layer, Due(r, layer) \/ Refused(r, layer) PROVE Same
  BY <1>5 DEF Due, Refused, Goto, TypeOK
<1>6. ASSUME NEW layer \in Layer, Ask(r, layer) \/ CallFails(r, layer) PROVE Same
  BY <1>6 DEF Ask, CallFails, Goto, TypeOK
<1>7. CASE StatementFails(r)
  BY <1>7 DEF StatementFails, Goto, TypeOK
<1>8. CASE Finish(r)
  <2>1. CASE \E code \in {"ok", "error"} : Rollback(r, code)
    BY <1>3, <2>1
  <2>2. CASE Ends(r, "ok") /\ stored' = stored \cup {r} /\ UNCHANGED <<tx, saw>>
    BY <1>8, <2>2 DEF Ends, TypeOK
  <2> QED  BY <1>8, <2>1, <2>2 DEF Finish
<1>9. CASE NarratorFails(r) \/ Crash(r)
  BY <1>3, <1>9 DEF NarratorFails, Crash
<1> QED  BY <1>4, <1>5, <1>6, <1>7, <1>8, <1>9 DEF Step

LEMMA PhaseStays ==
  ASSUME NEW q \in Request, Phase(q), before' = before,
         stored \subseteq stored', q \in stored' => q \in stored,
         pc'[q] = pc[q], tx'[q] = tx[q], answer'[q] = answer[q],
         trouble'[q] = trouble[q], saw'[q] = saw[q]
  PROVE  Phase(q)'
<1>1. Answering(q)'
  BY DEF Phase, Answering
<1>2. Settled(q)' <=> Settled(q)
  BY DEF Settled
<1>3. Counting(q)'
  BY <1>2 DEF Phase, Counting
<1>4. \A layer : Tried(q, layer)' <=> Tried(q, layer)
  BY DEF Tried, Multiple, Every
<1>5. Trying(q)'
  BY <1>2, <1>4 DEF Phase, Trying
<1> QED  BY <1>1, <1>3, <1>5 DEF Phase

\* A request that is rolled back.
LEMMA RollbackPhase ==
  ASSUME TypeOK, PhaseInv, NEW r \in Request, NEW code \in {"ok", "error", "lost"},
         Rollback(r, code), Step(r) \/ Crash(r),
         code = "ok" => r \notin Keyed /\ "statement" \in trouble[r]
  PROVE  Phase(r)'
<1>1. /\ pc'[r] = "done" /\ answer'[r] = code /\ trouble'[r] = trouble[r]
      /\ stored' = stored /\ tx'[r] = NoTx /\ saw'[r] = NothingSeen
  BY DEF Rollback, Ends, TypeOK
<1>2. r \notin stored
  BY OthersStay
<1>3. ~Settled(r)'
  BY <1>1, <1>2 DEF Settled
<1>4. Answering(r)'
  BY <1>1, <1>2 DEF Answering
<1>5. \A layer \in Layer : saw'[r][layer] = {} /\ "done" \notin PastDue(layer) \cup PastTry(layer)
  BY <1>1 DEF NothingSeen, PastDue, PastTry
<1>6. Counting(r)'
  BY <1>1, <1>3, <1>5 DEF Counting
<1>7. Trying(r)'
  BY <1>1, <1>3, <1>5 DEF Trying, BeforeSummary
<1> QED  BY <1>4, <1>6, <1>7 DEF Phase

LEMMA CountPhase ==
  ASSUME TypeOK, PhaseInv, NEW r \in Request, NEW layer \in Layer, Due(r, layer)
  PROVE  Phase(r)'
<1>0. Phase(r) /\ r \notin stored /\ pc[r] # "done"
  BY OthersStay DEF PhaseInv, Step
<1>1. /\ pc[r] = DueAt(layer)
      /\ pc'[r] = IF IsDue(r, layer) THEN AskAt(layer) ELSE After(layer)
      /\ before' = before /\ stored' = stored /\ tx' = tx
      /\ answer' = answer /\ trouble' = trouble
  BY DEF Due, Goto, TypeOK
<1>2. \A l \in Layer : saw'[r][l] = IF l = layer THEN stored \cup {r} ELSE saw[r][l]
  BY DEF Due, TypeOK, Visible
<1>3. IsDue(r, layer) <=> Multiple(before + Cardinality(stored \cup {r}), layer)
  BY DEF IsDue, CampaignTurns, Visible, Multiple
<1>4. Answering(r)'
  BY <1>0, <1>1 DEF Phase, Answering, DueAt, AskAt, After
<1>5. ~IsDue(r, layer) => Tried(r, layer)'
  BY <1>1, <1>2, <1>3 DEF Tried, Multiple, Every
<1>6. \A l \in Layer \ {layer} : Tried(r, l)' <=> Tried(r, l)
  BY <1>1, <1>2 DEF Tried, Multiple, Every
<1>7. CASE layer = "summary"
  <2>1. pc[r] = "summary_due" /\ pc'[r] \in {"summary_ask", "reflection_due"}
    BY <1>1, <1>7 DEF DueAt, AskAt, After
  <2>2. Counting(r)'
    BY <1>0, <1>1, <1>2, <1>7, <2>1 DEF Phase, Counting, PastDue, Settled, Layer
  <2>3. Trying(r)'
    <3>1. pc'[r] = "reflection_due" => ~IsDue(r, layer)
      BY <1>1, <1>7 DEF AskAt
    <3> QED  BY <1>0, <1>1, <1>5, <1>7, <2>1, <3>1
             DEF Phase, Trying, PastTry, Settled, Layer, BeforeSummary
  <2> QED  BY <1>4, <2>2, <2>3 DEF Phase
<1>8. CASE layer = "reflection"
  <2>1. pc[r] = "reflection_due" /\ pc'[r] \in {"reflection_ask", "finish"}
    BY <1>1, <1>8 DEF DueAt, AskAt, After
  <2>2. Counting(r)'
    BY <1>0, <1>1, <1>2, <1>8, <2>1 DEF Phase, Counting, PastDue, Settled, Layer
  <2>3. Trying(r)'
    <3>1. pc'[r] = "finish" => ~IsDue(r, layer)
      BY <1>1, <1>8 DEF AskAt
    <3>2. Tried(r, "summary")
      BY <1>0, <2>1 DEF Phase, Trying, PastTry, Layer
    <3> QED  BY <1>0, <1>1, <1>5, <1>6, <1>8, <2>1, <3>1, <3>2
             DEF Trying, PastTry, Settled, Layer, BeforeSummary
  <2> QED  BY <1>4, <2>2, <2>3 DEF Phase
<1> QED  BY <1>7, <1>8 DEF Layer

\* The log of a layer's call is what the attempt leaves.
LEMMA CallPhase ==
  ASSUME TypeOK, PhaseInv, NEW r \in Request, NEW layer \in Layer,
         pc[r] = WaitAt(layer), pc' = [pc EXCEPT ![r] = After(layer)],
         before' = before, stored' = stored, answer' = answer,
         trouble' = trouble, saw' = saw,
         tx'[r].log = tx[r].log \cup {layer}
  PROVE  Phase(r)'
<1>0. Phase(r) /\ r \notin stored
  BY DEF PhaseInv, Phase, Answering, WaitAt
<1>1. pc'[r] = After(layer)
  BY DEF TypeOK
<1>2. Answering(r)'
  BY <1>0, <1>1 DEF Phase, Answering, WaitAt, After
<1>3. Tried(r, layer)'
  BY DEF Tried
<1>4. \A l : Tried(r, l) => Tried(r, l)'
  BY DEF Tried, Multiple, Every
<1>5. CASE layer = "summary"
  <2>1. pc[r] = "summary" /\ pc'[r] = "reflection_due"
    BY <1>1, <1>5 DEF WaitAt, After
  <2>2. Counting(r)'
    BY <1>0, <2>1 DEF Phase, Counting, PastDue, Settled, Layer
  <2>3. Trying(r)'
    BY <1>0, <1>3, <1>5, <2>1 DEF Trying, PastTry, Settled, Layer, BeforeSummary
  <2> QED  BY <1>2, <2>2, <2>3 DEF Phase
<1>6. CASE layer = "reflection"
  <2>1. pc[r] = "reflection" /\ pc'[r] = "finish"
    BY <1>1, <1>6 DEF WaitAt, After
  <2>2. Counting(r)'
    BY <1>0, <2>1 DEF Phase, Counting, PastDue, Settled, Layer
  <2>3. Trying(r)'
    BY <1>0, <1>3, <1>4, <1>6, <2>1 DEF Phase, Trying, PastTry, Settled, Layer, BeforeSummary
  <2> QED  BY <1>2, <2>2, <2>3 DEF Phase
<1> QED  BY <1>5, <1>6 DEF Layer

LEMMA StepPhase ==
  ASSUME TypeOK, PhaseInv, NEW r \in Request, Step(r) \/ Crash(r)
  PROVE  Phase(r)'
<1>0. Phase(r) /\ r \notin stored /\ pc[r] # "done"
  BY OthersStay DEF PhaseInv
<1>1. CASE NarratorFails(r) \/ Crash(r)
  BY <1>1, RollbackPhase DEF NarratorFails, Crash, Step
<1>2. CASE Narrate(r)
  <2>1. /\ pc[r] = "narrator" /\ pc'[r] = "summary_due"
        /\ before' = before /\ stored' = stored /\ answer' = answer
        /\ trouble' = trouble /\ saw' = saw
    BY <1>2 DEF Narrate, Goto, TypeOK
  <2>2. tx'[r].summary = 0
    BY <1>0, <1>2, <2>1 DEF Narrate, TypeOK, Tx, Phase, Trying, BeforeSummary
  <2>3. Answering(r)'
    BY <1>0, <2>1 DEF Phase, Answering
  <2>4. Counting(r)'
    BY <1>0, <2>1 DEF Phase, Counting, PastDue, Settled
  <2>5. Trying(r)'
    BY <1>0, <2>1, <2>2 DEF Trying, PastTry, Settled
  <2> QED  BY <2>3, <2>4, <2>5 DEF Phase
<1>3. ASSUME NEW layer \in Layer, Due(r, layer) PROVE Phase(r)'
  BY <1>3, CountPhase
<1>4. ASSUME NEW layer \in Layer, Refused(r, layer) PROVE Phase(r)'
  <2>1. /\ pc[r] = AskAt(layer) /\ pc'[r] = "finish"
        /\ before' = before /\ stored' = stored /\ answer' = answer
        /\ tx' = tx /\ saw' = saw /\ trouble'[r] = trouble[r] \cup {"budget"}
    BY <1>4 DEF Refused, Goto, TypeOK
  <2>2. Answering(r)'
    BY <1>0, <2>1 DEF Phase, Answering, AskAt
  <2>3. saw[r]["summary"] # {}
    BY <1>0, <2>1 DEF Phase, Counting, PastDue, AskAt, Layer
  <2>4. Counting(r)'
    BY <1>0, <2>1, <2>3 DEF Phase, Counting, PastDue, Layer
  <2>5. \A l : Tried(r, l)'
    BY <2>1 DEF Tried
  <2>6. Trying(r)'
    BY <2>1, <2>5 DEF Trying, BeforeSummary
  <2> QED  BY <2>2, <2>4, <2>6 DEF Phase
<1>5. ASSUME NEW layer \in Layer, Ask(r, layer) PROVE Phase(r)'
  <2>1. /\ pc[r] = AskAt(layer) /\ pc'[r] = WaitAt(layer)
        /\ before' = before /\ stored' = stored /\ answer' = answer
        /\ saw' = saw /\ trouble' = trouble
    BY <1>5 DEF Ask, Goto, TypeOK
  <2>2. tx'[r].summary = tx[r].summary /\ tx'[r].log = tx[r].log
    BY <1>5 DEF Ask, TypeOK, Tx
  <2>3. Answering(r)'
    BY <1>0, <2>1 DEF Phase, Answering, WaitAt, AskAt
  <2>4. Counting(r)'
    BY <1>0, <2>1 DEF Phase, Counting, PastDue, AskAt, WaitAt, Settled, Layer
  <2>5. \A l : Tried(r, l)' <=> Tried(r, l)
    BY <2>1, <2>2 DEF Tried, Multiple, Every
  <2>6. Trying(r)'
    BY <1>0, <2>1, <2>2, <2>5
       DEF Phase, Trying, PastTry, AskAt, WaitAt, Settled, Layer, BeforeSummary
  <2> QED  BY <2>3, <2>4, <2>6 DEF Phase
<1>6. CASE Summarized(r)
  <2>1. tx'[r].log = tx[r].log \cup {"summary"}
    BY <1>6 DEF Summarized, TypeOK, Tx
  <2> QED  BY <1>6, <2>1, CallPhase DEF Summarized, Goto, WaitAt, Layer
<1>7. CASE Reflected(r)
  <2>1. tx'[r].log = tx[r].log \cup {"reflection"}
    BY <1>7 DEF Reflected, TypeOK, Tx
  <2> QED  BY <1>7, <2>1, CallPhase DEF Reflected, Goto, WaitAt, Layer
<1>8. ASSUME NEW layer \in Layer, CallFails(r, layer) PROVE Phase(r)'
  <2>1. tx'[r].log = tx[r].log \cup {layer}
    BY <1>8 DEF CallFails, TypeOK, Tx
  <2> QED  BY <1>8, <2>1, CallPhase DEF CallFails, Goto
<1>9. CASE StatementFails(r)
  <2>1. /\ pc'[r] = "finish" /\ stored' = stored /\ answer' = answer
        /\ saw' = saw /\ "statement" \in trouble'[r]
    BY <1>9 DEF StatementFails, Goto, TypeOK
  <2>2. ~Settled(r)'
    BY <1>0, <2>1 DEF Settled
  <2>3. Answering(r)'
    BY <1>0, <2>1 DEF Phase, Answering
  <2>4. Counting(r)'
    BY <1>0, <2>1, <2>2 DEF Phase, Counting, PastDue
  <2>5. Trying(r)'
    BY <2>1, <2>2 DEF Trying, PastTry, BeforeSummary
  <2> QED  BY <2>3, <2>4, <2>5 DEF Phase
<1>10. CASE Finish(r)
  <2>1. CASE Rollback(r, "error")
    BY <2>1, RollbackPhase
  <2>2. CASE Rollback(r, "ok") /\ Completes(r) /\ "statement" \in trouble[r]
    BY <2>2, RollbackPhase DEF Completes
  <2>3. CASE /\ Ends(r, "ok") /\ stored' = stored \cup {r} /\ UNCHANGED <<tx, saw>>
             /\ "statement" \notin trouble[r]
    <3>1. /\ pc[r] = "finish" /\ pc'[r] = "done" /\ answer'[r] = "ok"
          /\ before' = before /\ trouble' = trouble /\ tx' = tx /\ saw' = saw
          /\ r \in stored'
      BY <1>10, <2>3 DEF Finish, Ends, TypeOK
    <3>2. Settled(r) /\ Settled(r)'
      BY <2>3, <3>1 DEF Settled
    <3>3. Answering(r)'
      BY <2>3, <3>1 DEF Answering
    <3>4. Counting(r)'
      BY <1>0, <2>3, <3>1, <3>2 DEF Phase, Counting
    <3>5. \A l : Tried(r, l)' <=> Tried(r, l)
      BY <3>1 DEF Tried, Multiple, Every
    <3>6. Trying(r)'
      BY <1>0, <3>1, <3>2, <3>5 DEF Phase, Trying, BeforeSummary
    <3> QED  BY <3>3, <3>4, <3>6 DEF Phase
  <2> QED  BY <1>10, <2>1, <2>2, <2>3 DEF Finish
<1> QED  BY <1>1, <1>2, <1>3, <1>4, <1>5, <1>6, <1>7, <1>8, <1>9, <1>10 DEF Step

LEMMA PhaseStep ==
  ASSUME TypeOK, PhaseInv, Next
  PROVE  PhaseInv'
<1>1. ASSUME NEW r \in Request, Step(r) \/ Crash(r) PROVE PhaseInv'
  <2>1. Phase(r)'
    BY <1>1, StepPhase
  <2>2. ASSUME NEW q \in Request \ {r} PROVE Phase(q)'
    BY <1>1, <2>2, OthersStay, PhaseStays DEF PhaseInv
  <2> QED  BY <2>1, <2>2 DEF PhaseInv
<1>2. CASE Idle
  BY <1>2, PhaseStays DEF Idle, vars, PhaseInv
<1> QED  BY <1>1, <1>2 DEF Next

-----------------------------------------------------------------------------
(* A turn counts only turns that were stored, with all that those counted.  *)

OrderInv ==
  \A r \in Request : \A k, layer \in Layer : \A q \in saw[r][k] \ {r} :
    Seen(q, layer) \subseteq saw[r][k] /\ r \notin Seen(q, layer)

\* What a step does to the counts: its request forgets, counts or leaves them.
LEMMA SawSteps ==
  ASSUME TypeOK, NEW r \in Request, Step(r) \/ Crash(r), NEW k \in Layer
  PROVE  saw'[r][k] \in {saw[r][k], {}, stored \cup {r}}
<1> DEFINE Goal == saw'[r][k] \in {saw[r][k], {}, stored \cup {r}}
<1>1. ASSUME NEW code, Rollback(r, code) PROVE Goal
  BY <1>1 DEF Rollback, TypeOK, NothingSeen
<1>2. ASSUME NEW layer \in Layer, Due(r, layer) PROVE Goal
  BY <1>2 DEF Due, TypeOK, Visible
<1>3. CASE saw' = saw
  BY <1>3
<1> QED  BY <1>1, <1>2, <1>3 DEF Step, Crash, Narrate, NarratorFails, Summarized, Reflected,
         StatementFails, Finish, Refused, Ask, CallFails

LEMMA SeenIsCounted ==
  ASSUME PhaseInv, NEW q \in Request, NEW layer \in Layer
  PROVE  Seen(q, layer) \subseteq stored \cup {q}
BY DEF PhaseInv, Phase, Counting, Seen, Layer

LEMMA OrderStep ==
  ASSUME TypeOK, PhaseInv, OrderInv, Next
  PROVE  OrderInv'
<1>1. CASE Idle
  BY <1>1 DEF Idle, vars, OrderInv, Seen
<1>2. ASSUME NEW r \in Request, Step(r) \/ Crash(r) PROVE OrderInv'
  <2>1. r \notin stored /\ \A q \in Request \ {r} : saw'[q] = saw[q]
    BY <1>2, OthersStay
  <2>2. \A q \in Request \ {r} : \A layer : Seen(q, layer)' = Seen(q, layer)
    BY <2>1 DEF Seen
  <2> SUFFICES ASSUME NEW p \in Request, NEW k \in Layer, NEW layer \in Layer,
                      NEW q \in saw'[p][k] \ {p}
               PROVE  Seen(q, layer)' \subseteq saw'[p][k] /\ p \notin Seen(q, layer)'
    BY DEF OrderInv
  <2>3. saw[p][k] \subseteq stored \cup {p} /\ stored \subseteq Request
    BY DEF PhaseInv, Phase, Counting, TypeOK
  <2>4. CASE saw'[p][k] = saw[p][k]
    <3>1. q \in stored /\ q # r
      BY <2>1, <2>3, <2>4
    <3> QED  BY <2>2, <2>3, <2>4, <3>1 DEF OrderInv
  <2>5. CASE p = r /\ saw'[p][k] = stored \cup {r}
    <3>1. q \in stored /\ q # r
      BY <2>5
    <3>2. Seen(q, layer) \subseteq stored
      BY <2>3, <3>1, SeenIsCounted
    <3> QED  BY <2>1, <2>2, <2>3, <2>5, <3>1, <3>2
  <2>6. saw'[p][k] = saw[p][k] \/ (p = r /\ saw'[p][k] \in {{}, stored \cup {r}})
    BY <1>2, <2>1, SawSteps
  <2> QED  BY <2>4, <2>5, <2>6
<1> QED  BY <1>1, <1>2 DEF Next

-----------------------------------------------------------------------------
(* A summary is made from all that the summaries it counted were made from. *)

OneSummaryATime ==
  \A p, q \in Request : p # q /\ tx[p].summary = tx[q].summary => tx[p].summary = 0

Covered(p, q) == tx[p].covers \subseteq tx[q].covers \/ Overlapped("summary")
BuiltOn(q) == \A p \in saw[q]["summary"] \ {q} : tx[p].summary # 0 =>
  /\ tx[q].summary # 0 => tx[p].summary < tx[q].summary
  /\ (pc[q] = "summary" \/ tx[q].summary # 0) => Covered(p, q)

BuildInv == /\ OneSummaryATime
            /\ \A q \in Request : BuiltOn(q)
            /\ ForgottenOnlyByOverlap

IInv == TypeOK /\ PhaseInv /\ OrderInv /\ BuildInv

\* What overlapped stays so: a stored turn does not change.
LEMMA OverlapsStay ==
  ASSUME TypeOK, PhaseInv, NEW r \in Request, Step(r) \/ Crash(r), Overlapped("summary")
  PROVE  Overlapped("summary")'
<1>1. /\ r \notin stored /\ stored \subseteq stored' /\ stored \subseteq Request
      /\ \A q \in Request \ {r} : saw'[q] = saw[q]
  BY OthersStay DEF TypeOK
<1>2. PICK p, q \in stored : p \notin Seen(q, "summary") /\ q \notin Seen(p, "summary")
  BY DEF Overlapped
<1>3. Seen(p, "summary")' = Seen(p, "summary") /\ Seen(q, "summary")' = Seen(q, "summary")
  BY <1>1, <1>2 DEF Seen
<1> QED  BY <1>1, <1>2, <1>3 DEF Overlapped

\* What a step does to its request's summary.
LEMMA SummarySteps ==
  ASSUME TypeOK, PhaseInv, NEW r \in Request, Step(r) \/ Crash(r)
  PROVE  \/ tx'[r].summary = 0 /\ (pc'[r] = "summary" => Ask(r, "summary"))
         \/ Summarized(r)
         \/ /\ tx'[r].summary = tx[r].summary /\ tx'[r].covers = tx[r].covers
            /\ saw'[r]["summary"] = saw[r]["summary"] /\ pc'[r] # "summary"
<1> DEFINE Goal ==
       \/ tx'[r].summary = 0 /\ (pc'[r] = "summary" => Ask(r, "summary"))
       \/ Summarized(r)
       \/ /\ tx'[r].summary = tx[r].summary /\ tx'[r].covers = tx[r].covers
          /\ saw'[r]["summary"] = saw[r]["summary"] /\ pc'[r] # "summary"
<1> SUFFICES Goal
  OBVIOUS
<1>0. pc[r] \in BeforeSummary => tx[r].summary = 0
  BY DEF PhaseInv, Phase, Trying
<1>1. ASSUME NEW code, Rollback(r, code) PROVE Goal
  BY <1>1 DEF Rollback, Ends, NoTx, TypeOK
<1>2. CASE Narrate(r)
  <2>1. tx'[r].summary = tx[r].summary /\ pc[r] = "narrator" /\ pc'[r] = "summary_due"
    BY <1>2 DEF Narrate, Goto, TypeOK, Tx
  <2> QED  BY <1>0, <2>1 DEF BeforeSummary
<1>3. ASSUME NEW layer \in Layer, Due(r, layer) PROVE Goal
  <2>1. /\ tx' = tx /\ pc[r] = DueAt(layer) /\ pc'[r] \in {AskAt(layer), After(layer)}
        /\ layer # "summary" => saw'[r]["summary"] = saw[r]["summary"]
    BY <1>3 DEF Due, Goto, TypeOK, Layer
  <2>2. CASE layer = "summary"
    BY <1>0, <2>1, <2>2 DEF DueAt, AskAt, After, BeforeSummary
  <2>3. CASE layer = "reflection"
    BY <2>1, <2>3 DEF AskAt, After
  <2> QED  BY <2>2, <2>3 DEF Layer
<1>4. CASE Ask(r, "summary")
  <2>1. tx'[r].summary = tx[r].summary /\ pc[r] = "summary_ask"
    BY <1>4 DEF Ask, Goto, TypeOK, Tx, AskAt
  <2> QED  BY <1>0, <1>4, <2>1 DEF BeforeSummary
<1>5. CASE Ask(r, "reflection")
  <2>1. tx'[r].summary = tx[r].summary /\ tx'[r].covers = tx[r].covers
    BY <1>5 DEF Ask, TypeOK, Tx
  <2> QED  BY <1>5, <2>1 DEF Ask, Goto, TypeOK, WaitAt
<1>6. CASE Reflected(r)
  <2>1. tx'[r].summary = tx[r].summary /\ tx'[r].covers = tx[r].covers
    BY <1>6 DEF Reflected, TypeOK, Tx
  <2> QED  BY <1>6, <2>1 DEF Reflected, Goto, TypeOK, After
<1>7. ASSUME NEW layer \in Layer, CallFails(r, layer) PROVE Goal
  <2>1. tx'[r].summary = tx[r].summary /\ tx'[r].covers = tx[r].covers
    BY <1>7 DEF CallFails, TypeOK, Tx
  <2> QED  BY <1>7, <2>1 DEF CallFails, Goto, TypeOK, After
<1>8. CASE StatementFails(r) \/ \E layer \in Layer : Refused(r, layer)
  BY <1>8 DEF StatementFails, Refused, Goto, TypeOK
<1>9. CASE Finish(r) /\ UNCHANGED <<tx, saw>>
  <2>1. CASE \E code \in {"ok", "error"} : Ends(r, code)
    BY <1>9, <2>1 DEF Ends, TypeOK
  <2> QED  BY <1>9, <2>1 DEF Finish, Rollback
<1>10. Finish(r) => UNCHANGED <<tx, saw>> \/ \E code \in {"ok", "error"} : Rollback(r, code)
  BY DEF Finish
<1> QED  BY <1>1, <1>2, <1>3, <1>4, <1>5, <1>6, <1>7, <1>8, <1>9, <1>10
         DEF Step, Crash, NarratorFails, Layer

\* The latest summary there is has all that the others have.
LEMMA LatestHasAll ==
  ASSUME IInv, NEW r \in Request, tx[r].summary = 0,
         NEW p \in stored, tx[p].summary # 0, ~Overlapped("summary")
  PROVE  tx[p].covers \subseteq PreviousCovers(r)
<1> DEFINE S == Summaries(r)
           f == [q \in Request |-> tx[q].summary]
           T == {f[q] : q \in Request}
           times == {tx[q].summary : q \in S}
<1>1. stored \subseteq Request /\ \A q \in Request : tx[q].summary \in Nat
  BY TxFields DEF IInv, TypeOK
<1>2. S \subseteq stored /\ p \in S
  BY DEF Summaries, Visible
<1>3. times \subseteq T /\ times \subseteq Nat /\ times # {}
  BY <1>1, <1>2
<1>4. IsFiniteSet(T)
  <2>1. f \in [Request -> Nat]
    BY <1>1
  <2> HIDE DEF f
  <2> QED  BY <2>1, FiniteImage
<1>5. IsFiniteSet(times)
  <2> HIDE DEF T, times
  <2> QED  BY <1>3, <1>4, FS_Subset
<1>6. PICK m \in times : \A x \in times : x <= m
  <2> HIDE DEF times
  <2> QED  BY <1>3, <1>5, FiniteHasMax DEF HasMax
<1>7. PICK q \in S : m = tx[q].summary
  BY <1>6
<1>8. q \in Latest(r)
  BY <1>6, <1>7 DEF Latest
<1>9. tx[p].covers \subseteq tx[q].covers
  <2>1. tx[p].summary <= tx[q].summary
    BY <1>2, <1>6, <1>7
  <2>2. CASE p = q
    BY <2>2
  <2>3. CASE p # q
    <3>1. tx[p].summary # tx[q].summary
      BY <1>1, <1>2, <1>7, <2>3 DEF IInv, BuildInv, OneSummaryATime
    <3>2. 0 < tx[p].summary /\ tx[p].summary < tx[q].summary
      BY <1>1, <1>2, <1>7, <2>1, <3>1
    <3> QED  BY <1>2, <1>7, <3>2 DEF IInv, BuildInv, ForgottenOnlyByOverlap
  <2> QED  BY <2>2, <2>3
<1> QED  BY <1>8, <1>9 DEF PreviousCovers

LEMMA SummaryIsNew ==
  ASSUME TypeOK, NEW r \in Request, Summarized(r)
  PROVE  /\ tx'[r].summary = Now /\ tx'[r].covers = tx[r].covers
         /\ saw' = saw /\ pc[r] = "summary" /\ pc'[r] # "summary"
<1>1. tx'[r].summary = Now /\ tx'[r].covers = tx[r].covers
  BY DEF Summarized, TypeOK, Tx
<1> QED  BY <1>1 DEF Summarized, Goto, TypeOK, After

LEMMA BuiltStep ==
  ASSUME IInv, NEW r \in Request, Step(r) \/ Crash(r), NEW q \in Request
  PROVE  BuiltOn(q)'
<1> USE DEF IInv
<1>1. /\ r \notin stored /\ stored \subseteq Request
      /\ \A p \in Request \ {r} : pc'[p] = pc[p] /\ tx'[p] = tx[p] /\ saw'[p] = saw[p]
  BY OthersStay DEF TypeOK
<1>2. saw[q]["summary"] \subseteq stored \cup {q}
  BY DEF PhaseInv, Phase, Counting, Layer
<1>3. BuiltOn(q)
  BY DEF BuildInv
<1> SUFFICES ASSUME NEW p \in saw'[q]["summary"] \ {q}, tx'[p].summary # 0
             PROVE  /\ tx'[q].summary # 0 => tx'[p].summary < tx'[q].summary
                    /\ (pc'[q] = "summary" \/ tx'[q].summary # 0) => Covered(p, q)'
  BY DEF BuiltOn
<1>4. Overlapped("summary") => Overlapped("summary")'
  BY OverlapsStay
<1>5. CASE q # r
  <2>1. p \in saw[q]["summary"] \ {q} /\ p \in stored /\ p # r /\ tx'[p] = tx[p]
    BY <1>1, <1>2, <1>5
  <2>2. Covered(p, q) => Covered(p, q)'
    BY <1>1, <1>4, <1>5, <2>1 DEF Covered
  <2> QED  BY <1>1, <1>3, <1>5, <2>1, <2>2 DEF BuiltOn
<1>6. CASE q = r /\ Ask(r, "summary")
  <2>1. /\ tx'[r].summary = tx[r].summary /\ pc[r] = "summary_ask" /\ saw' = saw
        /\ PreviousCovers(r) \subseteq tx'[r].covers
    BY <1>6 DEF Ask, Goto, TypeOK, Tx, AskAt
  <2>2. tx[r].summary = 0
    BY <2>1 DEF PhaseInv, Phase, Trying, BeforeSummary
  <2>3. p \in stored /\ tx'[p] = tx[p]
    BY <1>1, <1>2, <1>6, <2>1
  <2>4. ~Overlapped("summary") => tx[p].covers \subseteq PreviousCovers(r)
    BY <2>2, <2>3, LatestHasAll
  <2>5. Covered(p, q)'
    BY <1>4, <1>6, <2>1, <2>3, <2>4 DEF Covered
  <2> QED  BY <1>6, <2>1, <2>2, <2>5
<1>7. CASE q = r /\ tx'[r].summary = 0 /\ pc'[r] # "summary"
  BY <1>7
<1>8. CASE q = r /\ Summarized(r)
  <2>1. /\ tx'[r].summary = Now /\ tx'[r].covers = tx[r].covers
        /\ saw' = saw /\ pc[r] = "summary"
    BY <1>8, SummaryIsNew
  <2>2. p \in saw[q]["summary"] \ {q} /\ p \in Request /\ tx'[p] = tx[p]
    BY <1>1, <1>2, <1>8, <2>1
  <2>3. tx'[p].summary < tx'[q].summary
    BY <1>8, <2>1, <2>2, NowIsLater
  <2>4. Covered(p, q)
    BY <1>3, <1>8, <2>1, <2>2 DEF BuiltOn
  <2>5. Covered(p, q)'
    BY <1>4, <1>8, <2>1, <2>2, <2>4 DEF Covered
  <2> QED  BY <2>3, <2>5
<1>9. CASE /\ q = r /\ tx'[r].summary = tx[r].summary /\ tx'[r].covers = tx[r].covers
           /\ saw'[r]["summary"] = saw[r]["summary"] /\ pc'[r] # "summary"
  <2>1. p \in saw[q]["summary"] \ {q} /\ p \in Request /\ tx'[p] = tx[p]
    BY <1>1, <1>2, <1>9
  <2>2. Covered(p, q) => Covered(p, q)'
    BY <1>4, <1>9, <2>1 DEF Covered
  <2> QED  BY <1>3, <1>9, <2>1, <2>2 DEF BuiltOn
<1> QED  BY <1>5, <1>6, <1>7, <1>8, <1>9, SummarySteps

LEMMA ForgottenStep ==
  ASSUME IInv, NEW r \in Request, Step(r) \/ Crash(r)
  PROVE  ForgottenOnlyByOverlap'
<1> USE DEF IInv
<1>1. /\ r \notin stored /\ stored \subseteq Request
      /\ stored' = stored \/ (stored' = stored \cup {r} /\ Finish(r))
      /\ \A p \in Request \ {r} : tx'[p] = tx[p] /\ saw'[p] = saw[p]
  BY OthersStay DEF TypeOK
<1>2. Overlapped("summary") => Overlapped("summary")'
  BY OverlapsStay
<1> SUFFICES ASSUME NEW p \in stored', NEW q \in stored',
                    0 < tx'[p].summary, tx'[p].summary < tx'[q].summary
             PROVE  tx'[p].covers \subseteq tx'[q].covers \/ Overlapped("summary")'
  BY DEF ForgottenOnlyByOverlap
<1>3. CASE p \in stored /\ q \in stored
  <2>1. tx'[p] = tx[p] /\ tx'[q] = tx[q]
    BY <1>1, <1>3
  <2> QED  BY <1>2, <1>3, <2>1 DEF BuildInv, ForgottenOnlyByOverlap
<1>4. CASE ~(p \in stored /\ q \in stored)
  <2>1. /\ Finish(r) /\ stored' = stored \cup {r} /\ p # q
        /\ p \in Request /\ q \in Request
        /\ tx[p].summary \in Nat /\ tx[q].summary \in Nat
    <3>1. stored' = stored \cup {r} /\ Finish(r)
      BY <1>1, <1>4
    <3>2. p \in Request /\ q \in Request
      BY <1>1, <3>1
    <3>3. tx[p].summary \in Nat /\ tx[q].summary \in Nat
      BY <3>2, TxFields
    <3>4. p # q
      <4>1. tx' = tx
        BY <1>1, <3>1 DEF Finish, Rollback
      <4> QED  BY <3>3, <4>1
    <3> QED  BY <3>1, <3>2, <3>3, <3>4
  <2>2. tx' = tx /\ saw' = saw
    BY <1>1, <2>1 DEF Finish, Rollback
  <2>3. \A s \in Request : saw[s]["summary"] \subseteq stored \cup {s}
    BY DEF PhaseInv, Phase, Counting, Layer
  <2>4. BuiltOn(p) /\ BuiltOn(q)
    BY <2>1 DEF BuildInv
  <2>5. CASE p \in saw[q]["summary"]
    <3>1. Covered(p, q)
      BY <2>1, <2>2, <2>4, <2>5 DEF BuiltOn
    <3> QED  BY <1>2, <2>2, <3>1 DEF Covered
  <2>6. CASE p \notin saw[q]["summary"]
    <3>1. q \notin saw[p]["summary"]
      BY <2>1, <2>2, <2>4 DEF BuiltOn
    <3>2. p \notin Seen(q, "summary")' /\ q \notin Seen(p, "summary")'
      BY <2>2, <2>6, <3>1 DEF Seen
    <3> QED  BY <3>2 DEF Overlapped
  <2> QED  BY <2>5, <2>6
<1> QED  BY <1>3, <1>4

LEMMA BuildStep ==
  ASSUME IInv, Next
  PROVE  BuildInv'
<1>1. CASE Idle
  <2>1. UNCHANGED <<pc, tx, stored, saw>> /\ BuildInv
    BY <1>1 DEF Idle, vars, IInv
  <2>2. \A layer : Overlapped(layer)' <=> Overlapped(layer)
    BY <2>1 DEF Overlapped, Seen
  <2> QED  BY <2>1, <2>2
           DEF BuildInv, OneSummaryATime, BuiltOn, Covered, ForgottenOnlyByOverlap
<1>2. ASSUME NEW r \in Request, Step(r) \/ Crash(r) PROVE BuildInv'
  <2>1. OneSummaryATime'
    <3>1. \A p \in Request \ {r} : tx'[p] = tx[p] /\ tx[p].summary < Now
      BY <1>2, OthersStay, NowIsLater DEF IInv
    <3>2. \A p \in Request : tx[p].summary \in Nat /\ Now \in Nat
      BY TxFields, NowIsLater DEF IInv
    <3>3. tx'[r].summary \in {0, tx[r].summary, Now}
      BY <1>2, SummarySteps, SummaryIsNew DEF IInv
    <3> QED  BY <3>1, <3>2, <3>3 DEF IInv, BuildInv, OneSummaryATime
  <2> QED  BY <1>2, <2>1, BuiltStep, ForgottenStep DEF BuildInv
<1> QED  BY <1>1, <1>2 DEF Next

-----------------------------------------------------------------------------
(* The inductive invariant.                                                 *)

LEMMA InitInv == Init => IInv
<1> SUFFICES ASSUME Init PROVE IInv
  OBVIOUS
<1>1. TypeOK
  BY NothingTypes DEF Init, TypeOK, Labels
<1>2. PhaseInv
  <2> SUFFICES ASSUME NEW r \in Request PROVE Phase(r)
    BY DEF PhaseInv
  <2>1. /\ pc[r] = "narrator" /\ answer[r] = "none" /\ stored = {} /\ trouble[r] = {}
        /\ tx[r] = NoTx /\ saw[r] = NothingSeen
    BY DEF Init
  <2>2. ~Settled(r)
    BY <2>1 DEF Settled
  <2>3. Answering(r)
    BY <2>1 DEF Answering
  <2>4. Counting(r)
    BY <2>1, <2>2 DEF Counting, NothingSeen, PastDue
  <2>5. Trying(r)
    BY <2>1, <2>2 DEF Trying, PastTry, NoTx
  <2> QED  BY <2>3, <2>4, <2>5 DEF Phase
<1>3. OrderInv
  BY DEF Init, OrderInv, NothingSeen
<1>4. BuildInv
  BY DEF Init, BuildInv, OneSummaryATime, BuiltOn, ForgottenOnlyByOverlap, NoTx, NothingSeen, Layer
<1> QED  BY <1>1, <1>2, <1>3, <1>4 DEF IInv

LEMMA StepInv == IInv /\ [Next]_vars => IInv'
<1>1. CASE IInv /\ Next
  <2>1. TypeOK'
    BY <1>1, TypesStep DEF IInv
  <2>2. PhaseInv'
    BY <1>1, PhaseStep DEF IInv
  <2>3. OrderInv'
    BY <1>1, OrderStep DEF IInv
  <2>4. BuildInv'
    BY <1>1, BuildStep
  <2> QED  BY <2>1, <2>2, <2>3, <2>4 DEF IInv
<1>2. CASE IInv /\ UNCHANGED vars
  <2>1. Next \/ UNCHANGED vars
    BY <1>2
  <2>2. TypeOK'
    BY <1>2, TypesStep DEF IInv
  <2>3. PhaseInv'
    BY <1>2, PhaseStays DEF IInv, vars, PhaseInv
  <2>4. OrderInv'
    BY <1>2 DEF IInv, vars, OrderInv, Seen
  <2>5. UNCHANGED <<pc, tx, stored, saw>> /\ BuildInv
    BY <1>2 DEF vars, IInv
  <2>6. \A layer : Overlapped(layer)' <=> Overlapped(layer)
    BY <2>5 DEF Overlapped, Seen
  <2>7. BuildInv'
    BY <2>5, <2>6 DEF BuildInv, OneSummaryATime, BuiltOn, Covered, ForgottenOnlyByOverlap
  <2> QED  BY <2>2, <2>3, <2>4, <2>7 DEF IInv
<1> QED  BY <1>1, <1>2

\* The types; what a request's place says of its answer, its counts and its
\* attempts; the order of the counts; what the summaries are made from.
THEOREM Invariance == Spec => []IInv
BY InitInv, StepInv, PTL DEF Spec

\* Every variable keeps its type, for every number of turns at once.
THEOREM TypeCorrect == Spec => []TypeOK
BY Invariance, PTL DEF IInv

\* A reply the player got is stored, but for a request without a key whose
\* maintenance broke the transaction: COMMIT says nothing of its rollback.
THEOREM AnsweredAreStored == Spec => []AnsweredIsStored
<1>1. IInv => AnsweredIsStored
  BY DEF IInv, PhaseInv, Phase, Answering, AnsweredIsStored
<1> QED  BY <1>1, Invariance, PTL

\* No refused budget and no failed memory agent turns the narrated turn into
\* an error.
THEOREM MaintenanceStaysFree == Spec => MaintenanceIsFree
<1> DEFINE Free == \A r \in Request :
                     /\ pc[r] \in Maintenance \cup {"finish"}
                     /\ answer[r] = "none" /\ answer'[r] = "error"
                     => "statement" \in trouble[r]
<1>1. IInv /\ [Next]_vars => Free
  <2> SUFFICES ASSUME IInv, [Next]_vars, NEW q \in Request,
                      pc[q] \in Maintenance \cup {"finish"},
                      answer[q] = "none", answer'[q] = "error"
               PROVE  "statement" \in trouble[q]
    OBVIOUS
  <2>1. answer'[q] # answer[q]
    OBVIOUS
  <2>2. PICK r \in Request : Step(r) \/ Crash(r)
    BY <2>1 DEF Next, Idle, vars
  <2>3. q = r
    BY <2>1, <2>2, OthersStay DEF IInv
  <2>4. ~Crash(r)
    BY <2>3 DEF Crash, Rollback, Ends, IInv, TypeOK
  <2>5. ~NarratorFails(r)
    BY <2>3 DEF NarratorFails, Maintenance
  <2>6. Finish(r)
    BY <2>1, <2>2, <2>3, <2>4, <2>5
       DEF Step, Narrate, Summarized, Reflected, StatementFails, Due, Refused, Ask, CallFails
  <2>7. ~Ends(r, "ok")
    BY <2>3 DEF Ends, IInv, TypeOK
  <2>8. ~Completes(r)
    BY <2>6, <2>7 DEF Finish, Rollback
  <2> QED  BY <2>3, <2>8 DEF Completes
<1> QED  BY <1>1, Invariance, PTL DEF Spec, MaintenanceIsFree

-----------------------------------------------------------------------------
(* Without an overlap the stored turns counted 1, 2, 3, ..., as many as are. *)

LEMMA CountsApart ==
  ASSUME IInv, NEW layer \in Layer, NEW p \in stored, NEW q \in stored,
         p # q, p \in Seen(q, layer)
  PROVE  Cardinality(Seen(p, layer)) < Cardinality(Seen(q, layer))
<1>1. stored \subseteq Request /\ IsFiniteSet(stored)
  <2>1. stored \subseteq Request
    BY DEF IInv, TypeOK
  <2> QED  BY <2>1, MemoryAssumption, FS_Subset
<1>2. PICK k \in Layer : Seen(q, layer) = saw[q][k]
  BY DEF Seen, Layer
<1>3. Seen(p, layer) \subseteq Seen(q, layer) /\ q \notin Seen(p, layer)
  BY <1>1, <1>2 DEF IInv, OrderInv
<1>4. q \in Seen(q, layer)
  BY <1>1, <1>2 DEF IInv, PhaseInv, Phase, Counting
<1>5. IsFiniteSet(Seen(q, layer))
  <2>1. Seen(q, layer) \subseteq stored
    BY <1>1, SeenIsCounted DEF IInv
  <2> QED  BY <1>1, <2>1, FS_Subset
<1>6. /\ IsFiniteSet(Seen(p, layer))
      /\ Cardinality(Seen(p, layer)) <= Cardinality(Seen(q, layer))
      /\ Cardinality(Seen(q, layer)) # Cardinality(Seen(p, layer))
  BY <1>3, <1>4, <1>5, FS_Subset
<1>7. Cardinality(Seen(p, layer)) \in Nat /\ Cardinality(Seen(q, layer)) \in Nat
  BY <1>5, <1>6, FS_CardinalityType
<1> QED  BY <1>6, <1>7

LEMMA CountsBounded ==
  ASSUME IInv, NEW layer \in Layer, NEW r \in stored
  PROVE  Cardinality(Seen(r, layer)) \in 1 .. Cardinality(stored)
<1>1. stored \subseteq Request /\ IsFiniteSet(stored)
  <2>1. stored \subseteq Request
    BY DEF IInv, TypeOK
  <2> QED  BY <2>1, MemoryAssumption, FS_Subset
<1>2. Seen(r, layer) \subseteq stored
  BY <1>1, SeenIsCounted DEF IInv
<1>3. Seen(r, layer) # {}
  <2>1. saw[r]["summary"] # {}
    BY <1>1 DEF IInv, PhaseInv, Phase, Counting, Settled, Layer
  <2> QED  BY <2>1 DEF Seen
<1>4. IsFiniteSet(Seen(r, layer)) /\ Cardinality(Seen(r, layer)) <= Cardinality(stored)
  BY <1>1, <1>2, FS_Subset
<1>5. Cardinality(Seen(r, layer)) \in Nat /\ Cardinality(stored) \in Nat
  BY <1>1, <1>4, FS_CardinalityType
<1>6. Cardinality(Seen(r, layer)) # 0
  BY <1>3, <1>4, FS_EmptySet
<1> QED  BY <1>4, <1>5, <1>6

LEMMA EveryCountIsMade ==
  ASSUME IInv, NEW layer \in Layer, ~Overlapped(layer), NEW n \in 1 .. Cardinality(stored)
  PROVE  \E r \in stored : Cardinality(Seen(r, layer)) = n
<1> DEFINE f == [r \in stored |-> Cardinality(Seen(r, layer))]
           T == 1 .. Cardinality(stored)
<1>1. IsFiniteSet(stored) /\ Cardinality(stored) \in Nat
  <2>1. stored \subseteq Request
    BY DEF IInv, TypeOK
  <2>2. IsFiniteSet(stored)
    BY <2>1, MemoryAssumption, FS_Subset
  <2> QED  BY <2>2, FS_CardinalityType
<1>2. \A r \in stored : f[r] \in T
  BY CountsBounded
<1>3. ASSUME NEW p \in stored, NEW q \in stored, p # q PROVE f[p] # f[q]
  <2>1. f[p] \in Nat /\ f[q] \in Nat
    BY <1>1, <1>2
  <2>2. p \in Seen(q, layer) \/ q \in Seen(p, layer)
    BY DEF Overlapped
  <2>3. CASE p \in Seen(q, layer)
    <3>1. f[p] < f[q]
      BY <1>3, <2>3, CountsApart
    <3> HIDE DEF f
    <3> QED  BY <2>1, <3>1
  <2>4. CASE q \in Seen(p, layer)
    <3>1. f[q] < f[p]
      BY <1>3, <2>4, CountsApart
    <3> HIDE DEF f
    <3> QED  BY <2>1, <3>1
  <2> QED  BY <2>2, <2>3, <2>4
<1>4. DOMAIN f = stored /\ f = [r \in stored |-> f[r]]
  OBVIOUS
<1>5. IsFiniteSet(T) /\ Cardinality(T) = Cardinality(stored)
  BY <1>1, FS_Interval
<1> HIDE DEF f, T
<1>6. f \in Injection(stored, T)
  <2>1. f \in [stored -> T]
    BY <1>2, <1>4
  <2> QED  BY <1>3, <2>1 DEF Injection, IsInjective
<1>7. f \in Surjection(stored, T)
  BY <1>5, <1>6, FS_Injection
<1>8. \E r \in stored : f[r] = n
  BY <1>7 DEF Surjection, T
<1> QED  BY <1>8 DEF f

\* Every Nth turn has its summary tried and every Mth its reflection, unless
\* the budget refused it or two turns did not count each other.
THEOREM DueAreTried == Spec => []DueIsTried
<1>1. IInv => DueIsTried
  <2> SUFFICES ASSUME IInv, NEW layer \in Layer, ~Overlapped(layer),
                      NEW n \in before + 1 .. before + Cardinality(stored),
                      n % Every(layer) = 0
               PROVE  \E r \in stored : /\ before + Cardinality(Seen(r, layer)) = n
                                        /\ layer \in tx[r].log \/ "budget" \in trouble[r]
    BY DEF DueIsTried
  <2>1. stored \subseteq Request /\ before \in Nat
    BY MemoryAssumption DEF IInv, TypeOK
  <2>2. Cardinality(stored) \in Nat
    BY <2>1, MemoryAssumption, FS_Subset, FS_CardinalityType
  <2>3. n - before \in 1 .. Cardinality(stored)
    BY <2>1, <2>2
  <2>4. PICK r \in stored : Cardinality(Seen(r, layer)) = n - before
    BY <2>3, EveryCountIsMade
  <2>5. before + Cardinality(Seen(r, layer)) = n
    <3> DEFINE c == Cardinality(Seen(r, layer))
    <3>1. c = n - before
      BY <2>4
    <3> HIDE DEF c
    <3>2. before + c = n
      BY <2>1, <2>2, <3>1
    <3> QED  BY <3>2 DEF c
  <2>6. Settled(r) /\ Phase(r)
    BY <2>1 DEF Settled, IInv, PhaseInv
  <2>7. layer \in tx[r].log \/ "budget" \in trouble[r]
    <3>1. CASE saw[r][layer] = {}
      BY <2>6, <3>1 DEF Phase, Counting
    <3>2. CASE saw[r][layer] # {}
      <4>1. Seen(r, layer) = saw[r][layer]
        BY <3>2 DEF Seen
      <4>2. Multiple(before + Cardinality(saw[r][layer]), layer)
        BY <2>5, <4>1 DEF Multiple
      <4> QED  BY <2>6, <4>2 DEF Phase, Trying, Tried
    <3> QED  BY <3>1, <3>2
  <2> QED  BY <2>5, <2>7
<1> QED  BY <1>1, Invariance, PTL

\* What a summary was made from stays in every later one, unless two turns
\* did not count each other.
THEOREM ForgottenByOverlapOnly == Spec => []ForgottenOnlyByOverlap
BY Invariance, PTL DEF IInv, BuildInv
=============================================================================
