------------------------------ MODULE ChatOnce ------------------------------
(***************************************************************************)
(* What POST /api/chat promises a client that may send the same message    *)
(* again, said without transactions, locks or model calls: a key runs at   *)
(* most one turn, that turn never changes afterwards, and whoever is told  *)
(* "ok" under the key is told about that one turn.  Anything may be        *)
(* refused, but a request that has been refused never runs.  A message     *)
(* without a key is promised less: its "ok" may be of a turn not kept.      *)
(***************************************************************************)
EXTENDS ChatRequests

VARIABLES executed,     \* requests whose turn has taken effect
          outcome,      \* the turn each (owner, key) stands for
          answer        \* what each request has been told

vars == <<msg, executed, outcome, answer>>

Init == /\ msg \in [Request -> Messages]
        /\ executed = {}
        /\ outcome = [s \in Slot |-> NoTurn]
        /\ answer = [r \in Request |-> Unanswered]

Tell(r, a) == /\ answer[r] = Unanswered
              /\ answer' = [answer EXCEPT ![r] = a]

\* The turn takes effect.  Its client hears of it, or the answer is lost.
Execute(r) == /\ executed' = executed \cup {r}
              /\ Tell(r, Ok(r)) \/ Tell(r, Refusal("lost"))
              /\ \/ /\ ~Keyed(r)
                    /\ UNCHANGED outcome
                 \/ /\ Keyed(r)
                    /\ outcome[SlotOf(r)] = NoTurn
                    /\ outcome' = [outcome EXCEPT ![SlotOf(r)] = r]
              /\ UNCHANGED msg

\* The turn already ran under this key, for the same body.
Replay(r) == /\ Keyed(r)
             /\ outcome[SlotOf(r)] # NoTurn
             /\ FingerprintOf(outcome[SlotOf(r)]) = FingerprintOf(r)
             /\ Tell(r, Ok(outcome[SlotOf(r)]))
             /\ UNCHANGED <<msg, executed, outcome>>

\* The turn is told of and has taken no effect.
TellUnstored(r) == /\ ~Keyed(r)
                   /\ Tell(r, Ok(r))
                   /\ UNCHANGED <<msg, executed, outcome>>

Refuse(r) == /\ \E code \in Code \ {"none", "ok"} : Tell(r, Refusal(code))
             /\ UNCHANGED <<msg, executed, outcome>>

Next == \E r \in Request : Execute(r) \/ Replay(r) \/ TellUnstored(r) \/ Refuse(r)

Spec == Init /\ [][Next]_vars
=============================================================================
