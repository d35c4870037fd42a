---------------------------- MODULE ChatRequests ----------------------------
(***************************************************************************)
(* The vocabulary of POST /api/chat: who sends what under which key, and   *)
(* what a client may be told.  Shared by the promise (ChatOnce) and by the *)
(* handler that keeps it (ChatOrchestrator).                               *)
(***************************************************************************)
CONSTANTS Request,      \* HTTP requests; a request also names the turn it runs
          Owner, Key,   \* authenticated users, Idempotency-Key values
          Text,         \* message bodies (message text with character id)
          Campaign,     \* campaigns that exist before the first request
          NoKey, NoCampaign, NoTurn,
          Messages,     \* the messages the clients send
          BadText       \* bodies that are empty or too long

VARIABLE msg            \* what each request asks for

Message == [owner : Owner, key : Key \cup {NoKey}, text : Text,
            campaign : Campaign \cup {NoCampaign}]

ASSUME MessageAssumption == /\ Messages \subseteq Message
                            /\ BadText \subseteq Text
                            /\ NoKey \notin Key
                            /\ NoCampaign \notin Campaign
                            /\ NoTurn \notin Request

\* The primary key of chat_request_idempotency: keys are scoped to a user.
Slot == Owner \X Key
SlotOf(r) == <<msg[r].owner, msg[r].key>>
Keyed(r) == msg[r].key # NoKey

\* The request fingerprint: the body, never the key or the owner.
Fingerprint == [text : Text, campaign : Campaign \cup {NoCampaign}]
FingerprintOf(r) == [text |-> msg[r].text, campaign |-> msg[r].campaign]

\* "lost" is the client's side of a crash or a dropped connection.
Code == {"none", "ok", "conflict", "busy", "notfound", "limit", "failed", "lost"}
Answer == [code : Code, turn : Request \cup {NoTurn}]
Unanswered == [code |-> "none", turn |-> NoTurn]
Ok(t) == [code |-> "ok", turn |-> t]
Refusal(code) == [code |-> code, turn |-> NoTurn]
=============================================================================
