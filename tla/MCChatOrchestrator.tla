------------------------- MODULE MCChatOrchestrator -------------------------
(***************************************************************************)
(* Instances of ChatOrchestrator for TLC.  o1 owns the seed campaign c1;   *)
(* t1 and t2 are two texts.                                                *)
(***************************************************************************)
EXTENDS ChatOrchestrator, TLC

CONSTANTS o1, o2, k1, t1, t2, c1, l1, i0

Seeds == c1 :> o1

\* Every key hashes to the same advisory lock: the worst LockId there is.
OneLock == [s \in Slot |-> l1]

\* One request per event loop, or one event loop for everything.
Apart == [r \in Request |-> r]
Together == [r \in Request |-> i0]

RequestSymmetry == Permutations(Request)

Ask(o, k, t, c) == [owner |-> o, key |-> k, text |-> t, campaign |-> c]

KeyedOnly == {Ask(o1, k1, t1, c1)}
UnkeyedOnly == {Ask(o1, NoKey, t1, c1)}

\* Turns on one campaign, under a key and without; messages that create their
\* campaign, which under the same key is another body; the same key from
\* another user; a campaign that is not the caller's; a body that is refused.
AllMessages == KeyedOnly \cup UnkeyedOnly \cup
  {Ask(o1, k1, t1, NoCampaign), Ask(o1, NoKey, t1, NoCampaign),
   Ask(o2, k1, t1, NoCampaign), Ask(o2, NoKey, t1, c1), Ask(o1, NoKey, t2, c1)}
=============================================================================
