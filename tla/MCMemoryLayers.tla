--------------------------- MODULE MCMemoryLayers ---------------------------
(***************************************************************************)
(* Three turns at once, one of them with a key, of a campaign that had one *)
(* turn or five: the summaries of turns 2 and 4, or 6 and 8, the           *)
(* reflection of turn 3, or of 6 together with a summary.                  *)
(***************************************************************************)
EXTENDS MemoryLayers, TLC

CONSTANTS r1, r2, r3

Deeds == r1 :> "done" @@ r2 :> "done" @@ r3 :> "changed"
Unkeyed == Permutations(Request \ Keyed)
=============================================================================
