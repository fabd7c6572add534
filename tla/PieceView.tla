----------------------------- MODULE PieceView -----------------------------
(***************************************************************************)
(* What the actor of a piece promises the peers that work on it: a block   *)
(* that it handed out is handed out again only after its attempt timed     *)
(* out, a block that came is not asked for again, and if the hash is wrong *)
(* all of them are.  PieceManager implements it; PeerFSM takes no other    *)
(* step of a piece than these.                                             *)
(***************************************************************************)
CONSTANT Blocks   \* the blocks of the piece

VARIABLES missing, \* blocks that have not come
          handed   \* blocks with a peer whose attempt has not timed out

vars == <<missing, handed>>

Init == missing = Blocks /\ handed = {}

Hand(batch) ==
  /\ batch \subseteq missing \ handed
  /\ handed' = handed \cup batch
  /\ UNCHANGED missing

\* Blocks come, also late or again.
Arrive(blocks) == missing' = missing \ blocks /\ handed' = handed \ blocks

Expire(blocks) == handed' = handed \ blocks /\ UNCHANGED missing

\* All blocks have come and their hash is wrong.
Reset == missing' = Blocks /\ handed' = {}

Next == Reset \/ \E blocks \in SUBSET Blocks : Hand(blocks) \/ Arrive(blocks) \/ Expire(blocks)

Spec == Init /\ [][Next]_vars

----------------------------------------------------------------------------

\* No block that came is with a peer (piece_manager.rs, lines 81-133).
HandedIsMissing == handed \subseteq missing /\ missing \subseteq Blocks
=============================================================================
