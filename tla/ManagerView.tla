---------------------------- MODULE ManagerView ----------------------------
(***************************************************************************)
(* What the torrent manager promises one connection: which pieces it may   *)
(* assign to it, when it takes an assignment back, and that a piece that   *)
(* is complete stays complete and is nobody's work.  TorrentManager        *)
(* implements it for every peer; PeerFSM takes no other step of the        *)
(* manager than these.                                                     *)
(***************************************************************************)
CONSTANT Pieces   \* the pieces of the torrent

VARIABLES assigned,  \* the work of the peer
          done,      \* the complete pieces
          announced, \* the pieces the peer said it has
          greeted    \* a Bitfield of the peer has come, and is not empty

vars == <<assigned, done, announced, greeted>>

Init == assigned = {} /\ done = {} /\ announced = {} /\ greeted = FALSE

\* The peer registers, perhaps again: the manager knows nothing of it.
Register ==
  /\ assigned' = {} /\ announced' = {} /\ greeted' = FALSE
  /\ UNCHANGED done

\* A Bitfield without a single bit leaves the peer as if none had come.
Greet(pieces) ==
  /\ announced' = pieces
  /\ greeted' \in BOOLEAN /\ (pieces # {} => greeted')
  /\ UNCHANGED <<assigned, done>>

\* A Have counts only behind a Bitfield.
Announce(i) ==
  /\ greeted
  /\ announced' = announced \cup {i}
  /\ UNCHANGED <<assigned, done, greeted>>

\* Only what the peer announced, is not complete and is not its work already.
Assign(i) ==
  /\ i \in announced \ (done \cup assigned)
  /\ assigned' = assigned \cup {i}
  /\ UNCHANGED <<done, announced, greeted>>

\* Assignments that timed out.
Release(late) ==
  /\ assigned' = assigned \ late
  /\ UNCHANGED <<done, announced, greeted>>

\* A piece completes, here or elsewhere, and is taken from its workers.
Complete(i) ==
  /\ i \notin done
  /\ done' = done \cup {i} /\ assigned' = assigned \ {i}
  /\ UNCHANGED <<announced, greeted>>

Next ==
  \/ Register
  \/ \E pieces \in SUBSET Pieces : Greet(pieces) \/ Release(pieces)
  \/ \E i \in Pieces : Announce(i) \/ Assign(i) \/ Complete(i)

Spec == Init /\ [][Next]_vars

----------------------------------------------------------------------------

\* No complete piece is assigned, and none is assigned again: what the
\* watchdog's pruning and the writer's next request rely on
\* (torrent_manager.rs, lines 145-185, 258-263 and 281-312).
NoFinishedWork == assigned \cap done = {}
=============================================================================
