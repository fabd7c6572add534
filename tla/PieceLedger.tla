---------------------------- MODULE PieceLedger ----------------------------
(***************************************************************************)
(* What the torrent manager promises the rest of the client about finished *)
(* pieces: a piece is completed once and for ever, and while the disk      *)
(* works, the log the Have broadcaster reads lists exactly the completed   *)
(* pieces, each once, in the order of their completion.  TorrentManager    *)
(* implements it with local_bitfield, downloaded_piece_index and the disk  *)
(* actor.                                                                  *)
(***************************************************************************)
EXTENDS Integers, Sequences

CONSTANT Pieces   \* the pieces of the torrent

VARIABLES have,   \* pieces completed
          log,    \* the completed pieces that reached the disk, in order
          broken  \* the disk has failed: nothing reaches it any more

vars == <<have, log, broken>>

Init == have = {} /\ log = <<>> /\ broken \in BOOLEAN

\* A piece completes and reaches the disk.
Store(i) ==
  /\ ~broken
  /\ have' = have \cup {i}
  /\ log' = Append(log, i)
  /\ UNCHANGED broken

\* A piece completes and does not reach the disk, then or later.
Spill(i) ==
  /\ have' = have \cup {i}
  /\ broken' = TRUE
  /\ UNCHANGED log

Next == \E i \in Pieces \ have : Store(i) \/ Spill(i)

Spec == Init /\ [][Next]_vars

----------------------------------------------------------------------------

Logged == {log[k] : k \in DOMAIN log}

TypeOK == have \subseteq Pieces /\ log \in Seq(Pieces) /\ broken \in BOOLEAN

\* The log names only completed pieces, none twice, and all of them until
\* the disk fails: what downloaded_piece_index is read for
\* (torrent_manager.rs:32-34, 349-357).
LogExact ==
  /\ Logged \subseteq have
  /\ \A j, k \in DOMAIN log : log[j] = log[k] => j = k
  /\ ~broken => Logged = have
=============================================================================
