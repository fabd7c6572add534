--------------------------- MODULE PieceCompletion ---------------------------
(***************************************************************************)
(* The way of one piece from its last block to the disk, across four kinds *)
(* of tasks: the reader tasks of the peers deliver blocks to the piece     *)
(* actor (PieceManager) and report a verified piece to the torrent         *)
(* manager, which marks it complete and waits for the disk actor, which    *)
(* reads the piece actor's buffer once for every file the piece lies in.   *)
(* Late blocks reach the piece actor at any time in between.               *)
(***************************************************************************)
EXTENDS PieceManager

CONSTANTS
  Honest,     \* peers only send right blocks, if they answer at all
  DiskFaults, \* a write may fail
  MaxReports  \* bound on the reports in the manager's mailbox

ASSUME CompletionAssumptions ==
  {Honest, DiskFaults} \subseteq BOOLEAN /\ MaxReports \in Nat \ {0}

VARIABLES
  tracking,    \* peers whose active_requests holds the piece
  late,        \* readers that got the piece actor from get_piece_manager
  reporting,   \* readers with a PieceFinish that the mailbox has not taken
  reports,     \* PieceFinish messages for this piece in the mailbox
  have,        \* the piece is in local_bitfield
  flush,       \* what the manager knows of the flush of the piece
  flushes,     \* number of flushes started
  next_block,  \* the first block the disk actor has not written
  disk         \* what the files hold

completionVars ==
  <<tracking, late, reporting, reports, have, flush, flushes, next_block, disk>>
allVars == <<vars, completionVars>>

CompletionInit ==
  /\ Init
  /\ tracking = {}
  /\ late = {}
  /\ reporting = {}
  /\ reports = 0
  /\ have = FALSE
  /\ flush = "none"
  /\ flushes = 0
  /\ next_block = 0
  /\ disk = [b \in Blocks |-> "zero"]

\* The manager awaits flush_piece_to_disk and handles no message meanwhile.
ManagerFree == flush # "running"

----------------------------------------------------------------------------
(* The peer tasks                                                          *)

\* RequestWork assigns the piece to p, or assigns it again after a time-out.
TakeWork(p) ==
  /\ ManagerFree
  /\ ~have
  /\ p \notin tracking
  /\ tracking' = tracking \cup {p}
  /\ UNCHANGED <<vars, late, reporting, reports, have, flush, flushes, next_block, disk>>

\* p's watchdog learns that the assignment timed out or the piece is complete.
Prune(p) ==
  /\ ManagerFree
  /\ p \in tracking
  /\ tracking' = tracking \ {p}
  /\ UNCHANGED <<vars, late, reporting, reports, have, flush, flushes, next_block, disk>>

AskBlocks(p) ==
  /\ p \in tracking
  /\ Ask(p)
  /\ UNCHANGED completionVars

\* An answer of p arrives for a piece that p no longer tracks: the reader
\* asks the manager for the piece actor.  It gets it if the piece is active.
LookUp(p) ==
  /\ ManagerFree
  /\ ~have
  /\ p \notin tracking \cup late \cup reporting
  /\ \E b \in Blocks : <<p, b>> \in wire
  /\ late' = late \cup {p}
  /\ UNCHANGED <<vars, tracking, reporting, reports, have, flush, flushes, next_block, disk>>

\* The lookup finds the piece complete, and the block is dropped.
DropLate(p, b) ==
  /\ ManagerFree
  /\ have
  /\ p \notin tracking \cup late \cup reporting
  /\ <<p, b>> \in wire
  /\ wire' = wire \ {<<p, b>>}
  /\ UNCHANGED <<pieceVars, faults, completionVars>>

\* The reader delivers a block.  When the piece actor answers that the piece
\* is done, the reader handles no other message until its report is taken.
Deliver(p, b, content) ==
  /\ p \in (tracking \cup late) \ reporting
  /\ Honest => content = "good"
  /\ Answer(p, b, content)
  /\ IF PieceDone(b, content)
       THEN reporting' = reporting \cup {p} /\ UNCHANGED late
       ELSE late' = late \ {p} /\ UNCHANGED reporting
  /\ UNCHANGED <<tracking, reports, have, flush, flushes, next_block, disk>>

\* The mailbox has room for p's report.  Then a reader that tracked the piece
\* stops tracking it; one that had looked it up does not touch its list.
Report(p) ==
  /\ p \in reporting
  /\ reports < MaxReports
  /\ reports' = reports + 1
  /\ reporting' = reporting \ {p}
  /\ tracking' = IF p \in late THEN tracking ELSE tracking \ {p}
  /\ late' = late \ {p}
  /\ UNCHANGED <<vars, have, flush, flushes, next_block, disk>>

\* A request or its answer is lost before a reader has it in hand.
LoseRequest(p, b) ==
  /\ p \in late => p \in reporting
  /\ Lose(p, b)
  /\ UNCHANGED completionVars

----------------------------------------------------------------------------
(* The manager and the disk actor                                          *)

\* Variant: a second report of the piece is handled like the first.  It finds
\* the piece actor again, where the code has removed it from its map.
AlwaysNews == TRUE

\* The early return of PieceFinish.
IsNews == ~have

\* PieceFinish: the piece is complete from here on, and its flush starts.
HandleReport ==
  /\ ManagerFree
  /\ reports > 0
  /\ reports' = reports - 1
  /\ IF IsNews
       THEN /\ have' = TRUE
            /\ flush' = "running"
            /\ flushes' = flushes + 1
            /\ next_block' = 0
       ELSE UNCHANGED <<have, flush, flushes, next_block>>
  /\ UNCHANGED <<vars, tracking, late, reporting, disk>>

\* The disk actor reads the part of the buffer that lies in the next file,
\* which ends with block last, and writes it.
FlushFile(last) ==
  /\ flush = "running"
  /\ disk' = [b \in Blocks |-> IF b \in next_block .. last THEN data[b] ELSE disk[b]]
  /\ next_block' = last + 1
  /\ flush' = IF last = NumBlocks - 1 THEN "stored" ELSE "running"
  /\ UNCHANGED <<vars, tracking, late, reporting, reports, have, flushes>>

FlushFails ==
  /\ DiskFaults
  /\ flush = "running"
  /\ flush' = "failed"
  /\ UNCHANGED <<vars, tracking, late, reporting, reports, have, flushes, next_block, disk>>

PassTime == (Tick \/ TimePasses) /\ UNCHANGED completionVars

----------------------------------------------------------------------------

FlushNext == \E last \in next_block .. NumBlocks - 1 : FlushFile(last)

CompletionNext ==
  \/ \E p \in Peers :
       \/ TakeWork(p)
       \/ Prune(p)
       \/ AskBlocks(p)
       \/ LookUp(p)
       \/ Report(p)
       \/ \E b \in Blocks :
            \/ DropLate(p, b)
            \/ LoseRequest(p, b)
            \/ \E content \in Contents : Deliver(p, b, content)
  \/ HandleReport
  \/ FlushNext
  \/ FlushFails
  \/ PassTime

CompletionSpec == CompletionInit /\ [][CompletionNext]_allVars

\* The manager and the disk actor keep running, time passes, and while the
\* piece is not complete some peer keeps taking it, asking for blocks and
\* answering: the assumptions of FairSpec for tasks that may lose the piece.
CompletionFairness ==
  /\ WF_allVars(HandleReport)
  /\ WF_allVars(FlushNext)
  /\ WF_allVars(Tick /\ UNCHANGED completionVars)
  /\ WF_allVars(TimePasses /\ UNCHANGED completionVars)
  /\ \A p \in Peers :
       /\ WF_allVars(TakeWork(p))
       /\ WF_allVars(LookUp(p))
       /\ WF_allVars(Report(p))
       /\ SF_allVars(AskBlocks(p))
       /\ \A b \in Blocks : SF_allVars(Deliver(p, b, "good"))

FairCompletionSpec == CompletionSpec /\ CompletionFairness

----------------------------------------------------------------------------
(* Properties                                                              *)

CompletionTypeOK ==
  /\ TypeOK
  /\ tracking \subseteq Peers
  /\ late \subseteq Peers
  /\ reporting \subseteq Peers
  /\ reports \in 0 .. MaxReports
  /\ have \in BOOLEAN
  /\ flush \in {"none", "running", "stored", "failed"}
  /\ flushes \in Nat
  /\ next_block \in 0 .. NumBlocks
  /\ disk \in [Blocks -> Held]

\* However many readers see the piece complete, among them those of late
\* answers, it is flushed once (torrent_manager.rs:240-244; lines 344-391 of
\* the peer state machine).
FlushedOnce == flushes <= 1

\* What reaches the disk is what the hash check approved (comment on
\* piece_done_sender, piece_manager.rs:213-217).
StoredIsVerified == flush = "stored" => HashMatches(disk)

\* The piece is flushed in the end, however assignments, attempts, wrong
\* blocks and reports interleave, unless the disk fails; and what is stored
\* is right if no answer was wrong (lines 337-391 of the peer state machine,
\* torrent_manager.rs:238-279).
EventuallyFlushed ==
  <>[](\/ flush = "failed"
       \/ flush = "stored" /\ (faults = 0 => HashMatches(disk)))
=============================================================================
