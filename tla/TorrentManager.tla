--------------------------- MODULE TorrentManager ---------------------------
(***************************************************************************)
(* The torrent manager of fissure: one actor that owns the bitfields of    *)
(* all peers, counts how many peers hold each piece, hands pieces to peers *)
(* rarest first and records the pieces that are complete                   *)
(* (managers/torrent_manager.rs).  The actor handles one mailbox message   *)
(* at a time, so every message is one action.  The order in which the peer *)
(* tasks put messages in the mailbox is the interleaving of the actions.   *)
(***************************************************************************)
EXTENDS Integers, FiniteSets, Sequences

CONSTANTS
  Peers,                   \* peer ids the client may learn of
  NumPieces,               \* number of pieces of the torrent
  FieldLens,               \* lengths of the Bitfields peers send; the code accepts any
  MaxIndex,                \* highest index in a Bitfield or Have, 2^32 - 1 on the wire
  PerPieceActivePeerCount, \* peer_options.per_piece_active_peer_count
  MaxFreq,                 \* 255 in the code: frequencies saturate there
  Churn,                   \* peers may leave, and come back under the same id
  BitfieldFirst,           \* every peer sends one Bitfield, before its first Have
  DiskFaults               \* a write to disk may fail

ASSUME ManagerAssumptions ==
  /\ IsFiniteSet(Peers)
  /\ NumPieces \in Nat \ {0}
  /\ FieldLens \subseteq Nat
  /\ MaxIndex \in Nat
  /\ MaxIndex >= NumPieces - 1
  /\ PerPieceActivePeerCount \in Nat
  /\ MaxFreq \in Nat \ {0}
  /\ {Churn, BitfieldFirst, DiskFaults} \subseteq BOOLEAN

Pieces == 0 .. NumPieces - 1
Indices == 0 .. MaxIndex

\* A BitVec: its length, and the indices of its ones.  A peer is registered
\* with BitVec::new(), and its Bitfield message, of whatever length, replaces it.
BitVecs(lengths) ==
  UNION {[len : {n}, ones : SUBSET {i \in Indices : i < n}] : n \in lengths}
BitVec == BitVecs({0} \cup FieldLens)
NewBitVec == [len |-> 0, ones |-> {}]

VARIABLES
  alive,                    \* the actor has not panicked
  registered,               \* the keys of peer_bitfields and peer_active_work
  connected,                \* peers whose watchdog still runs; the actor cannot see it
  peer_bitfields,
  local_bitfield,           \* the ones of local_bitfield
  pieces_frequency,
  rarity_bucket,
  peer_active_work,         \* pieces assigned to each peer; the times are left out
  piece_concurrency_counts, \* a finished piece is not in its domain
  active_pieces_manager,    \* the pieces that have a PieceRequestManager
  downloaded_piece_index,
  disk_running              \* the disk actor still runs

peerVars == <<registered, connected>>
rarityVars == <<pieces_frequency, rarity_bucket>>
workVars == <<peer_active_work, piece_concurrency_counts, active_pieces_manager>>
doneVars == <<local_bitfield, downloaded_piece_index, disk_running>>
vars == <<alive, peerVars, peer_bitfields, rarityVars, workVars, doneVars>>

----------------------------------------------------------------------------
(* Initial state: TorrentManagerActor::new                                 *)

Init ==
  /\ alive = TRUE
  /\ registered = {}
  /\ connected = {}
  /\ peer_bitfields = [p \in Peers |-> NewBitVec]
  /\ local_bitfield = {}
  /\ pieces_frequency = [i \in Pieces |-> 0]
  /\ rarity_bucket = [b \in 0 .. MaxFreq |-> {}]
  /\ peer_active_work = [p \in Peers |-> {}]
  /\ piece_concurrency_counts = [i \in Pieces |-> 0]
  /\ active_pieces_manager = {}
  /\ downloaded_piece_index = <<>>
  /\ disk_running \in {TRUE, ~DiskFaults} \* opening the files may fail

\* A panic ends the actor's task: nothing handles the mailbox any more.
Panic ==
  /\ alive' = FALSE
  /\ UNCHANGED <<peerVars, peer_bitfields, rarityVars, workVars, doneVars>>

----------------------------------------------------------------------------
(* Rarity bookkeeping: update_freq_bitfield and update_freq_have           *)

\* Variant: the frequency does not saturate.
BumpedUnbounded(f) == f + 1

Bumped(f) == IF f + 1 <= MaxFreq THEN f + 1 ELSE MaxFreq

\* Variant: counts again the pieces the peer had already announced.
AllUnowned(p, bits) == bits \ local_bitfield

\* The bits that a message of peer p adds to what it was known to hold,
\* among those of pieces that are not complete.
NewlyHeld(p, bits) ==
  {i \in bits : i \notin local_bitfield /\ i \notin peer_bitfields[p].ones}

\* Every piece of held moves to the bucket of its new frequency.
Rebucketed(held) ==
  [b \in 0 .. MaxFreq |->
     (rarity_bucket[b] \ {i \in held : pieces_frequency[i] = b})
       \cup {i \in held : Bumped(pieces_frequency[i]) = b}]

BumpFrequency(held) ==
  /\ rarity_bucket' = Rebucketed(held)
  /\ pieces_frequency' =
       [i \in Pieces |-> IF i \in held THEN Bumped(pieces_frequency[i])
                                       ELSE pieces_frequency[i]]

----------------------------------------------------------------------------
(* Peers: AddPeer, AddBitFeild, UpdateBitField                             *)

\* A peer task registers with an empty bitfield.  Nothing ever unregisters
\* a peer, and one that comes back overwrites its own entries.
AddPeer(p) ==
  /\ alive
  /\ Churn \/ p \notin registered
  /\ registered' = registered \cup {p}
  /\ connected' = connected \cup {p}
  /\ peer_bitfields' = [peer_bitfields EXCEPT ![p] = NewBitVec]
  /\ peer_active_work' = [peer_active_work EXCEPT ![p] = {}]
  /\ UNCHANGED <<alive, rarityVars, piece_concurrency_counts,
                 active_pieces_manager, doneVars>>

\* The peer's connection ends.  The watchdog is aborted and the manager is
\* not told (the RemovePeer message has no sender and no handler).
Disconnect(p) ==
  /\ Churn
  /\ p \in connected
  /\ connected' = connected \ {p}
  /\ UNCHANGED <<alive, registered, peer_bitfields, rarityVars, workVars, doneVars>>

MaySendBitfield(p) ==
  p \in registered /\ (BitfieldFirst => peer_bitfields[p].len = 0)

\* pieces_frequency[idx] is out of range for a bit after the last piece.  The
\* length is not compared with anything.
AddBitFeild(p, field) ==
  /\ alive
  /\ MaySendBitfield(p)
  /\ \/ /\ NewlyHeld(p, field.ones) \subseteq Pieces
        /\ BumpFrequency(NewlyHeld(p, field.ones))
        /\ peer_bitfields' = [peer_bitfields EXCEPT ![p] = field]
        /\ UNCHANGED <<alive, peerVars, workVars, doneVars>>
     \/ /\ ~(NewlyHeld(p, field.ones) \subseteq Pieces)
        /\ Panic

MaySendHave(p) ==
  p \in registered /\ (BitfieldFirst => peer_bitfields[p].len > 0)

\* BitVec::set asserts the index against the length of the peer's Bitfield;
\* pieces_frequency[index] asserts it against the number of pieces.
HaveInRange(p, i) ==
  /\ i < peer_bitfields[p].len
  /\ NewlyHeld(p, {i}) \subseteq Pieces

UpdateBitField(p, i) ==
  /\ alive
  /\ MaySendHave(p)
  /\ \/ /\ HaveInRange(p, i)
        /\ BumpFrequency(NewlyHeld(p, {i}))
        /\ peer_bitfields' = [peer_bitfields EXCEPT ![p] = [len |-> @.len, ones |-> @.ones \cup {i}]]
        /\ UNCHANGED <<alive, peerVars, workVars, doneVars>>
     \/ /\ ~HaveInRange(p, i)
        /\ Panic

----------------------------------------------------------------------------
(* Piece selection: RequestWork                                            *)

\* Variant: one worker too many.
WithinCapPlusOne(i) == piece_concurrency_counts[i] <= PerPieceActivePeerCount + 1

\* The count is compared before it grows, so it reaches the cap plus one.
WithinCap(i) == piece_concurrency_counts[i] <= PerPieceActivePeerCount

\* The closure of rarity_bucket.iter().flatten().find.
Eligible(p, i) ==
  /\ i \in peer_bitfields[p].ones
  /\ i \notin local_bitfield
  /\ i \in DOMAIN piece_concurrency_counts
  /\ WithinCap(i)
  /\ i \notin peer_active_work[p]

\* Variant: takes the piece from any bucket.
AnyEligible(p) ==
  {i \in UNION {rarity_bucket[b] : b \in 0 .. MaxFreq} : Eligible(p, i)}

\* What find may return: an eligible piece of the first bucket that has one;
\* the order inside a bucket is that of a HashSet.
RarestEligible(p) ==
  UNION {{i \in rarity_bucket[b] :
            /\ Eligible(p, i)
            /\ \A c \in 0 .. b - 1 : \A j \in rarity_bucket[c] : ~Eligible(p, j)} :
         b \in 0 .. MaxFreq}

Assign(p, i) ==
  /\ active_pieces_manager' = active_pieces_manager \cup {i}
  /\ piece_concurrency_counts' = [piece_concurrency_counts EXCEPT ![i] = @ + 1]
  /\ peer_active_work' = [peer_active_work EXCEPT ![p] = @ \cup {i}]

\* A writer task asks for a piece.  Without an eligible one the reply is
\* None and nothing changes.
RequestWork(p) ==
  /\ alive
  /\ p \in registered
  /\ \E i \in RarestEligible(p) : Assign(p, i)
  /\ UNCHANGED <<alive, peerVars, peer_bitfields, rarityVars, doneVars>>

----------------------------------------------------------------------------
(* The watchdog: UpdateAndGetActiveRequestCount                            *)

\* Variant: forgets to give the slot of an expired assignment back.
KeepCounts(p, late) == piece_concurrency_counts

\* The counts once the assignments of p in late are dropped.
Released(p, late) ==
  [i \in DOMAIN piece_concurrency_counts |->
     IF i \in late /\ piece_concurrency_counts[i] > 0
       THEN piece_concurrency_counts[i] - 1
       ELSE piece_concurrency_counts[i]]

\* The sweep of p's assignments; late are those older than
\* piece_request_timeout.  Complete pieces are dropped without a decrement.
UpdateAndGetActiveRequestCount(p, late) ==
  /\ alive
  /\ p \in connected
  /\ peer_active_work' =
       [peer_active_work EXCEPT ![p] = @ \ (late \cup local_bitfield)]
  /\ piece_concurrency_counts' = Released(p, late \ local_bitfield)
  /\ UNCHANGED <<alive, peerVars, peer_bitfields, rarityVars,
                 active_pieces_manager, doneVars>>

----------------------------------------------------------------------------
(* Completion: PieceFinish                                                 *)

\* Variant: the finished piece stays in the work of its workers.
WorkKeepingFinished(i) == peer_active_work

WorkWithout(i) == [p \in Peers |-> peer_active_work[p] \ {i}]

\* Variant: the finished piece stays in the rarity buckets.
BucketsKeepingFinished(i) == rarity_bucket

BucketsWithout(i) ==
  [rarity_bucket EXCEPT ![pieces_frequency[i]] = @ \ {i}]

\* Variant: the log grows whatever the disk answered.
LogAnyway(i, flushed) == Append(downloaded_piece_index, i)

LogIfFlushed(i, flushed) ==
  IF flushed THEN Append(downloaded_piece_index, i) ELSE downloaded_piece_index

\* The answer of flush_piece_to_disk: true if the disk actor runs and every
\* write succeeds; the first error ends the disk actor, and then its mailbox
\* is closed.
Flush(flushed) ==
  /\ flushed => disk_running
  /\ ~flushed => DiskFaults
  /\ disk_running' = flushed

\* Variant: a second report is handled like the first, with a manager to flush.
AlwaysNews(i) == TRUE

\* The early return for a piece that is complete.  (Behind it the removal of
\* the PieceRequestManager would find none and flush nothing.)
IsNews(i) == i \notin local_bitfield

CompletePiece(i, flushed) ==
  /\ local_bitfield' = local_bitfield \cup {i}
  /\ rarity_bucket' = BucketsWithout(i)
  /\ pieces_frequency' = [pieces_frequency EXCEPT ![i] = 0]
  /\ piece_concurrency_counts' =
       [j \in DOMAIN piece_concurrency_counts \ {i} |-> piece_concurrency_counts[j]]
  /\ peer_active_work' = WorkWithout(i)
  /\ active_pieces_manager' = active_pieces_manager \ {i}
  /\ Flush(flushed)
  /\ downloaded_piece_index' = LogIfFlushed(i, flushed)
  /\ UNCHANGED <<alive, peerVars, peer_bitfields>>

\* A reader task reports that piece i is complete and verified, perhaps not
\* as the first.  It holds i's PieceRequestManager, so i has one here too,
\* unless it is complete.
PieceFinish(i, flushed) ==
  /\ alive
  /\ i \in active_pieces_manager \cup local_bitfield
  /\ IF IsNews(i) THEN CompletePiece(i, flushed) ELSE UNCHANGED vars

----------------------------------------------------------------------------

Next ==
  \/ \E p \in Peers :
       \/ AddPeer(p)
       \/ Disconnect(p)
       \/ \E field \in BitVecs(FieldLens) : AddBitFeild(p, field)
       \/ \E i \in Indices : UpdateBitField(p, i)
       \/ RequestWork(p)
       \/ \E late \in SUBSET peer_active_work[p] : UpdateAndGetActiveRequestCount(p, late)
  \/ \E i \in Pieces, flushed \in BOOLEAN : PieceFinish(i, flushed)

Spec == Init /\ [][Next]_vars

Workers(i) == {p \in registered : i \in peer_active_work[p]}
Holders(i) == {p \in registered : i \in peer_bitfields[p].ones}

\* Every peer task asks for work again and again (the 2 s ticker of its
\* writer), and a piece that has workers again and again is completed: its
\* PieceRequestManager keeps the blocks of earlier attempts.
Fairness ==
  /\ \A p \in Peers : WF_vars(RequestWork(p))
  /\ \A i \in Pieces :
       SF_vars(Workers(i) # {} /\ \E flushed \in BOOLEAN : PieceFinish(i, flushed))

FairSpec == Spec /\ Fairness

----------------------------------------------------------------------------
(* Properties                                                              *)

\* The state of the actor has the shape its types and its panics (lines 213,
\* 221) rely on: every piece that is not complete has a worker count.
TypeOK ==
  /\ alive \in BOOLEAN
  /\ registered \subseteq Peers
  /\ connected \subseteq registered
  /\ peer_bitfields \in [Peers -> BitVec]
  /\ local_bitfield \subseteq Pieces
  /\ pieces_frequency \in [Pieces -> 0 .. MaxFreq]
  /\ rarity_bucket \in [0 .. MaxFreq -> SUBSET Pieces]
  /\ peer_active_work \in [Peers -> SUBSET Pieces]
  /\ piece_concurrency_counts \in [Pieces \ local_bitfield -> Nat]
  /\ active_pieces_manager \subseteq Pieces
  /\ downloaded_piece_index \in Seq(Pieces)
  /\ disk_running \in BOOLEAN

\* The buckets index the frequencies: a piece is in the bucket of its
\* frequency and in no other, unless it is complete or no peer has announced
\* it (lines 67-112 and 247-250 keep two structures in step).
RarityIndex ==
  \A i \in Pieces, b \in 0 .. MaxFreq :
    i \in rarity_bucket[b] <=>
      /\ i \notin local_bitfield
      /\ pieces_frequency[i] = b
      /\ b > 0

\* Work is handed out only for pieces whose request manager is alive, and
\* completing a piece takes it from every peer and drops its manager: no
\* peer is left working on a complete piece (lines 247-263).
NoWorkOnFinished ==
  /\ \A p \in Peers : peer_active_work[p] \subseteq active_pieces_manager
  /\ active_pieces_manager \cap local_bitfield = {}

\* A piece never has more workers than its count says, and never more than
\* the cap plus one, also when peers leave or come back (lines 165-173,
\* 207-215, 281-301).
WorkersWithinCap ==
  \A i \in Pieces \ local_bitfield :
    /\ Cardinality(Workers(i)) <= piece_concurrency_counts[i]
    /\ piece_concurrency_counts[i] <= PerPieceActivePeerCount + 1

\* "Piece Index -> Value: How many peers are currently working on it"
\* (line 27): the count of a piece is the number of peers it is assigned to.
WorkCountExact ==
  \A i \in Pieces \ local_bitfield :
    piece_concurrency_counts[i] = Cardinality(Workers(i))

Saturated(n) == IF n <= MaxFreq THEN n ELSE MaxFreq

\* The frequency of a piece that is not complete is the number of peers that
\* announced it, in a Bitfield or a Have, each counted once (lines 67-112).
FrequencyExact ==
  \A i \in Pieces \ local_bitfield :
    pieces_frequency[i] = Saturated(Cardinality(Holders(i)))

\* Rarest first (lines 145-185): when a piece is assigned to a peer, no piece
\* the peer could have been given instead is held by fewer peers.
RarestFirst ==
  [][\A p \in Peers : \A i \in peer_active_work'[p] \ peer_active_work[p] :
       \A j \in Pieces : Eligible(p, j) =>
         Saturated(Cardinality(Holders(i))) <= Saturated(Cardinality(Holders(j)))]_vars

\* The log of the Have broadcaster names complete pieces, none twice, and all
\* of them until the disk fails (lines 32-34, 263-276).
Ledger == INSTANCE PieceLedger WITH
  have <- local_bitfield, log <- downloaded_piece_index, broken <- ~disk_running

LedgerSpec == Ledger!Spec

HaveLogExact == Ledger!LogExact

\* Each connection sees the manager as PeerFSM has it (lines 121-227 and
\* 245-312), whatever the other peers do and if it registers again.
View(p) == INSTANCE ManagerView WITH
  assigned <- peer_active_work[p], done <- local_bitfield,
  announced <- peer_bitfields[p].ones \cap Pieces, greeted <- peer_bitfields[p].len > 0

ServesEveryPeer ==
  /\ \A p \in Peers : View(p)!Init
  /\ [][\A p \in Peers : [View(p)!Next]_(View(p)!vars)]_vars

\* Every piece some peer announced is completed, whatever the order in which
\* pieces are assigned, time out and are assigned again (lines 127-227,
\* 281-312): no piece is starved by rarer ones or by lost worker slots.
HeldPiecesComplete ==
  \A i \in Pieces : Holders(i) # {} ~> i \in local_bitfield

\* What no message of a peer should do: stop the manager (lines 84, 102, 104,
\* 235).
ManagerKeepsRunning == alive

\* "payload is a bitfield representing the pieces that have been
\* successfully downloaded" (DOCUMENTATION.md): the bitfield a new peer is
\* sent names only pieces that are on the disk (lines 121, 245, 273-275).
AdvertisedIsStored == local_bitfield \subseteq Ledger!Logged

=============================================================================
