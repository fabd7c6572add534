# A TLA+ model of fissure

This directory models `fissure`, a BitTorrent client that downloads, written
in Rust on tokio (`src/fissure_client`). It holds TLA+ modules, configurations for
the TLC model checker and proofs checked by TLAPS. Line numbers without a file
refer to the file the section names; paths are relative to
`src/fissure_client/src/`.

## 1. Inventory

fissure is a set of actors (one task, one mailbox, private state) and of plain
tasks that share atomics, locks and notifications.

| component | state | operations | correct if |
|---|---|---|---|
| Torrent manager (`managers/torrent_manager.rs`), one actor per torrent | bitfields of the peers and our own, piece frequencies and the rarity buckets that index them, work list per peer, worker count per piece, active piece actors, log of finished pieces | `AddPeer`, `AddBitFeild`, `UpdateBitField`, `RequestWork`, `PieceFinish`, `UpdateAndGetActiveRequestCount`, six queries | the redundant structures agree; rarest first; a piece completes once and is logged; no message stops it |
| Piece request manager (`managers/piece_manager.rs`), one actor per piece being downloaded | four structures about the blocks, timers, the buffer | `BlocksToRequest`, `BlockRecived`, `GetData`, a ticker | no block is lost between the structures; complete means verified |
| Disk manager (`managers/disk_manager.rs`), one actor per torrent | file handles and offsets | flush a piece, read a range | every byte is written to, and read from, its place |
| Peer state machine (`protocols/peer_protocol_state_machine.rs`), tasks per peer: reader, writer, watchdog, and one that waits for the end | choke and interest flags, tracked pieces, number of tracked pieces, number of requests in flight, two notifications | one branch per message, the full pass, the window top-off, the Have broadcast, the sweep | no wake-up is lost; the request window and the piece slots are neither exceeded nor leaked |
| Handshake and codec (`protocols/peer_handshake.rs`, `models/peer_messages.rs`) | the bytes not yet decoded | connect, encode, decode | the reader stays in step with the stream; decoding gives what was meant |
| Tracker refresh (`orchestration/torrent_refresh.rs`, `protocols/tracker.rs`), one task per tier, or one loop | list of seen peers shared by the tiers, failures of the round, last answer | ask trackers, filter, extend the list, forward, back off | no peer is lost between list and orchestrator; a tier forwards it once; tiers do not end each other |
| Handshake orchestration (`orchestration/handshake_orechestration.rs`) | retries left | receive peers, start a task for each | serves every tier as long as one lives |
| Client manager (`managers/client_manager.rs`), one actor | torrents | start the tasks of a torrent, wait for them | a torrent that is added starts |
| Statistics logger (`helper.rs`) | none | ask the manager every 5 s | (the client actor waits for it) |
| Metadata, bencoding, settings | none | parse files | |

How they interact. The client actor starts, per torrent, the refresh, the
orchestrator and the logger; a channel takes the tracker responses from the refresh
to the orchestrator, which starts a task per peer. This task shakes hands, registers
its peer with the torrent manager and starts the peer's tasks. The reader turns the peer's messages into manager
messages (`AddBitFeild`, `UpdateBitField`) and hands blocks to piece actors; if a
piece actor answers that its piece is complete and verified, the reader sends
`PieceFinish`. The writer asks the manager for pieces (`RequestWork`) and piece
actors for blocks. The watchdog asks the manager every five seconds which
assignments are still valid. On `PieceFinish` the manager waits for the disk actor,
which reads the piece from the piece actor; then it extends the log and wakes all
writers through a watch channel to send `Have`.

What is hard: several readers see the same piece complete; blocks arrive after
their attempt timed out, after the piece was reset, or after it was verified; a
peer leaves and the manager is not told; the worker counts, the rarity buckets and
the work lists are redundant and are kept in step by hand in six handlers; reader,
writer and watchdog change two atomics, a map and two permits in an order nobody
fixes; a panic in a handler ends an actor that every peer depends on; the disk
fails, at once or later; tiers share a list under a lock that is released between
looking and extending, and held while a send waits; a tier that panics takes peers
along; TCP cuts messages anywhere. The list with lines is `hazards` in `PROJECT.json`.

## 2. Modules

| module | models |
|---|---|
| `PieceLedger` | abstract: a piece completes once, and is logged in that step unless the disk has failed |
| `ManagerView` | abstract: which pieces a connection may be assigned, and when they are taken from it |
| `PieceView` | abstract: which blocks a piece actor hands out, and when they are free again |
| `TorrentManager` | the torrent manager actor; implements `PieceLedger`, and `ManagerView` for every peer |
| `PieceManager` | one piece actor and the peers that answer it; implements `PieceView` |
| `PieceCompletion` | composes `PieceManager` with the readers, the manager and the disk actor around one piece |
| `PeerFSM` | one peer connection: writer, reader, watchdog and the waiting task, with the manager and the piece actors as `ManagerView` and `PieceView` have them |
| `HaveBroadcast` | one connection's bitfield and Have rounds against the manager's growing log, which follows `PieceLedger` |
| `DiskManager` | the disk actor and its file handles |
| `PeerDiscovery` | trackers to connection tasks: tiers or single loop, orchestrator, logger, client actor |
| `PeerWire` | the bytes from a peer: handshake, framing, codec |
| `TorrentManagerProofs`, `PieceManagerProofs`, `PieceCompletionProofs`, `PeerFSMProofs`, `HaveBroadcastProofs`, `DiskManagerProofs`, `PeerDiscoveryProofs`, `PeerWireProofs` | theorems and proofs |
| `MC...` | symmetry sets and layouts for TLC |

`map` in `PROJECT.json` gives the source lines of every definition. A definition
whose comment starts with "Variant:" is a plausible bug of the definition after
it; the modules do not use it, and each property is checked to fail with one.

### TorrentManager

One action per mailbox message; the mailbox order is the interleaving. The
variables are the actor's fields; `HashMap`s and `HashSet`s are functions and sets,
assignment times are left out (any set `late` of a peer's assignments may have
timed out), so the order of a `HashSet` is a choice. A panic sets `alive` to
`FALSE`, after which no action is enabled. `connected` is environment: which
watchdogs still run. The actor's await of the flush is one step here, since it
handles nothing meanwhile; `PieceCompletion` takes it apart. A second report of a
piece is handled and changes nothing (`IsNews`). Five constants describe the
environment: `Churn` (peers leave and come back), `BitfieldFirst`, `FieldLens` (the
lengths of the Bitfields that peers send; multiples of eight in the code, any here),
`MaxIndex` (the highest index that a Bitfield or a Have names) and `DiskFaults`. A
query changes nothing and is not an action.

The cap in `WorkersWithinCap` is `per_piece_active_peer_count` plus one, because
the code compares the count before it increments it (lines 165-173, 207).

### PieceManager

`required_blocks`, `blocks_in_flight`, `downloaded_blocks` and the timers are the
fields of the actor; a block's data is "zero", "good" or "bad", and the SHA-1 check
is that all blocks are good. Time passes in seconds; ages stop at `AgeCap`, beyond
every comparison of the code. The peers answer rightly, wrongly, with too much
data, late, or never; at most `MaxFaults` times other than rightly. Too much data
either ends past the buffer, and is dropped, or runs into the next block (`Fits`).

### PieceCompletion

Readers deliver through the piece they track or through `get_piece_manager`
(`LookUp`, then `Deliver`, two steps). A reader that is told that the piece is done
handles no other message until its report is in the manager's mailbox (`Report`),
while its watchdog and its writer go on. The manager starts the flush, during which it handles nothing (`ManagerFree`) while the
piece actor goes on accepting blocks. `FlushFile` is one iteration of the disk
actor's loop; where files end inside the piece is a choice. `MaxReports` bounds the
mailbox (400 in the code): a reader waits when it is full.

### PeerFSM

`net` is `PeerFSMNetworkState`: the two atomics, the map of tracked pieces and the
two `Notify` permits. `w.pc`, `r.pc` and `d.pc` are the places of the three tasks
between two accesses to shared state or two awaits, so an action is one atomic
operation or one answer of another actor: the writer reads the choke flag in one
step, and asks, inserts, counts, loads the window, copies the candidates, asks the
piece actors one by one, sends and counts the requests in later ones. `w.seen_choked`
and `w.seen_useful` record what the last full pass read, for `NoLostWakeup`; they are
not in the code. A `Notify` permit is a Boolean: `notify_one` without a waiter stores
one permit, and the pinned futures are renewed before the pass (lines 252, 256).
`m` is what the manager and the piece actors hold about this connection; the cap and
the rarity order are left out (any piece may be assigned). `late` assignments,
`OtherFinishes` and `ExpireBlock` are the other tasks' doing. The remote peer answers
requests at most as often as it got them; when it chokes us it may discard them.
The rounds of the Have branch touch none of this state and are in `HaveBroadcast`;
here a Have only may fail, once a piece is complete, and end the writer, as may our
Bitfield, which goes out before the first pass (`SendBitfield`, `WriterEnds`). A
peer's Bitfield is two messages to the manager: `ReceiveBitfield` stores it,
`AskUseful` asks for the answer that `SetUseful` writes.

Constants of the environment: `Chokes`, `Regreets` (the peer sends its Bitfield
again), `Others`, `Closes`; `MaxSent` bounds the
copies of a request on the wire, and `Timely` (only in `fsm_live`) says that a
watchdog round, every five seconds, does not overlap the milliseconds in which the
writer takes a piece and asks for its blocks.

### HaveBroadcast

Pieces are numbered in the order in which they complete, so the log is a number,
as in the code, where the channel carries its length. Reading the channel
(line 265), reading the log (a message to the manager, line 267), sending and
setting `last_seen` are separate steps.

### DiskManager

Files, piece length and number of pieces follow `torrent_meta.rs` (85-126) and the
loop over the handles (66-108, 118-164). A byte is represented by its position in
the torrent, so the properties speak about every byte's place. `job` holds the
locals of the handler; each iteration is a step. The handles are tokio `File`s,
external code: a write returns once buffered (`buffered`), `Settle` brings it to the
file or stores its error (`write_err`), the next seek waits for it and the next
write reports it. The files start empty. `ByteOffset` is the running sum of the
constructor's loop, as a recursive function. Failing `metadata()` calls in the error
branches end the actor like the branch itself.

### PeerDiscovery

Each tier is a task with a place (`pc`), the index and the failures of its round and
the peers it has in hand; an action is one critical section or one await: the look
at the list (read guard, line 65), its extension (write guard, line 70), the send,
during which the guard is kept (line 74). `WriteLocked` is the guard. The places in
`Dead` are panics, each with its cause where a property needs it: no interval (72),
the orchestrator gone (74), the back-off out of `u32` (80). In a release build the
power wraps instead, so `Pause` allows both. A peer is a pair of address and
port, since `retain` compares addresses only. Promotion of a tracker (75-76) is left
out: the code reorders `tier_clone` and asks from `tier` (36). The statistics a
request needs come from the torrent manager, so a manager that stopped fails HTTP
requests and panics UDP ones. `handed` counts, for `OncePerTier`, what a tier sent;
it is not in the code. An answer names no peer twice; if one did, `retain` would let
both through.

### PeerWire

`Stream` is all the bytes a peer will send, `arrived` and `taken` are positions in it,
so `Buffer` is what the kernel and `Framed` hold. `ReadLength` and `ReadRest` are the
two `read_exact` calls, `DecodeMessage` is one call of the decoder. `Sendable` pairs
octets with what they mean: the messages that fissure itself encodes (through
`Encode`, so that encoder and decoder are checked against each other) and
messages of other clients written out from the protocol. The assumption of the module
says that every one is framed (`WellFramed`) and means what it is paired with, or
`Nothing` if its slices panic the decoder (`Meaning`); TLC evaluates it for the ten
messages of the run. So a stream is a series of framed messages, the last of which may
be broken off. The content of the handshake is not looked at, as in the code: the info
hash is not compared.

## 3. Runs

All passing runs together fire every action. Twelve runs are listed, eleven that
pass and one that must not:

| run | instance | shows |
|---|---|---|
| `manager_exact` | 3 peers, 3 pieces, cap 1, frequencies saturate at 2; peers stay and announce in order | type, exact worker counts and frequencies, rarest first, every announced piece completes |
| `manager_churn` | 2 peers, 2 pieces, Bitfields of 0, 1 and 3 bits, Haves up to index 3, cap 0; peers leave, return, announce in any order; the disk fails | buckets, work lists, cap, Have log, refinement of `PieceLedger` |
| `piece_blocks` | 2 peers, 3 blocks, timeout 1 s, 2 faults | type, accounting, verification, bounded attempts, the piece completes |
| `completion_races` | 2 peers, 2 blocks, timeout 0, 1 fault, room for 1 report, dishonest peers, failing disk | a piece is flushed at most once, and is flushed in the end |
| `fsm_tasks` | 1 piece of 1 block, window 1, chokes and other connections | type, no lost wake-up, slots come back, stale work is pruned |
| `fsm_window` | 1 piece of 2 blocks, window 2, 2 copies of a request, repeated Bitfields, the connection closes | the window is respected, at most one slot leaks |
| `fsm_live` | 1 piece of 1 block, window 2, `Timely` | a wanted piece completes |
| `have_rounds` | 5 completions | no gap, no more than one repetition, everything is announced |
| `disk_layout` | 5 layouts (empty files first, in the middle, last; files shorter than a piece), piece lengths 2 and 3, faults | every byte in place, complete flushes, exact reads |
| `discovery` | 2 tiers of 3 and 1 trackers (one UDP) or the single loop, 2 peers, channel of 1, 2 retries, back-off bound 1 | a tier hands a peer on once; no peer of the list is lost; tiers outlive each other; the second torrent waits; new peers are tried in the end |
| `wire` | 3 handshakes (length 0, 2, 19), streams of up to 2 out of 10 messages, every cut, closing anywhere | the reader is in step and decodes what was meant; nothing that arrived waits |
| `completion_late_block` | violation | unverified bytes reach the disk |

Why the bounds are enough. The manager's handlers treat peers and pieces
uniformly: two peers suffice for a count to be raised by one and released by
another, three with a cap of one (two workers) for one to be refused; two
frequencies above zero are needed to see a bucket that a piece leaves and one where
it saturates (255 in the code, `MaxFreq` 2 here). Three blocks make a
first, an inner and a last block; timeouts of 0 and 1 s lie on the two sides of the
ticker's lower limit. In `PeerFSM` every race is between tasks about one piece
and its blocks, and with one piece slot (`MaxActive` 1) a second piece only waits; two
blocks and a window of two are needed for batches. A mailbox with room for one report
is full when the second reader reports. `fsm_tasks` leaves out repeated Bitfields, which
triple it; `NoLostWakeup` with them is in `fsm_view.cfg` and proved. (With two pieces the invariants
of `fsm_tasks` hold too, over 16 million states, too long for a regular run.)
A Have round involves the pieces before it, those logged
between its two reads and those after, so five completions repeat each. The layouts
contain each case of the loop's conditions. Two tiers race for the list and the
lock; a channel of one is full at once; a tier of three trackers fails past
`MaxExponent` 1 (13 in the code), a tier of one does not. Two messages of every
kind show that each one leaves the stream where the next begins. The theorems of
section 5 remove the bounds for what they cover.

Deadlock is checked where the system cannot stop. It is not where all pieces may be
complete (`manager_*`, `have_*`), the disk actor has ended (`disk_*`), the connection
has closed (`fsm_window`, `wire`) or all tasks have panicked (`discovery`).

## 4. Fairness

- Manager: every writer's pass asks for work again (the 2 s `request_ticker`), hence
  weak fairness of `RequestWork`; a piece that has workers again and again is completed
  in the end, since its piece actor keeps the blocks of earlier attempts (what
  `PieceManager` shows): strong fairness of `PieceFinish` under `Workers(i) # {}`.
- Piece actor: the ticker and the clock run; some peer asks again and again; requests
  that are not lost (finitely many) are answered rightly in the end.
- Completion: the manager and the disk actor handle their mailboxes; readers and
  writers keep working. Strong fairness of `AskBlocks` and `Deliver`, because the
  watchdog may interrupt each of them repeatedly but not every time.
- Connection: the watchdog's interval and the writer's ticker fire for ever (tokio
  intervals); the manager's mailbox is FIFO and answers everybody, hence strong
  fairness of `AskForPiece` and of the watchdog's query; an assignment that is never
  finished times out in some round (`piece_request_timeout`). The peer unchokes us if
  it knows our interest, and answers what it is asked, or the block times out.
- Have: `select!` polls its branches in random order, so a branch that stays ready is
  taken; sends do not block for ever.
- Discovery: tokio's `RwLock` is fair (it queues), hence strong fairness of the two
  critical sections; a task that is ready is polled (send, receive, logger, client
  actor). Nothing is assumed of trackers, and nothing says that a tier asks again.
- Wire: the reader is polled; nothing is assumed of the network and the peer.
- Disk: no liveness is claimed.

## 5. Theorems

All are proved for every value of the constants, from the named assumptions of the
modules (finite sets, positive limits) only.

`TorrentManagerProofs`. `TypeCorrect` first; every other invariant is proved on
top of it, one step per handler. `RarityIndexCorrect`, `NoWorkOnFinishedCorrect`
and `WorkersWithinCapCorrect` hold in every environment, churn and panics
included. `ImplementsLedger` maps each handler to a step or a stutter of
`PieceLedger`; `HaveLogCorrect` follows on the concrete log. `WorkCountCorrect`,
`FrequencyCorrect` and `RarestFirstCorrect` need that peers stay (and announce in
order) and the invariant `UnknownIsEmpty`: a peer not yet registered has no bits and
no work, otherwise registering would change counts. `SaturatedStep` moves one
piece's frequency and its number of holders together, across the saturation.
`KeepsRunning` says what the manager needs of its peers to run for ever, though they
leave and return and the disk fails: a Bitfield comes before the first Have
(`BitfieldFirst`), is not shorter than the torrent has pieces (`FieldLens`), and no
message names a piece that does not exist (`MaxIndex`). The code checks none of the
three; section 6 refutes `ManagerKeepsRunning` without each of them. The theorem is
about the messages of the model: the answers of the piece and disk actors and the
channels to the readers are assumed to work.

`PieceManagerProofs`. `BlockAccounting` and `CompleteIsVerified` are inductive over
the type invariant. `AttemptBoundCorrect` needs `AgeInv`, which relates each age to
the time until the next tick: a timer alone does not say that a tick is near.

`PeerFSMProofs`. `TypeCorrect` (the counters never underflow, the copies of a request
stay in bounds) rests on `Sendable`: what the writer is about to send came from
a piece actor that did not have it handed out. `NoLostWakeupCorrect` rests on `Aware`:
outside the start of a pass, either the last full pass saw the present flags, or a
permit is stored, or the reader is about to give one. `WindowRespectedCorrect` and
`LeakBoundedCorrect` are for a peer that does not choke us again. The two are not
inductive; `Window` adds what the writer is about to send (`Fits`: counter, batch
and the request not yet counted stay within the window), that nothing is sent before
the Unchoke (`Unchoked`), and that the counter and the unanswered requests differ by
at most the uncounted request and one leaked slot (`Balance`).

`HaveBroadcastProofs`. `Rounds` says how often the pieces below `last_seen`, between
it and `seen`, and above were announced at each place of the writer; the counts of
the property alone are not inductive, because a round may announce pieces that the
next round repeats. `AtMostTwice` and `NoGap` follow.

`PieceCompletionProofs`. `PieceSteps` says that each step of the composition is one of
`PieceManager`, or leaves its state alone but for a delivery whose answer is dropped;
so `PieceInvCorrect` reuses the lemmas of `PieceManagerProofs`. `FlushedOnceHolds`
follows from `FlushInv`, which ties the number of flushes to the manager's bit.
`StoredIsRight` is the positive side of the violation of section 6: as long as no
peer has answered wrongly, what is stored is what the hash promises; `StoreInv` says
which blocks are already on the disk.

`PeerDiscoveryProofs`. `TypeCorrect` includes the capacity of the channel.
`OncePerTierHolds` rests on `FreshIsNew`: what a tier has handed on is in the list, and
what it holds between its two critical sections it has not handed on. `Orphaned`
says that the orchestrator gives up only when the channel is empty and every sender is
gone; with it and `Joined` follows `SecondTorrentWaitsHolds`, with it and `Counted` (a
round has fewer failures than its index) `TierSurvivesHolds`. `SeenIsHandedOnHolds` needs
`NothingInHand` for the single loop.

`DiskManagerProofs`. For every list of file sizes, every piece length and every
sequence of flushes, reads and failures. Sums over the files are the recursive
function `ByteOffset`; that it exists and grows is proved by induction (below), and
`EveryByteInFile` follows: each byte of the download lies in exactly one file. The
invariant needs `Position`, the place in the stream where the job stands, because
`pending` alone does not say which bytes are left when files are skipped: `Shape` ties
the two together (`BytesAreInPlace`, `TypeCorrect`), and `Complete` says that a flush has
written, and a read has, exactly what lies before it. `FilesLie`, `OneFile` and
`PiecesLie` say how pieces and files overlap, `FindsBytes` that the file the loop stops at
holds the byte it is looking for. `FlushesComplete` and `ReadsBackExact` follow. Like the
properties, both are conditional on `write_err = {}`: a write that fails after it was
buffered is the disagreement `disk_deferred_error` of section 6.

`PeerWireProofs`. `ReaderInStep` is `StreamExact` for every list of messages that satisfies
the module's assumption, every length of the protocol string and every cut. The
invariant adds what the handshake's two steps leave (`InHandshake`). The work is in the
positions: `JoinedPrefix` places each message in the stream, `LengthIsThere` and
`MessageIsThere` say that a buffer standing at a boundary begins with the length, and
with the message once it is complete. `EncodedIsUnderstood` discharges the assumption for what fissure itself
sends: for every message that the encoder writes (`Written`: all integers of 32 bits,
all bitfields whose length fits) the octets are framed and mean what was written, with
the spare bits of a bitfield's last octet. It rests on `FourOctets` (put_u32 and
from_be_bytes), `EightBits`, `BitsOfOctets` and `FrameIs`. Messages of other clients
remain an assumption that TLC evaluates.

The modules fit together. `TorrentManager`, `PieceManager`, `PeerFSM` and `HaveBroadcast`
are separate models, and each stands for the others by a few variables. The theorems on
the abstract modules say that both sides mean the same steps:

| promise | kept by | relied on by |
|---|---|---|
| `ManagerView` | `ServesEveryPeerCorrect` (for each peer, with `peer_active_work`, `local_bitfield` and `peer_bitfields` behind its variables) | `SeesTheManager` |
| `PieceView` | `SeenAsPieceView` | `SeesThePiecesCorrect` (for each piece) |
| `PieceLedger` | `ImplementsLedger` | `FollowsTheLedger` |

`SeesTheManager` needs `Orderly`: the reader has one block in hand, so that a finish it
reports completes one piece, and no complete piece is assigned; a second report of a piece
is a stutter. From the two views follows `WorkIsOpenCorrect`. A connection takes fewer
steps than the views allow: it registers once, and its data is right, so no piece is
reset. TLC checks the four statements on small instances under `manager_view.cfg`,
`fsm_view.cfg`, `piece_view.cfg` and `have_ledger.cfg`.

Induction. The library's induction theorems take a predicate, which the provers cannot
instantiate. `SetInduction`, in both modules, is induction for a set instead: a set that
holds 0 and successors holds every natural number, from `NatLessThanWellFounded` and
`WFMin` (a set that is not empty has a least element).

What is proved and what is not: every invariant and every action property of a passing
run is stated by a theorem. Only model-checked are the properties under fairness
(`HeldPiecesComplete`, `EventuallyVerified`, `EventuallyFlushed`, `SlotsComeBack`,
`StaleWorkPruned`, `WantedPiecesComplete`, `EventuallyTold`, `EventuallyTried`,
`EverythingRead`): liveness, like ENABLED, is out of the prover's reach. The type
invariant of `PieceCompletion` is proved and not part of a run.

## 6. Where code and comments disagree

One disagreement, `completion_late_block`, is a listed run and a finding in
`PROJECT.json`. The others below are properties of the modules that TLC refutes
under the named configuration (`tlc -config <file> <module>`); the passing runs state
what does hold.

| configuration | module | property | what the code does |
|---|---|---|---|
| `manager_have_first.cfg` | `MCTorrentManager` | `ManagerKeepsRunning` | a Have before the optional Bitfield sets a bit of an empty `BitVec` and panics the manager |
| `manager_short_field.cfg` | `MCTorrentManager` | `ManagerKeepsRunning` | a Bitfield of any length is stored; a Have for a piece that exists, past its end, panics the manager (torrent_manager.rs:102) |
| `manager_have_beyond.cfg` | `MCTorrentManager` | `ManagerKeepsRunning` | the index of a Have is not checked; after a proper Bitfield one past its end panics the manager (torrent_manager.rs:102) |
| `manager_spare_bits.cfg` | `MCTorrentManager` | `ManagerKeepsRunning` | a spare bit indexes `pieces_frequency` out of range; DOCUMENTATION.md:12 says clients should drop the connection |
| `manager_lost_slots.cfg` | `MCTorrentManager` | `WorkCountExact` | `AddPeer` of a known peer empties its work but keeps its worker slots (line 27: "How many peers are currently working on it") |
| `manager_failed_flush.cfg` | `MCTorrentManager` | `AdvertisedIsStored` | a failed flush is logged only, and the piece stays in the bitfield that peers are sent |
| `completion_late_block.cfg` | `MCPieceCompletion` | `StoredIsVerified` | a late block overwrites a verified buffer before the disk actor reads it |
| `fsm_choke_leak.cfg` | `MCPeerFSM` | `ChokedWindowEmpty` | requests sent on a stale choke flag are counted after the reset and hold window slots |
| `fsm_interest.cfg` | `MCPeerFSM` | `InterestShown` | a Have neither notifies the writer nor recomputes `has_useful_pieces` (line 24 lists it) |
| `fsm_prune.cfg` | `MCPeerFSM` | `AssignedIsTracked` | the watchdog prunes a valid piece that was assigned after its list was made (torrent_manager.rs:482-487) |
| `fsm_end.cfg` | `MCPeerFSM` | `NoWorkAfterEnd` | the writer is detached, not stopped, when the reader ends, and is still assigned pieces (line 411) |
| `have_missed.cfg` | `MCHaveBroadcast` | `PeerIsUpToDate` | a piece logged between `AddPeer` and the first read of the channel is in neither the Bitfield nor a Have |
| `client_second_torrent.cfg` | `MCPeerDiscovery` | `EveryTorrentStarts` | the client actor awaits the tasks of a torrent inside the handler that starts them, and these end only by panics (client_manager.rs:99); README.md:28-29 says that the services already handle multiple torrents |
| `disk_deferred_error.cfg` | `MCDiskManager` | `PersistedIsStored` | a write that fails after buffering was answered with true (line 111) |

Met while modelling, without a configuration: failed handshakes are never retried,
because the peer stays in the list of seen peers; peers at one address with different
ports count as one (torrent_refresh.rs:65); the promotion of a tracker has no effect
(lines 36, 75-76); the logger blocks a runtime thread for 15 s with `std::thread::sleep`
(helper.rs:23).

## 7. Not modelled

- The octets of tracker requests and the parsing of tracker answers
  (`tracker.rs` 154-327), torrent files, bencoding and settings: pure conversions of
  library types, without state; a wrong one shows in a unit test.
- Start-up, log levels and the peer id (`main.rs`, `helper.rs` 10-20): once, before
  anything runs.
- A block offset beyond the piece (piece_manager.rs:100) ends the piece actor by an
  index out of range; the modelled peers answer with an offset they were asked for. If
  it ends before the disk actor has read a verified piece, the read is empty (282) and
  the flush is still answered with true (disk_manager.rs:97-98).
- Uploading (the `Request` message) is a TODO in the code, and there is no
  cancellation on shutdown and no persistence of the download's state, so there is
  no restart to model.

Left to do: the views are about safety; that the manager answers "none" only when nothing
is assignable, which `fsm_live` relies on, is not derived from `TorrentManager` (there the
cap may refuse too); a piece actor that ends, seen by its readers.
