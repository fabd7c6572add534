------------------------------ MODULE PeerFSM ------------------------------
(***************************************************************************)
(* One peer connection (protocols/peer_protocol_state_machine.rs): the     *)
(* writer task asks the torrent manager for pieces and the peer for        *)
(* blocks, the reader task handles what the peer sends, the watchdog       *)
(* prunes pieces the manager has taken back, and a fourth task waits for   *)
(* the end.  They share locked or atomic fields and two Notify permits;    *)
(* what happens between two awaits or atomic accesses is one step.         *)
(*                                                                         *)
(* The torrent manager and the piece actors (modules TorrentManager and    *)
(* PieceManager) appear as far as this connection sees them, one message   *)
(* at a time; other connections complete pieces and time blocks out.       *)
(***************************************************************************)
EXTENDS Integers, FiniteSets

CONSTANTS
  Pieces,      \* pieces of the torrent
  Blocks,      \* blocks of a piece
  MaxInflight, \* peer_options.per_peer_inflight_count
  MaxActive,   \* peer_options.per_peer_active_request_count
  MaxSent,     \* bound on copies of a request on the wire
  Chokes,      \* the peer may choke us again
  Regreets,    \* the peer may send another Bitfield
  Others,      \* other connections may complete pieces
  Closes,      \* the connection may close
  Timely       \* a watchdog round never overlaps the writer taking a piece

ASSUME PeerFSMAssumptions ==
  /\ IsFiniteSet(Pieces) /\ IsFiniteSet(Blocks) /\ Blocks # {}
  /\ {MaxInflight, MaxActive, MaxSent} \subseteq Nat \ {0}
  /\ {Chokes, Regreets, Others, Closes, Timely} \subseteq BOOLEAN

Requests == Pieces \X Blocks
BlocksOf(i) == {i} \X Blocks

VARIABLES
  state, \* PeerState: peer_choking, has_useful_pieces, am_interested
  net,   \* PeerFSMNetworkState: the two counters, active_requests, the permits
  w,     \* the writer; seen_* is what its last full pass read
  r,     \* the reader and the message it has in hand
  d,     \* the watchdog and the manager's answer to it
  fsm,   \* the task that waits for the other two
  m,     \* the manager's and the piece actors' view of this connection
  remote \* the peer: whether it chokes us, requests not answered, end of stream

vars == <<state, net, w, r, d, fsm, m, remote>>

Init ==
  /\ state = [peer_choking |-> TRUE, has_useful_pieces |-> TRUE, am_interested |-> FALSE]
  /\ net = [pending |-> 0, inflight |-> 0, active |-> {},
            state_update |-> FALSE, block_acked |-> FALSE]
  /\ w = [pc |-> "start", full |-> TRUE, choked |-> TRUE, progress |-> FALSE,
          got |-> {}, room |-> 0, candidates |-> {}, batch |-> {},
          seen_choked |-> TRUE, seen_useful |-> TRUE]
  /\ r = [pc |-> "idle", block |-> {}, tracked |-> FALSE, useful |-> FALSE]
  /\ d = [pc |-> "idle", list |-> {}]
  /\ fsm = "running"
  /\ m = [assigned |-> {}, done |-> {}, announced |-> {}, greeted |-> FALSE,
          missing |-> Requests, handed |-> {}]
  /\ remote = [choking |-> TRUE, sent |-> [q \in Requests |-> 0], closed |-> FALSE]

----------------------------------------------------------------------------
(* The writer's passes                                                     *)

\* Our own Bitfield goes out before the first pass.
SendBitfield ==
  /\ w.pc = "start"
  /\ w' = [w EXCEPT !.pc = "pass"]
  /\ UNCHANGED <<state, net, r, d, fsm, m, remote>>

\* One read of the peer's state, and Interested if that is news to the peer.
Snapshot ==
  /\ w.pc = "pass"
  /\ w' = [w EXCEPT !.pc = "slots", !.full = TRUE, !.progress = FALSE,
                    !.choked = state.peer_choking, !.seen_choked = state.peer_choking,
                    !.seen_useful = state.has_useful_pieces]
  /\ state' = [state EXCEPT !.am_interested = @ \/ state.has_useful_pieces]
  /\ UNCHANGED <<net, r, d, fsm, m, remote>>

CheckSlots ==
  /\ w.pc = "slots"
  /\ w' = [w EXCEPT !.pc = IF ~w.choked /\ net.pending < MaxActive THEN "ask" ELSE "window"]
  /\ UNCHANGED <<state, net, r, d, fsm, m, remote>>

\* What RequestWork may assign to this peer, the cap of a piece aside.
Assignable == (m.announced \ m.done) \ m.assigned

\* The manager assigns a piece, or has none for this peer.
AskForPiece ==
  /\ w.pc = "ask"
  /\ Timely => d.pc = "idle"
  /\ \/ \E i \in Assignable :
          /\ m' = [m EXCEPT !.assigned = @ \cup {i}]
          /\ w' = [w EXCEPT !.pc = "insert", !.got = {i}]
     \/ /\ Assignable = {}
        /\ w' = [w EXCEPT !.pc = "window"]
        /\ UNCHANGED m
  /\ UNCHANGED <<state, net, r, d, fsm, remote>>

Insert ==
  /\ w.pc = "insert"
  /\ w' = [w EXCEPT !.pc = "count", !.got = {}]
  /\ net' = [net EXCEPT !.active = @ \cup w.got]
  /\ UNCHANGED <<state, r, d, fsm, m, remote>>

CountPiece ==
  /\ w.pc = "count"
  /\ w' = [w EXCEPT !.pc = "window", !.progress = TRUE]
  /\ net' = [net EXCEPT !.pending = @ + 1]
  /\ UNCHANGED <<state, r, d, fsm, m, remote>>

\* A full pass that got something done starts over, any other ends.
AfterPass == IF w.full /\ w.progress THEN "pass" ELSE "select"

\* Variant: room for one request too many.
RoomPlusOne == MaxInflight - net.inflight + 1

WindowRoom == MaxInflight - net.inflight

LoadWindow ==
  /\ w.pc = "window"
  /\ w' = IF w.choked \/ net.inflight >= MaxInflight
            THEN [w EXCEPT !.pc = AfterPass]
            ELSE [w EXCEPT !.pc = "tracked", !.room = WindowRoom]
  /\ UNCHANGED <<state, net, r, d, fsm, m, remote>>

ReadTracked ==
  /\ w.pc = "tracked"
  /\ w' = [w EXCEPT !.pc = "blocks", !.candidates = net.active]
  /\ UNCHANGED <<state, net, r, d, fsm, m, remote>>

Requestable(i) == (m.missing \ m.handed) \cap BlocksOf(i)

\* What piece actor i hands out for a window of n blocks.
Batches(i, n) ==
  {b \in SUBSET Requestable(i) :
     \/ Cardinality(b) = n
     \/ Cardinality(b) < n /\ b = Requestable(i)}

\* The candidates are asked in random order until one hands out blocks.
TakeBlocks ==
  /\ w.pc = "blocks"
  /\ \/ \E i \in w.candidates : \E b \in Batches(i, w.room) \ {{}} :
          /\ w' = [w EXCEPT !.pc = "send", !.room = 0, !.candidates = {}, !.batch = b]
          /\ m' = [m EXCEPT !.handed = @ \cup b]
     \/ \E i \in w.candidates :
          /\ Requestable(i) = {}
          /\ w' = [w EXCEPT !.candidates = @ \ {i}]
          /\ UNCHANGED m
     \/ /\ w.candidates = {}
        /\ w' = [w EXCEPT !.pc = AfterPass, !.room = 0]
        /\ UNCHANGED m
  /\ UNCHANGED <<state, net, r, d, fsm, remote>>

SentPlus(q, n) == [remote.sent EXCEPT ![q] = @ + n]

SendRequest ==
  /\ w.pc = "send"
  /\ \E q \in w.batch :
       /\ remote' = [remote EXCEPT !.sent = SentPlus(q, 1)]
       /\ w' = [w EXCEPT !.pc = "sent", !.batch = @ \ {q}]
  /\ UNCHANGED <<state, net, r, d, fsm, m>>

\* A request is counted after it was sent.  After the last one of a batch a
\* full pass starts over; a top-off looks at the window again.
CountRequest ==
  /\ w.pc = "sent"
  /\ net' = [net EXCEPT !.inflight = @ + 1]
  /\ w' = [w EXCEPT !.pc = IF w.batch # {} THEN "send" ELSE IF w.full THEN "pass" ELSE "window"]
  /\ UNCHANGED <<state, r, d, fsm, m, remote>>

----------------------------------------------------------------------------
(* The writer's select! loop.  A permit is taken before the pass starts.   *)

WakeOnState ==
  /\ w.pc = "select" /\ net.state_update
  /\ net' = [net EXCEPT !.state_update = FALSE]
  /\ w' = [w EXCEPT !.pc = "pass"]
  /\ UNCHANGED <<state, r, d, fsm, m, remote>>

WakeOnBlock ==
  /\ w.pc = "select" /\ net.block_acked
  /\ net' = [net EXCEPT !.block_acked = FALSE]
  /\ w' = [w EXCEPT !.pc = "window", !.full = FALSE, !.progress = FALSE,
                    !.choked = state.peer_choking]
  /\ UNCHANGED <<state, r, d, fsm, m, remote>>

WakeOnTick ==
  /\ w.pc = "select"
  /\ w' = [w EXCEPT !.pc = "pass"]
  /\ UNCHANGED <<state, net, r, d, fsm, m, remote>>

\* A send on a closed connection fails, and the writer returns, or panics if
\* it is our Bitfield: a request, Interested, or a Have for a complete piece.
WriterEnds ==
  /\ remote.closed
  /\ \/ w.pc \in {"start", "send"}
     \/ w.pc = "pass" /\ state.has_useful_pieces /\ ~state.am_interested
     \/ w.pc = "select" /\ m.done # {}
  /\ w' = [w EXCEPT !.pc = "ended"]
  /\ UNCHANGED <<state, net, r, d, fsm, m, remote>>

----------------------------------------------------------------------------
(* The reader                                                              *)

Listening == r.pc = "idle" /\ ~remote.closed

ReceiveChoke ==
  /\ Chokes /\ Listening /\ ~remote.choking
  /\ remote' = [remote EXCEPT !.choking = TRUE]
  /\ state' = [state EXCEPT !.peer_choking = TRUE]
  /\ r' = [r EXCEPT !.pc = "clear"]
  /\ UNCHANGED <<net, w, d, fsm, m>>

ClearWindow ==
  /\ r.pc = "clear"
  /\ net' = [net EXCEPT !.inflight = 0]
  /\ r' = [r EXCEPT !.pc = "notify"]
  /\ UNCHANGED <<state, w, d, fsm, m, remote>>

\* Variant: Unchoke is left to the ticker.
QuietUnchoke == "idle"

\* Unchoke is a real state change, after which the writer is notified.
AfterUnchoke == "notify"

ReceiveUnchoke ==
  /\ Listening /\ remote.choking
  /\ remote' = [remote EXCEPT !.choking = FALSE]
  /\ state' = [state EXCEPT !.peer_choking = FALSE]
  /\ r' = [r EXCEPT !.pc = AfterUnchoke]
  /\ UNCHANGED <<net, w, d, fsm, m>>

\* Interested and NotInterested set a field nobody reads, and notify.
ReceiveInterest ==
  /\ Listening
  /\ r' = [r EXCEPT !.pc = "notify"]
  /\ UNCHANGED <<state, net, w, d, fsm, m, remote>>

\* Have goes to the manager only.  (A Have before the Bitfield ends the
\* manager: module TorrentManager.)
ReceiveHave(i) ==
  /\ Listening /\ m.greeted
  /\ m' = [m EXCEPT !.announced = @ \cup {i}]
  /\ UNCHANGED <<state, net, w, r, d, fsm, remote>>

\* add_bitfield, whose own answer about useful pieces is not used.
ReceiveBitfield(pieces) ==
  /\ Listening
  /\ m.greeted => Regreets
  /\ m' = [m EXCEPT !.greeted = TRUE, !.announced = pieces]
  /\ r' = [r EXCEPT !.pc = "query"]
  /\ UNCHANGED <<state, net, w, d, fsm, remote>>

\* has_useful_pieces: other pieces may have completed since the Bitfield.
AskUseful ==
  /\ r.pc = "query"
  /\ r' = [r EXCEPT !.pc = "useful", !.useful = m.announced \ m.done # {}]
  /\ UNCHANGED <<state, net, w, d, fsm, m, remote>>

SetUseful ==
  /\ r.pc = "useful"
  /\ state' = [state EXCEPT !.has_useful_pieces = r.useful]
  /\ r' = [r EXCEPT !.pc = "notify", !.useful = FALSE]
  /\ UNCHANGED <<net, w, d, fsm, m, remote>>

NotifyState ==
  /\ r.pc = "notify"
  /\ net' = [net EXCEPT !.state_update = TRUE]
  /\ r' = [r EXCEPT !.pc = "idle", !.block = {}, !.tracked = FALSE]
  /\ UNCHANGED <<state, w, d, fsm, m, remote>>

----------------------------------------------------------------------------
(* The reader handles a Piece message                                      *)

\* Variant: subtracts without saturation.
Wrapping(n) == n - 1

\* Variant: does not give the slot back.
NotGivenBack(n) == n

Saturating(n) == IF n = 0 THEN 0 ELSE n - 1

\* A block arrives, possibly after a Choke.
ReceivePiece(q) ==
  /\ Listening /\ remote.sent[q] > 0
  /\ remote' = [remote EXCEPT !.sent = SentPlus(q, -1)]
  /\ net' = [net EXCEPT !.inflight = Saturating(@)]
  /\ r' = [r EXCEPT !.pc = "track", !.block = {q}]
  /\ UNCHANGED <<state, w, d, fsm, m>>

\* The piece of the block in hand.
PieceInHand == {q[1] : q \in r.block}

LookUpTracked ==
  /\ r.pc = "track"
  /\ r' = IF PieceInHand \subseteq net.active
            THEN [r EXCEPT !.pc = "deliver", !.tracked = TRUE]
            ELSE [r EXCEPT !.pc = "lookup"]
  /\ UNCHANGED <<state, net, w, d, fsm, m, remote>>

\* Variant: a block of a piece that is not tracked is dropped.
DropUntracked ==
  /\ r.pc = "lookup"
  /\ r' = [r EXCEPT !.pc = "ack"]
  /\ UNCHANGED <<state, net, w, d, fsm, m, remote>>

\* get_piece_manager: nothing for a complete piece, and the block is dropped.
LookUpAtManager ==
  /\ r.pc = "lookup"
  /\ r' = [r EXCEPT !.pc = IF PieceInHand \subseteq m.done THEN "ack" ELSE "deliver"]
  /\ UNCHANGED <<state, net, w, d, fsm, m, remote>>

\* block_recvied, with the right data: true if that verifies the piece.
Deliver ==
  /\ r.pc = "deliver"
  /\ m' = [m EXCEPT !.missing = @ \ r.block, !.handed = @ \ r.block]
  /\ r' = [r EXCEPT !.pc = IF (PieceInHand \X Blocks) \cap m'.missing = {}
                             THEN "finish" ELSE "ack"]
  /\ UNCHANGED <<state, net, w, d, fsm, remote>>

NotifyBlock ==
  /\ r.pc = "ack"
  /\ net' = [net EXCEPT !.block_acked = TRUE]
  /\ r' = [r EXCEPT !.pc = "idle", !.block = {}, !.tracked = FALSE]
  /\ UNCHANGED <<state, w, d, fsm, m, remote>>

\* piece_finish: the manager completes the piece and takes it from all peers.
FinishPiece ==
  /\ r.pc = "finish"
  /\ m' = [m EXCEPT !.done = @ \cup PieceInHand, !.assigned = @ \ PieceInHand]
  /\ r' = [r EXCEPT !.pc = IF r.tracked THEN "remove" ELSE "notify"]
  /\ UNCHANGED <<state, net, w, d, fsm, remote>>

\* The slot is given back unless the watchdog pruned the piece before.
RemoveFinished ==
  /\ r.pc = "remove"
  /\ net' = [net EXCEPT !.active = @ \ PieceInHand]
  /\ r' = [r EXCEPT !.pc = IF PieceInHand \subseteq net.active THEN "free" ELSE "notify"]
  /\ UNCHANGED <<state, w, d, fsm, m, remote>>

FreeSlot ==
  /\ r.pc = "free"
  /\ net' = [net EXCEPT !.pending = Saturating(@)]
  /\ r' = [r EXCEPT !.pc = "notify"]
  /\ UNCHANGED <<state, w, d, fsm, m, remote>>

\* The stream ends or fails.
ReaderEnds ==
  /\ r.pc = "idle" /\ remote.closed
  /\ r' = [r EXCEPT !.pc = "ended"]
  /\ UNCHANGED <<state, net, w, d, fsm, m, remote>>

----------------------------------------------------------------------------
(* The watchdog, and the end of the connection                             *)

TakingPiece == w.pc \in {"insert", "count", "window", "tracked", "blocks"}

\* The manager drops the assignments that are late and answers with the rest.
QueryActive(late) ==
  /\ d.pc = "idle"
  /\ Timely => ~TakingPiece
  /\ late \subseteq m.assigned
  /\ m' = [m EXCEPT !.assigned = @ \ late]
  /\ d' = [pc |-> "store", list |-> m.assigned \ late]
  /\ UNCHANGED <<state, net, w, r, fsm, remote>>

\* Variant: the watchdog only raises the count.
NeverLower == IF Cardinality(d.list) > net.pending THEN Cardinality(d.list) ELSE net.pending

StillActive == Cardinality(d.list)

StorePending ==
  /\ d.pc = "store"
  /\ net' = [net EXCEPT !.pending = StillActive]
  /\ d' = [d EXCEPT !.pc = "prune"]
  /\ UNCHANGED <<state, w, r, fsm, m, remote>>

\* Variant: prunes nothing.
Unpruned == net.active

Retained == net.active \cap d.list

Prune ==
  /\ d.pc = "prune"
  /\ net' = [net EXCEPT !.active = Retained, !.state_update = @ \/ Retained # net.active]
  /\ d' = [pc |-> "idle", list |-> {}]
  /\ UNCHANGED <<state, w, r, fsm, m, remote>>

\* state_machine sees the reader or the writer end and aborts the watchdog.
Terminate ==
  /\ fsm = "running"
  /\ "ended" \in {w.pc, r.pc}
  /\ fsm' = "terminated"
  /\ d' = [pc |-> "aborted", list |-> {}]
  /\ UNCHANGED <<state, net, w, r, m, remote>>

----------------------------------------------------------------------------
(* The connection, other connections and the remote peer                   *)

Close ==
  /\ Closes /\ ~remote.closed
  /\ remote' = [remote EXCEPT !.closed = TRUE]
  /\ UNCHANGED <<state, net, w, r, d, fsm, m>>

\* Another connection downloads the rest of a piece.
OtherFinishes(i) ==
  /\ Others /\ i \notin m.done
  /\ m' = [m EXCEPT !.done = @ \cup {i}, !.assigned = @ \ {i},
                    !.missing = @ \ BlocksOf(i), !.handed = @ \ BlocksOf(i)]
  /\ UNCHANGED <<state, net, w, r, d, fsm, remote>>

\* A block's exclusive attempt times out in the piece actor.
ExpireBlock(q) ==
  /\ q \in m.handed \ w.batch
  /\ remote.sent[q] < MaxSent
  /\ m' = [m EXCEPT !.handed = @ \ {q}]
  /\ UNCHANGED <<state, net, w, r, d, fsm, remote>>

\* A peer that chokes us discards a request.
DropRequest(q) ==
  /\ remote.choking /\ remote.sent[q] > 0
  /\ remote' = [remote EXCEPT !.sent = SentPlus(q, -1)]
  /\ UNCHANGED <<state, net, w, r, d, fsm, m>>

----------------------------------------------------------------------------

Pass ==
  \/ SendBitfield \/ Snapshot \/ CheckSlots \/ AskForPiece \/ Insert \/ CountPiece
  \/ LoadWindow \/ ReadTracked \/ TakeBlocks \/ SendRequest \/ CountRequest

Writer == Pass \/ WakeOnState \/ WakeOnBlock \/ WakeOnTick \/ WriterEnds

\* What the reader does with a message once it has it.
Handle ==
  \/ ClearWindow \/ AskUseful \/ SetUseful \/ NotifyState
  \/ LookUpTracked \/ LookUpAtManager \/ Deliver \/ NotifyBlock
  \/ FinishPiece \/ RemoveFinished \/ FreeSlot

Receive ==
  \/ ReceiveChoke \/ ReceiveUnchoke \/ ReceiveInterest
  \/ \E i \in Pieces : ReceiveHave(i)
  \/ \E pieces \in SUBSET Pieces : ReceiveBitfield(pieces)
  \/ \E q \in Requests : ReceivePiece(q)
  \/ ReaderEnds

Query == \E late \in SUBSET Pieces : QueryActive(late)

Next ==
  \/ Writer \/ Handle \/ Receive
  \/ Query \/ StorePending \/ Prune \/ Terminate
  \/ Close
  \/ \E i \in Pieces : OtherFinishes(i)
  \/ \E q \in Requests : ExpireBlock(q) \/ DropRequest(q)

Spec == Init /\ [][Next]_vars

\* The watchdog runs, and the manager answers it; every assignment times out
\* in the manager unless it is finished first.
WatchdogFairness ==
  /\ SF_vars(Query)
  /\ WF_vars(StorePending \/ Prune)
  /\ \A i \in Pieces : SF_vars(\E late \in SUBSET Pieces : i \in late /\ QueryActive(late))

WatchedSpec == Spec /\ WatchdogFairness

\* The tasks run, the ticker makes the writer pass again and again, and the
\* manager's mailbox lets the requests of writer and watchdog take turns.  A
\* peer we told we are interested unchokes us, and answers what it is asked;
\* blocks that it did not answer time out.
Fairness ==
  /\ WatchdogFairness
  /\ WF_vars(Pass)
  /\ SF_vars(AskForPiece)
  /\ WF_vars(WakeOnTick)
  /\ WF_vars(Handle)
  /\ SF_vars(state.am_interested /\ ReceiveUnchoke)
  /\ \A q \in Requests : SF_vars(ReceivePiece(q)) /\ SF_vars(ExpireBlock(q))

FairSpec == Spec /\ Fairness

----------------------------------------------------------------------------
(* Properties                                                              *)

PeerStates ==
  [peer_choking : BOOLEAN, has_useful_pieces : BOOLEAN, am_interested : BOOLEAN]
NetworkStates ==
  [pending : Nat, inflight : Nat, active : SUBSET Pieces,
   state_update : BOOLEAN, block_acked : BOOLEAN]
WriterStates ==
  [pc : {"start", "pass", "slots", "ask", "insert", "count", "window", "tracked",
         "blocks", "send", "sent", "select", "ended"},
   full : BOOLEAN, choked : BOOLEAN, progress : BOOLEAN, got : SUBSET Pieces,
   room : 0 .. MaxInflight, candidates : SUBSET Pieces, batch : SUBSET Requests,
   seen_choked : BOOLEAN, seen_useful : BOOLEAN]
ReaderStates ==
  [pc : {"idle", "clear", "query", "useful", "notify", "track", "lookup", "deliver", "ack",
         "finish", "remove", "free", "ended"},
   block : SUBSET Requests, tracked : BOOLEAN, useful : BOOLEAN]
WatchdogStates ==
  [pc : {"idle", "store", "prune", "aborted"}, list : SUBSET Pieces]
ManagerStates ==
  [assigned : SUBSET Pieces, done : SUBSET Pieces, announced : SUBSET Pieces,
   greeted : BOOLEAN, missing : SUBSET Requests, handed : SUBSET Requests]
RemoteStates ==
  [choking : BOOLEAN, sent : [Requests -> 0 .. MaxSent], closed : BOOLEAN]

TypeOK ==
  /\ state \in PeerStates
  /\ net \in NetworkStates
  /\ w \in WriterStates
  /\ r \in ReaderStates
  /\ d \in WatchdogStates
  /\ fsm \in {"running", "terminated"}
  /\ m \in ManagerStates
  /\ remote \in RemoteStates

\* A choke, an unchoke or a bitfield is never missed: when the writer waits
\* without a permit and the reader is not in the middle of a message, the
\* last full pass saw the state as it is, though the permit of a change may
\* be taken while another pass runs (lines 237-254, 306-331).
NoLostWakeup ==
  w.pc = "select" /\ r.pc = "idle" /\ ~net.state_update =>
    /\ w.seen_choked = state.peer_choking
    /\ w.seen_useful = state.has_useful_pieces

\* Requests the peer has not answered, every copy of one counted.
Unanswered == {copy \in Requests \X (1 .. MaxSent) : copy[2] <= remote.sent[copy[1]]}

Outstanding == Cardinality(Unanswered)

\* A peer that never chokes has at most per_peer_inflight_count unanswered
\* requests: one that is answered before it is counted, or an answer that
\* finds the counter at zero, never opens the window too far (lines 38-43,
\* 72-74, 338-341).
WindowRespected == Outstanding <= MaxInflight

\* A peer that never chokes can cost us at most one slot of the window for
\* ever: the counter exceeds the unanswered requests by one, when an answer
\* overtook the count of its request (lines 72-74, 341).
LeakBounded == net.inflight <= Outstanding + 1

\* A slot that is counted but holds no piece is freed: the writer does not
\* stay "maxed out on per_peer_active_request_count" with nothing to do
\* (lines 353-360, 185-203).
SlotsComeBack ==
  (net.pending >= MaxActive /\ net.active = {}) ~>
    (net.pending < MaxActive \/ net.active # {})

\* A piece that is complete, here or elsewhere, does not stay in
\* active_requests, even if it was inserted after it completed (lines
\* 136-137, 198-201).
StaleWorkPruned ==
  \A i \in Pieces : i \in m.done ~> [](i \notin net.active)

\* A piece the peer announced completes once we told the peer that we are
\* interested: lost permits, pruned work, timed-out assignments and blocks
\* delivered through the manager do not stall the connection for ever.
WantedPiecesComplete ==
  \A i \in Pieces : (i \in m.announced /\ state.am_interested) ~> i \in m.done

\* "number of block reqs in flight" (line 22), which a Choke resets: with no
\* request unanswered and both tasks waiting, nothing is counted.
ChokedWindowEmpty ==
  state.peer_choking /\ w.pc = "select" /\ r.pc = "idle" /\ Outstanding = 0 =>
    net.inflight = 0

\* "real state changes: choke/unchoke/interest/bitfield/have" (line 24): when
\* both tasks wait and the peer has announced a piece that we lack, it knows
\* that we are interested.
InterestShown ==
  w.pc = "select" /\ r.pc = "idle" /\ ~net.state_update =>
    m.announced \subseteq m.done \/ state.am_interested

\* The FSM "should clear anything from its active requsts list that is not in
\* what this function returns", the active and valid requests
\* (torrent_manager.rs, lines 482-487): what is still assigned is not
\* cleared.
AssignedIsTracked ==
  w.pc = "select" /\ r.pc = "idle" /\ d.pc = "idle" => m.assigned \subseteq net.active

\* "If one finishes (or crashes), we immediately proceed to cleanup" (line
\* 411): a connection that has terminated gets no more work.
NoWorkAfterEnd == [][fsm = "terminated" => m'.assigned \subseteq m.assigned]_vars

\* The connection sees no step of the manager but those that TorrentManager
\* promises (lines 118-160, 196-215, 316-331 and 352-372).
View == INSTANCE ManagerView WITH
  assigned <- m.assigned, done <- m.done, announced <- m.announced, greeted <- m.greeted

ViewSpec == View!Spec

\* And no step of a piece actor but those that PieceManager promises (lines
\* 45-79 and 334-365).
Piece(i) == INSTANCE PieceView WITH
  missing <- {b \in Blocks : <<i, b>> \in m.missing},
  handed <- {b \in Blocks : <<i, b>> \in m.handed}

SeesThePieces ==
  /\ \A i \in Pieces : Piece(i)!Init
  /\ [][\A i \in Pieces : [Piece(i)!Next]_(Piece(i)!vars)]_vars

\* Of both follows that what the connection has in hand is never finished
\* work, whoever finishes it when (lines 145-150 and 334-365).
WorkIsOpen == View!NoFinishedWork /\ \A i \in Pieces : Piece(i)!HandedIsMissing
=============================================================================
