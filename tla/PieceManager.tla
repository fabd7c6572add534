---------------------------- MODULE PieceManager ----------------------------
(***************************************************************************)
(* One piece being downloaded: the PieceRequestManager actor that all peer *)
(* tasks working on the piece share (managers/piece_manager.rs).  It hands *)
(* out blocks, each to one peer at a time until its attempt times out,     *)
(* collects the answers, also late ones, and checks the hash when it has   *)
(* all blocks.  The peers are its environment: they answer a request       *)
(* rightly, wrongly, with too much data, late, or never.                   *)
(***************************************************************************)
EXTENDS Integers, FiniteSets

CONSTANTS
  Peers,               \* peer tasks that work on the piece
  NumBlocks,           \* blocks of the piece
  BlockRequestTimeout, \* peer_options.block_request_timeout, in seconds
  MaxFaults            \* bound on wrong, too long and lost answers

ASSUME PieceAssumptions ==
  /\ IsFiniteSet(Peers)
  /\ NumBlocks \in Nat \ {0}
  /\ BlockRequestTimeout \in Nat
  /\ MaxFaults \in Nat

Blocks == 0 .. NumBlocks - 1

\* What the buffer holds for a block, and what an answer may carry: the block,
\* other data, the block and more, or more than the rest of the buffer holds.
Held == {"zero", "good", "bad"}
Contents == {"good", "bad", "long", "oversize"}

NoTimer == -1

VARIABLES
  downloaded_blocks,
  blocks_in_flight,
  required_blocks,
  in_flight_timers, \* seconds since the block was handed out, or NoTimer
  data,
  next_tick,        \* seconds until the ticker fires
  wire,             \* requests that peers have not answered
  faults            \* faults of the environment so far

blockVars == <<downloaded_blocks, blocks_in_flight, required_blocks, in_flight_timers>>
pieceVars == <<blockVars, data, next_tick>>
vars == <<pieceVars, wire, faults>>

Init ==
  /\ downloaded_blocks = {}
  /\ blocks_in_flight = {}
  /\ required_blocks = Blocks
  /\ in_flight_timers = [b \in Blocks |-> NoTimer]
  /\ data = [b \in Blocks |-> "zero"]
  /\ next_tick = 0
  /\ wire = {}
  /\ faults = 0

----------------------------------------------------------------------------
(* BlocksToRequest                                                         *)

Requestable == (required_blocks \ blocks_in_flight) \ downloaded_blocks

\* The n requestable blocks of lowest index.
Batch(n) == {b \in Requestable : Cardinality({c \in Requestable : c < b}) < n}

\* The writer of peer p asks for up to n blocks and sends the requests.
BlocksToRequest(p, n) ==
  /\ Batch(n) # {}
  /\ blocks_in_flight' = blocks_in_flight \cup Batch(n)
  /\ in_flight_timers' =
       [b \in Blocks |-> IF b \in Batch(n) THEN 0 ELSE in_flight_timers[b]]
  /\ wire' = wire \cup {<<p, b>> : b \in Batch(n)}
  /\ UNCHANGED <<downloaded_blocks, required_blocks, data, next_tick, faults>>

----------------------------------------------------------------------------
(* BlockRecived                                                            *)

\* Variant: writes what does not fit.
WrittenAnyway(b, content) == [data EXCEPT ![b] = content]

\* The end of the data is compared with that of the buffer, not of the block.
Fits(b, content) ==
  content # "oversize" /\ (content = "long" => b + 1 \in Blocks)

\* The buffer after an answer: data that does not fit is logged and dropped,
\* and data longer than its block runs into the next one.
Written(b, content) ==
  IF ~Fits(b, content) THEN data
  ELSE IF content = "long" THEN [data EXCEPT ![b] = "good", ![b + 1] = "bad"]
  ELSE [data EXCEPT ![b] = content]

\* Variant: only the block that completes the piece triggers the check.
CompletesFirst(b) == b \notin downloaded_blocks /\ downloaded_blocks \cup {b} = Blocks

\* downloaded_blocks.all() after this block, also when it was complete before.
Completes(b) == downloaded_blocks \cup {b} = Blocks

HashMatches(buffer) == \A b \in Blocks : buffer[b] = "good"

\* The reply of block_recvied to the reader task: the piece is done.
PieceDone(b, content) == Completes(b) /\ HashMatches(Written(b, content))

\* Variant: a block that arrived keeps its timer.
AcceptKeepingTimer(b) ==
  /\ downloaded_blocks' = downloaded_blocks \cup {b}
  /\ blocks_in_flight' = blocks_in_flight \ {b}
  /\ required_blocks' = required_blocks \ {b}
  /\ UNCHANGED in_flight_timers

Accept(b) ==
  /\ downloaded_blocks' = downloaded_blocks \cup {b}
  /\ blocks_in_flight' = blocks_in_flight \ {b}
  /\ required_blocks' = required_blocks \ {b}
  /\ in_flight_timers' = [in_flight_timers EXCEPT ![b] = NoTimer]

\* Variant: the reset does not ask for the blocks again.
ResetWithoutRequired(b) ==
  /\ downloaded_blocks' = {}
  /\ required_blocks' = required_blocks \ {b}
  /\ blocks_in_flight' = {}
  /\ in_flight_timers' = [c \in Blocks |-> NoTimer]

\* All blocks are there and the hash is wrong: all are asked for again.
Reset(b) ==
  /\ downloaded_blocks' = {}
  /\ required_blocks' = Blocks
  /\ blocks_in_flight' = {}
  /\ in_flight_timers' = [c \in Blocks |-> NoTimer]

BlockRecived(b, content) ==
  /\ data' = Written(b, content)
  /\ IF Completes(b) /\ ~HashMatches(Written(b, content)) THEN Reset(b) ELSE Accept(b)
  /\ UNCHANGED next_tick

\* The number of faults that a step of the environment adds is bounded.
Fault(count) ==
  /\ faults + count <= MaxFaults
  /\ faults' = faults + count

\* Peer p answers its request for b, however late.
Answer(p, b, content) ==
  /\ <<p, b>> \in wire
  /\ wire' = wire \ {<<p, b>>}
  /\ Fault(IF content = "good" THEN 0 ELSE 1)
  /\ BlockRecived(b, content)

\* The request, or its answer, is lost: the peer chokes us, drops it or goes.
Lose(p, b) ==
  /\ <<p, b>> \in wire
  /\ wire' = wire \ {<<p, b>>}
  /\ Fault(1)
  /\ UNCHANGED pieceVars

----------------------------------------------------------------------------
(* The ticker                                                              *)

\* Variant: the ticker does not follow a timeout below four seconds.
FixedInterval == 4

TickInterval ==
  IF BlockRequestTimeout < 1 THEN 1
  ELSE IF BlockRequestTimeout > 4 THEN 4 ELSE BlockRequestTimeout

\* Variant: the ticker finds nothing to expire.
NeverExpired == {b \in Blocks : FALSE}

Expired == {b \in Blocks : in_flight_timers[b] > BlockRequestTimeout}

\* Blocks whose exclusive attempt timed out may be handed out again.
Tick ==
  /\ next_tick = 0
  /\ next_tick' = TickInterval
  /\ blocks_in_flight' = blocks_in_flight \ Expired
  /\ in_flight_timers' =
       [b \in Blocks |-> IF b \in Expired THEN NoTimer ELSE in_flight_timers[b]]
  /\ UNCHANGED <<downloaded_blocks, required_blocks, data, wire, faults>>

\* A block that is late by any amount behaves the same: ages stop here.
AgeCap == BlockRequestTimeout + TickInterval + 1

\* A second passes.  The actor handles a tick within the second it is due.
TimePasses ==
  /\ next_tick > 0
  /\ next_tick' = next_tick - 1
  /\ in_flight_timers' =
       [b \in Blocks |-> IF in_flight_timers[b] \in 0 .. AgeCap - 1
                           THEN in_flight_timers[b] + 1 ELSE in_flight_timers[b]]
  /\ UNCHANGED <<downloaded_blocks, blocks_in_flight, required_blocks, data, wire, faults>>

----------------------------------------------------------------------------

Ask(p) == \E n \in 1 .. NumBlocks : BlocksToRequest(p, n)

Next ==
  \/ \E p \in Peers :
       \/ Ask(p)
       \/ \E b \in Blocks :
            \/ \E content \in Contents : Answer(p, b, content)
            \/ Lose(p, b)
  \/ Tick
  \/ TimePasses

Spec == Init /\ [][Next]_vars

\* Some peer task tops off its window again and again (its writer's ticker),
\* time passes, and requests that are not lost are answered in the end.
Fairness ==
  /\ WF_vars(\E p \in Peers : Ask(p))
  /\ \A p \in Peers, b \in Blocks : WF_vars(Answer(p, b, "good"))
  /\ WF_vars(Tick)
  /\ WF_vars(TimePasses)

FairSpec == Spec /\ Fairness

----------------------------------------------------------------------------
(* Properties                                                              *)

TypeOK ==
  /\ downloaded_blocks \subseteq Blocks
  /\ blocks_in_flight \subseteq Blocks
  /\ required_blocks \subseteq Blocks
  /\ in_flight_timers \in [Blocks -> NoTimer .. AgeCap]
  /\ data \in [Blocks -> Held]
  /\ next_tick \in 0 .. TickInterval
  /\ wire \subseteq Peers \X Blocks
  /\ faults \in 0 .. MaxFaults

\* Every block is either required or downloaded, only required blocks are in
\* flight, and exactly those have a timer, so that no block is lost between
\* the four structures by late answers, time-outs and resets (lines 81-133,
\* 185-194).
BlockAccounting ==
  /\ required_blocks = Blocks \ downloaded_blocks
  /\ blocks_in_flight \subseteq required_blocks
  /\ blocks_in_flight = {b \in Blocks : in_flight_timers[b] # NoTimer}

\* While the actor regards the piece as complete its buffer has the right
\* content, also after late answers have overwritten parts of it (lines
\* 117-134).
CompleteIsVerified ==
  downloaded_blocks = Blocks => HashMatches(data)

\* "Tick at least as often as the configured timeout" (lines 63-67): no peer
\* keeps a block to itself longer than the timeout and one tick interval.
ExclusiveAttemptBounded ==
  \A b \in Blocks :
    in_flight_timers[b] <=
      BlockRequestTimeout + (IF BlockRequestTimeout > 1 THEN BlockRequestTimeout ELSE 1)

\* A block in flight was asked of a peer, and can be answered or times out;
\* after finitely many faults the piece completes and stays complete.
EventuallyVerified == <>[](downloaded_blocks = Blocks)

\* Each peer sees the actor as PeerFSM has it (lines 81-133 and 185-194): a
\* block goes to one peer until its attempt times out.
View == INSTANCE PieceView WITH
  missing <- Blocks \ downloaded_blocks, handed <- blocks_in_flight

ViewSpec == View!Spec
=============================================================================
