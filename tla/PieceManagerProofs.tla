------------------------- MODULE PieceManagerProofs -------------------------
(***************************************************************************)
(* Theorems about PieceManager for any number of blocks and peers, any     *)
(* timeout and any number of faults.                                       *)
(***************************************************************************)
EXTENDS PieceManager, TLAPS

\* The ticker's period is positive and at most the timeout, or a second.
LEMMA IntervalBound ==
  /\ TickInterval \in Nat \ {0}
  /\ TickInterval <= (IF BlockRequestTimeout > 1 THEN BlockRequestTimeout ELSE 1)
  /\ AgeCap \in Nat
BY PieceAssumptions DEF TickInterval, AgeCap

\* What an answer leaves in the buffer is something the buffer can hold.
LEMMA WrittenType ==
  ASSUME TypeOK, NEW b \in Blocks, NEW content \in Contents
  PROVE  Written(b, content) \in [Blocks -> Held]
BY DEF TypeOK, Written, Fits, Contents, Held

LEMMA TypeNext == TypeOK /\ [Next]_vars => TypeOK'
<1> SUFFICES ASSUME TypeOK, [Next]_vars PROVE TypeOK'
  OBVIOUS
<1> USE DEF NoTimer
<1>1. ASSUME NEW p \in Peers, Ask(p) PROVE TypeOK'
  <2>1. PICK n \in 1 .. NumBlocks : BlocksToRequest(p, n)
    BY <1>1 DEF Ask
  <2>2. Batch(n) \subseteq Blocks
    BY DEF Batch, Requestable, TypeOK
  <2>3. in_flight_timers' \in [Blocks -> NoTimer .. AgeCap]
    BY <2>1, IntervalBound DEF BlocksToRequest, TypeOK
  <2> QED BY <2>1, <2>2, <2>3 DEF BlocksToRequest, TypeOK
<1>2. ASSUME NEW p \in Peers, NEW b \in Blocks, NEW content \in Contents,
             Answer(p, b, content)
      PROVE  TypeOK'
  <2>1. data' \in [Blocks -> Held]
    BY <1>2, WrittenType DEF Answer, BlockRecived
  <2>2. /\ downloaded_blocks' \subseteq Blocks
        /\ blocks_in_flight' \subseteq Blocks
        /\ required_blocks' \subseteq Blocks
        /\ in_flight_timers' \in [Blocks -> NoTimer .. AgeCap]
    BY <1>2, IntervalBound DEF Answer, BlockRecived, Accept, Reset, TypeOK
  <2>3. faults' \in 0 .. MaxFaults /\ next_tick' = next_tick /\ wire' \subseteq wire
    BY <1>2, PieceAssumptions DEF Answer, BlockRecived, Fault, TypeOK
  <2> QED BY <2>1, <2>2, <2>3 DEF TypeOK
<1>3. ASSUME NEW p \in Peers, NEW b \in Blocks, Lose(p, b) PROVE TypeOK'
  BY <1>3, PieceAssumptions DEF Lose, Fault, TypeOK, pieceVars, blockVars
<1>4. CASE Tick
  BY <1>4, IntervalBound DEF Tick, TypeOK
<1>5. CASE TimePasses
  BY <1>5, IntervalBound DEF TimePasses, TypeOK
<1>6. CASE UNCHANGED vars
  BY <1>6 DEF vars, pieceVars, blockVars, TypeOK
<1> QED BY <1>1, <1>2, <1>3, <1>4, <1>5, <1>6 DEF Next

\* The actor's bit vectors, timers and buffer keep their shape.
THEOREM TypeCorrect == Spec => []TypeOK
<1>1. Init => TypeOK
  BY IntervalBound, PieceAssumptions DEF Init, TypeOK, NoTimer, Held
<1>2. TypeOK /\ [Next]_vars => TypeOK'
  BY TypeNext
<1> QED BY <1>1, <1>2, PTL DEF Spec

----------------------------------------------------------------------------
(* The four structures about blocks                                        *)

LEMMA AccountingNext == TypeOK /\ BlockAccounting /\ [Next]_vars => BlockAccounting'
<1> SUFFICES ASSUME TypeOK, BlockAccounting, [Next]_vars PROVE BlockAccounting'
  OBVIOUS
<1> USE DEF NoTimer
<1>1. ASSUME UNCHANGED blockVars PROVE BlockAccounting'
  BY <1>1 DEF blockVars, BlockAccounting
<1>2. ASSUME NEW p \in Peers, Ask(p) PROVE BlockAccounting'
  <2>1. PICK n \in 1 .. NumBlocks : BlocksToRequest(p, n)
    BY <1>2 DEF Ask
  <2>2. Batch(n) \subseteq required_blocks /\ Batch(n) \subseteq Blocks
    BY DEF Batch, Requestable, TypeOK
  <2> QED BY <2>1, <2>2 DEF BlocksToRequest, BlockAccounting
<1>3. ASSUME NEW p \in Peers, NEW b \in Blocks, NEW content \in Contents,
             Answer(p, b, content)
      PROVE  BlockAccounting'
  <2>1. CASE Reset(b)
    BY <2>1 DEF Reset, BlockAccounting
  <2>2. CASE Accept(b)
    BY <2>2 DEF Accept, BlockAccounting, TypeOK
  <2> QED BY <1>3, <2>1, <2>2 DEF Answer, BlockRecived
<1>4. ASSUME NEW p \in Peers, NEW b \in Blocks, Lose(p, b) PROVE BlockAccounting'
  BY <1>4, <1>1 DEF Lose, pieceVars
<1>5. CASE Tick
  BY <1>5 DEF Tick, BlockAccounting, Expired, TypeOK
<1>6. CASE TimePasses
  <2>1. \A b \in Blocks : in_flight_timers'[b] # NoTimer <=> in_flight_timers[b] # NoTimer
    BY <1>6, IntervalBound DEF TimePasses, TypeOK
  <2> QED BY <1>6, <2>1 DEF TimePasses, BlockAccounting
<1>7. CASE UNCHANGED vars
  BY <1>7, <1>1 DEF vars, pieceVars
<1> QED BY <1>2, <1>3, <1>4, <1>5, <1>6, <1>7 DEF Next

\* No block falls between required, in flight, timed and downloaded.
THEOREM AccountingCorrect == Spec => []BlockAccounting
<1>1. Init => BlockAccounting
  BY DEF Init, BlockAccounting, NoTimer
<1>2. TypeOK /\ BlockAccounting /\ [Next]_vars => BlockAccounting'
  BY AccountingNext
<1> QED BY <1>1, <1>2, TypeCorrect, PTL DEF Spec

----------------------------------------------------------------------------
(* Verification                                                            *)

LEMMA VerifiedNext == TypeOK /\ CompleteIsVerified /\ [Next]_vars => CompleteIsVerified'
<1> SUFFICES ASSUME TypeOK, CompleteIsVerified, [Next]_vars PROVE CompleteIsVerified'
  OBVIOUS
<1>1. ASSUME UNCHANGED <<downloaded_blocks, data>> PROVE CompleteIsVerified'
  BY <1>1 DEF CompleteIsVerified, HashMatches
<1>2. ASSUME NEW p \in Peers, NEW b \in Blocks, NEW content \in Contents,
             Answer(p, b, content)
      PROVE  CompleteIsVerified'
  <2>1. data' = Written(b, content)
    BY <1>2 DEF Answer, BlockRecived
  <2>2. CASE Completes(b) /\ ~HashMatches(Written(b, content))
    <3>1. downloaded_blocks' = {} /\ 0 \in Blocks
      BY <1>2, <2>2, PieceAssumptions DEF Answer, BlockRecived, Reset, Blocks
    <3> QED BY <3>1 DEF CompleteIsVerified
  <2>3. CASE ~(Completes(b) /\ ~HashMatches(Written(b, content)))
    <3>1. downloaded_blocks' = downloaded_blocks \cup {b}
      BY <1>2, <2>3 DEF Answer, BlockRecived, Accept
    <3> QED BY <2>1, <2>3, <3>1 DEF CompleteIsVerified, Completes, HashMatches
  <2> QED BY <2>2, <2>3
<1>3. ASSUME NEW p \in Peers, \/ Ask(p)
                              \/ \E b \in Blocks : Lose(p, b)
      PROVE  CompleteIsVerified'
  BY <1>3, <1>1 DEF Ask, BlocksToRequest, Lose, pieceVars, blockVars
<1>4. CASE Tick \/ TimePasses
  BY <1>4, <1>1 DEF Tick, TimePasses
<1>5. CASE UNCHANGED vars
  BY <1>5, <1>1 DEF vars, pieceVars, blockVars
<1> QED BY <1>2, <1>3, <1>4, <1>5 DEF Next

\* Late and wrong answers never leave a complete piece with wrong content.
THEOREM VerifiedCorrect == Spec => []CompleteIsVerified
<1>1. Init => CompleteIsVerified
  <2>1. 0 \in Blocks
    BY PieceAssumptions DEF Blocks
  <2> QED BY <2>1 DEF Init, CompleteIsVerified
<1>2. TypeOK /\ CompleteIsVerified /\ [Next]_vars => CompleteIsVerified'
  BY VerifiedNext
<1> QED BY <1>1, <1>2, TypeCorrect, PTL DEF Spec

----------------------------------------------------------------------------
(* Exclusive attempts                                                      *)

\* The strengthening that is inductive: the age of a block in flight and the
\* time to the next tick together stay within the timeout and one interval.
AgeInv ==
  \A b \in Blocks : in_flight_timers[b] + next_tick <= BlockRequestTimeout + TickInterval

LEMMA AgeNext == TypeOK /\ AgeInv /\ [Next]_vars => AgeInv'
<1> SUFFICES ASSUME TypeOK, AgeInv, [Next]_vars, NEW b \in Blocks
             PROVE  in_flight_timers'[b] + next_tick' <= BlockRequestTimeout + TickInterval
  BY DEF AgeInv, TickInterval
<1>1. /\ in_flight_timers[b] \in NoTimer .. AgeCap
      /\ next_tick \in 0 .. TickInterval
      /\ in_flight_timers[b] + next_tick <= BlockRequestTimeout + TickInterval
  BY DEF TypeOK, AgeInv
<1> HIDE DEF AgeInv
<1> USE <1>1, IntervalBound, PieceAssumptions DEF NoTimer
<1>2. CASE in_flight_timers'[b] \in {NoTimer, 0, in_flight_timers[b]} /\ next_tick' = next_tick
  BY <1>2
<1>3. ASSUME NEW p \in Peers, Ask(p) PROVE in_flight_timers'[b] \in {0, in_flight_timers[b]}
                                             /\ next_tick' = next_tick
  BY <1>3 DEF Ask, BlocksToRequest
<1>4. ASSUME NEW p \in Peers, NEW c \in Blocks, NEW content \in Contents,
             Answer(p, c, content)
      PROVE  in_flight_timers'[b] \in {NoTimer, in_flight_timers[b]} /\ next_tick' = next_tick
  BY <1>4 DEF Answer, BlockRecived, Accept, Reset, TypeOK
<1>5. ASSUME NEW p \in Peers, NEW c \in Blocks, Lose(p, c)
      PROVE  in_flight_timers'[b] = in_flight_timers[b] /\ next_tick' = next_tick
  BY <1>5 DEF Lose, pieceVars, blockVars
<1>6. CASE Tick
  BY <1>6 DEF Tick, Expired
<1>7. CASE TimePasses
  BY <1>7 DEF TimePasses
<1>8. CASE UNCHANGED vars
  BY <1>8 DEF vars, pieceVars, blockVars
<1> QED BY <1>2, <1>3, <1>4, <1>5, <1>6, <1>7, <1>8 DEF Next

\* A peer's exclusive attempt at a block ends within the timeout and one
\* tick interval, which is at most the timeout again, or a second.
THEOREM AttemptBoundCorrect == Spec => []ExclusiveAttemptBounded
<1>1. Init => AgeInv
  BY IntervalBound, PieceAssumptions DEF Init, AgeInv, NoTimer
<1>2. TypeOK /\ AgeInv /\ [Next]_vars => AgeInv'
  BY AgeNext
<1>3. TypeOK /\ AgeInv => ExclusiveAttemptBounded
  <2> SUFFICES ASSUME TypeOK, AgeInv, NEW b \in Blocks
               PROVE  in_flight_timers[b] <=
                        BlockRequestTimeout +
                          (IF BlockRequestTimeout > 1 THEN BlockRequestTimeout ELSE 1)
    BY DEF ExclusiveAttemptBounded
  <2>1. /\ in_flight_timers[b] \in NoTimer .. AgeCap
        /\ next_tick \in 0 .. TickInterval
        /\ in_flight_timers[b] + next_tick <= BlockRequestTimeout + TickInterval
    BY DEF TypeOK, AgeInv
  <2> QED BY <2>1, IntervalBound, PieceAssumptions DEF NoTimer
<1> QED BY <1>1, <1>2, <1>3, TypeCorrect, PTL DEF Spec

----------------------------------------------------------------------------
(* The actor as PieceView has it                                           *)

LEMMA ViewStep ==
  ASSUME TypeOK, [Next]_vars
  PROVE  [View!Next]_(View!vars)
<1>1. ASSUME UNCHANGED <<downloaded_blocks, blocks_in_flight>> PROVE UNCHANGED View!vars
  BY <1>1 DEF View!vars, Blocks
<1>2. ASSUME NEW p \in Peers, NEW n \in 1 .. NumBlocks, BlocksToRequest(p, n)
      PROVE  View!Next
  <2>1. Batch(n) \subseteq (Blocks \ downloaded_blocks) \ blocks_in_flight
    BY DEF Batch, Requestable, TypeOK
  <2>2. View!Hand(Batch(n))
    BY <1>2, <2>1 DEF BlocksToRequest, View!Hand, Blocks
  <2> QED BY <2>1, <2>2 DEF View!Next
<1>3. ASSUME NEW b \in Blocks, Accept(b) PROVE View!Next
  <2>1. View!Arrive({b})
    BY <1>3 DEF Accept, View!Arrive, Blocks
  <2> QED BY <2>1 DEF View!Next
<1>4. ASSUME NEW b \in Blocks, Reset(b) PROVE View!Next
  BY <1>4 DEF Reset, View!Reset, View!Next, Blocks
<1>5. CASE Tick
  <2>1. View!Expire(Expired)
    BY <1>5 DEF Tick, View!Expire, Blocks
  <2>2. Expired \subseteq Blocks
    BY DEF Expired
  <2> QED BY <2>1, <2>2 DEF View!Next
<1>6. CASE TimePasses \/ UNCHANGED vars \/ \E p \in Peers, b \in Blocks : Lose(p, b)
  BY <1>1, <1>6 DEF TimePasses, Lose, vars, pieceVars, blockVars
<1> QED
  BY <1>2, <1>3, <1>4, <1>5, <1>6 DEF Next, Ask, Answer, BlockRecived

\* However late, wrong or repeated the answers are, a peer sees of the actor
\* only this: a block goes out when nobody has it and it has not come, and is
\* free again when its attempt timed out or the hash failed (lines 81-133 and
\* 185-194).
THEOREM SeenAsPieceView == Spec => ViewSpec
<1>1. Init => View!Init
  BY DEF Init, View!Init
<1>2. TypeOK /\ [Next]_vars => [View!Next]_(View!vars)
  BY ViewStep
<1> QED BY <1>1, <1>2, TypeCorrect, PTL DEF Spec, ViewSpec, View!Spec
=============================================================================
