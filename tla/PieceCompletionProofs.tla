------------------------- MODULE PieceCompletionProofs -------------------------
(***************************************************************************)
(* Proofs about PieceCompletion.  PieceSteps relates the composition to    *)
(* the piece actor: every step of the one is a step of the other, or drops *)
(* an answer.  So the invariants of PieceManager hold in the composition,  *)
(* and what is left to prove is about the reports and the flush.           *)
(***************************************************************************)
EXTENDS PieceCompletion, PieceManagerProofs

\* An answer for a piece that is complete is dropped by the reader.
DropsAnswers == wire' \subseteq wire /\ UNCHANGED <<pieceVars, faults>>

LEMMA PieceSteps == [CompletionNext]_allVars => [Next]_vars \/ DropsAnswers
<1> SUFFICES ASSUME [CompletionNext]_allVars PROVE [Next]_vars \/ DropsAnswers
  OBVIOUS
<1>1. CASE UNCHANGED vars
  BY <1>1
<1>2. ASSUME NEW p \in Peers, AskBlocks(p) PROVE Next
  BY <1>2 DEF AskBlocks, Next
<1>3. ASSUME NEW p \in Peers, NEW b \in Blocks, DropLate(p, b) PROVE DropsAnswers
  BY <1>3 DEF DropLate, DropsAnswers
<1>4. ASSUME NEW p \in Peers, NEW b \in Blocks, LoseRequest(p, b) PROVE Next
  BY <1>4 DEF LoseRequest, Next
<1>5. ASSUME NEW p \in Peers, NEW b \in Blocks, NEW content \in Contents, Deliver(p, b, content)
      PROVE  Next
  BY <1>5 DEF Deliver, Next
<1>6. CASE PassTime
  BY <1>6 DEF PassTime, Next
<1>7. ASSUME NEW p \in Peers, TakeWork(p) \/ Prune(p) \/ LookUp(p) \/ Report(p)
      PROVE  UNCHANGED vars
  BY <1>7 DEF TakeWork, Prune, LookUp, Report
<1>8. CASE HandleReport \/ FlushNext \/ FlushFails
  BY <1>1, <1>8 DEF HandleReport, FlushNext, FlushFile, FlushFails
<1>9. CASE UNCHANGED allVars
  BY <1>1, <1>9 DEF allVars
<1> QED
  BY <1>1, <1>2, <1>3, <1>4, <1>5, <1>6, <1>7, <1>8, <1>9 DEF CompletionNext

----------------------------------------------------------------------------
(* The invariants of the piece actor in the composition                    *)

PieceInv == TypeOK /\ BlockAccounting /\ CompleteIsVerified

LEMMA PieceInvInit == CompletionInit => PieceInv
<1>1. Init => TypeOK
  BY IntervalBound, PieceAssumptions DEF Init, TypeOK, NoTimer, Held
<1>2. Init => BlockAccounting
  BY DEF Init, BlockAccounting, NoTimer
<1>3. Init => CompleteIsVerified
  <2>1. 0 \in Blocks
    BY PieceAssumptions DEF Blocks
  <2> QED
    BY <2>1 DEF Init, CompleteIsVerified
<1> QED
  BY <1>1, <1>2, <1>3 DEF CompletionInit, PieceInv

LEMMA PieceInvStep == PieceInv /\ [CompletionNext]_allVars => PieceInv'
<1> SUFFICES ASSUME PieceInv, [CompletionNext]_allVars PROVE PieceInv'
  OBVIOUS
<1>1. CASE [Next]_vars
  BY <1>1, TypeNext, AccountingNext, VerifiedNext DEF PieceInv
<1>2. CASE DropsAnswers
  <2>1. TypeOK'
    BY <1>2 DEF DropsAnswers, pieceVars, blockVars, TypeOK, PieceInv
  <2>2. BlockAccounting'
    BY <1>2 DEF DropsAnswers, pieceVars, blockVars, BlockAccounting, PieceInv
  <2>3. CompleteIsVerified'
    BY <1>2 DEF DropsAnswers, pieceVars, blockVars, CompleteIsVerified, HashMatches, PieceInv
  <2> QED
    BY <2>1, <2>2, <2>3 DEF PieceInv
<1> QED
  BY <1>1, <1>2, PieceSteps

\* The piece actor keeps its promises although readers deliver blocks of a
\* piece that they no longer track, and drop answers.
THEOREM PieceInvCorrect == CompletionSpec => [](BlockAccounting /\ CompleteIsVerified)
<1>1. PieceInv => BlockAccounting /\ CompleteIsVerified
  BY DEF PieceInv
<1> QED
  BY <1>1, PieceInvInit, PieceInvStep, PTL DEF CompletionSpec

----------------------------------------------------------------------------
(* The reports and the flush                                               *)

\* The piece is marked and its flush started in one step.
FlushInv ==
  /\ tracking \subseteq Peers /\ late \subseteq Peers /\ reporting \subseteq Peers
  /\ reports \in 0 .. MaxReports
  /\ have \in BOOLEAN
  /\ flushes = IF have THEN 1 ELSE 0
  /\ flush \in {"none", "running", "stored", "failed"}
  /\ next_block \in 0 .. NumBlocks
  /\ flush = "stored" => next_block = NumBlocks
  /\ disk \in [Blocks -> Held]

LEMMA FlushInvInit == CompletionInit => FlushInv
<1> SUFFICES ASSUME CompletionInit PROVE FlushInv
  OBVIOUS
<1>1. 0 \in 0 .. MaxReports /\ 0 \in 0 .. NumBlocks
  BY CompletionAssumptions, PieceAssumptions
<1>2. disk \in [Blocks -> Held]
  BY DEF CompletionInit, Held
<1>3. have = FALSE /\ flushes = 0 /\ flush = "none" /\ reports = 0 /\ next_block = 0
  BY DEF CompletionInit
<1>4. tracking \subseteq Peers /\ late \subseteq Peers /\ reporting \subseteq Peers
  BY DEF CompletionInit
<1> QED
  BY <1>1, <1>2, <1>3, <1>4 DEF FlushInv

LEMMA FlushInvStep == PieceInv /\ FlushInv /\ [CompletionNext]_allVars => FlushInv'
<1> SUFFICES ASSUME PieceInv, FlushInv, [CompletionNext]_allVars PROVE FlushInv'
  OBVIOUS
<1>1. ASSUME UNCHANGED <<have, flushes, flush, next_block, disk>>,
             tracking' \subseteq Peers, late' \subseteq Peers, reporting' \subseteq Peers,
             reports' \in 0 .. MaxReports
      PROVE  FlushInv'
  BY <1>1 DEF FlushInv
<1>2. ASSUME NEW p \in Peers, TakeWork(p) \/ Prune(p) \/ LookUp(p) PROVE FlushInv'
  BY <1>1, <1>2 DEF TakeWork, Prune, LookUp, FlushInv
<1>3. ASSUME NEW p \in Peers, NEW b \in Blocks, NEW content \in Contents, Deliver(p, b, content)
      PROVE  FlushInv'
  <2>1. late' \subseteq Peers /\ reporting' \subseteq Peers
    BY <1>3 DEF Deliver, FlushInv
  <2> QED
    BY <1>1, <1>3, <2>1 DEF Deliver, FlushInv
<1>4. CASE UNCHANGED completionVars
  BY <1>1, <1>4 DEF completionVars, FlushInv
<1>5. ASSUME NEW p \in Peers, NEW b \in Blocks,
             AskBlocks(p) \/ DropLate(p, b) \/ LoseRequest(p, b) \/ PassTime
      PROVE  FlushInv'
  BY <1>4, <1>5 DEF AskBlocks, DropLate, LoseRequest, PassTime
<1>6. CASE HandleReport
  <2>1. reports' \in 0 .. MaxReports /\ UNCHANGED <<tracking, late, reporting, disk>>
    BY <1>6, CompletionAssumptions DEF HandleReport, FlushInv
  <2>2. CASE have
    BY <1>1, <1>6, <2>1, <2>2 DEF HandleReport, IsNews, FlushInv
  <2>3. CASE ~have
    <3>1. have' = TRUE /\ flush' = "running" /\ flushes' = 1 /\ next_block' = 0
      BY <1>6, <2>3 DEF HandleReport, IsNews, FlushInv
    <3> QED
      BY <2>1, <3>1, PieceAssumptions DEF FlushInv
  <2> QED
    BY <2>2, <2>3
<1>7. ASSUME NEW last \in next_block .. NumBlocks - 1, FlushFile(last) PROVE FlushInv'
  <2>1. next_block' \in 0 .. NumBlocks /\ (last = NumBlocks - 1 => next_block' = NumBlocks)
    BY <1>7, PieceAssumptions DEF FlushFile, FlushInv
  <2>2. disk' \in [Blocks -> Held]
    BY <1>7 DEF FlushFile, FlushInv, PieceInv, TypeOK
  <2>3. flush' \in {"stored", "running"} /\ (flush' = "stored" => last = NumBlocks - 1)
    BY <1>7 DEF FlushFile
  <2> QED
    BY <1>7, <2>1, <2>2, <2>3 DEF FlushFile, FlushInv
<1>8. CASE FlushFails
  BY <1>8 DEF FlushFails, FlushInv
<1>9. CASE UNCHANGED allVars
  BY <1>4, <1>9 DEF allVars
<1>10. (\E p \in Peers : AskBlocks(p)) \/ PassTime => UNCHANGED completionVars
  BY DEF AskBlocks, PassTime
<1>11. ASSUME NEW p \in Peers, Report(p) PROVE FlushInv'
  <2>1. reports' \in 0 .. MaxReports
    BY <1>11, CompletionAssumptions DEF Report, FlushInv
  <2>2. tracking' \subseteq Peers /\ late' \subseteq Peers /\ reporting' \subseteq Peers
    BY <1>11 DEF Report, FlushInv
  <2> QED
    BY <1>1, <1>11, <2>1, <2>2 DEF Report
<1> QED
  BY <1>2, <1>3, <1>4, <1>5, <1>6, <1>7, <1>8, <1>9, <1>10, <1>11 DEF CompletionNext, FlushNext

\* Nothing leaves its type in the composition.
THEOREM CompletionTypeCorrect == CompletionSpec => []CompletionTypeOK
<1>1. PieceInv /\ FlushInv => CompletionTypeOK
  BY DEF PieceInv, FlushInv, CompletionTypeOK
<1> QED
  BY <1>1, PieceInvInit, PieceInvStep, FlushInvInit, FlushInvStep, PTL DEF CompletionSpec

\* However many readers report the piece, it is flushed at most once.
THEOREM FlushedOnceHolds == CompletionSpec => []FlushedOnce
<1>1. FlushInv => FlushedOnce
  BY DEF FlushInv, FlushedOnce
<1> QED
  BY <1>1, PieceInvInit, PieceInvStep, FlushInvInit, FlushInvStep, PTL DEF CompletionSpec

----------------------------------------------------------------------------
(* What is stored                                                          *)

\* As long as no answer was wrong: the buffer holds nothing wrong, all of it
\* is there once the piece was reported, and the disk has what was written.
StoreInv ==
  faults = 0 =>
    /\ \A b \in Blocks : data[b] # "bad"
    /\ \A b \in downloaded_blocks : data[b] = "good"
    /\ reporting # {} \/ reports > 0 \/ have => HashMatches(data)
    /\ flush \in {"running", "stored"} =>
         have /\ \A b \in Blocks : b < next_block => disk[b] = "good"

LEMMA StoreInvInit == CompletionInit => StoreInv
  BY DEF CompletionInit, Init, StoreInv

\* A right answer leaves right what was right.
LEMMA RightAnswer ==
  ASSUME PieceInv, FlushInv, StoreInv, NEW p \in Peers, NEW b \in Blocks, NEW content \in Contents,
         Deliver(p, b, content), faults' = 0
  PROVE  StoreInv'
<1>1. faults = 0 /\ content = "good"
  <2>1. faults \in Nat /\ faults' = faults + (IF content = "good" THEN 0 ELSE 1)
    BY DEF Deliver, Answer, Fault, PieceInv, TypeOK
  <2> QED
    BY <2>1
<1>2. data' = [data EXCEPT ![b] = "good"] /\ data \in [Blocks -> Held]
  BY <1>1 DEF Deliver, Answer, BlockRecived, Written, Fits, PieceInv, TypeOK
<1>3. downloaded_blocks' \subseteq downloaded_blocks \cup {b}
  BY DEF Deliver, Answer, BlockRecived, Accept, Reset
<1>4. UNCHANGED <<have, flush, next_block, disk>>
  BY DEF Deliver
<1>5. \A c \in Blocks : data'[c] # "bad"
  BY <1>1, <1>2 DEF StoreInv
<1>6. \A c \in downloaded_blocks' : data'[c] = "good"
  BY <1>1, <1>2, <1>3 DEF StoreInv, PieceInv, TypeOK
<1>7. reporting' # {} \/ reports' > 0 \/ have' => HashMatches(data')
  <2>1. CASE PieceDone(b, content)
    BY <2>1 DEF PieceDone, HashMatches, Deliver, Answer, BlockRecived
  <2>2. CASE ~PieceDone(b, content)
    <3>1. UNCHANGED <<reporting, reports, have>>
      BY <2>2 DEF Deliver
    <3>2. HashMatches(data) => HashMatches(data')
      BY <1>2 DEF HashMatches
    <3> QED
      BY <1>1, <3>1, <3>2 DEF StoreInv
  <2> QED
    BY <2>1, <2>2
<1>8. flush' \in {"running", "stored"} =>
        have' /\ \A c \in Blocks : c < next_block' => disk'[c] = "good"
  BY <1>1, <1>4 DEF StoreInv
<1> QED
  BY <1>5, <1>6, <1>7, <1>8 DEF StoreInv

LEMMA StoreInvStep == PieceInv /\ FlushInv /\ StoreInv /\ [CompletionNext]_allVars => StoreInv'
<1> SUFFICES ASSUME PieceInv, FlushInv, StoreInv, [CompletionNext]_allVars, faults' = 0
             PROVE  StoreInv'
  BY DEF StoreInv
<1>0. faults \in Nat
  BY DEF PieceInv, TypeOK
<1>1. ASSUME UNCHANGED <<faults, data, downloaded_blocks, reporting, reports, have, flush,
                         next_block, disk>>
      PROVE  StoreInv'
  BY <1>1 DEF StoreInv, HashMatches
<1>2. ASSUME NEW p \in Peers, TakeWork(p) \/ Prune(p) \/ LookUp(p) PROVE StoreInv'
  BY <1>1, <1>2 DEF TakeWork, Prune, LookUp, vars, pieceVars, blockVars
<1>3. ASSUME NEW p \in Peers, AskBlocks(p) PROVE StoreInv'
  BY <1>1, <1>3 DEF AskBlocks, Ask, BlocksToRequest, completionVars
<1>4. ASSUME NEW p \in Peers, NEW b \in Blocks, DropLate(p, b) PROVE StoreInv'
  BY <1>1, <1>4 DEF DropLate, pieceVars, blockVars, completionVars
<1>5. ASSUME NEW p \in Peers, NEW b \in Blocks, LoseRequest(p, b) PROVE StoreInv'
  <2>1. faults' = faults + 1
    BY <1>5 DEF LoseRequest, Lose, Fault
  <2> QED
    BY <1>0, <2>1
<1>6. ASSUME NEW p \in Peers, NEW b \in Blocks, NEW content \in Contents, Deliver(p, b, content)
      PROVE  StoreInv'
  BY <1>6, RightAnswer
<1>7. CASE HandleReport
  <2>1. UNCHANGED <<faults, data, downloaded_blocks, reporting, disk>> /\ reports > 0
    BY <1>7 DEF HandleReport, vars, pieceVars, blockVars
  <2>2. HashMatches(data')
    BY <1>0, <2>1 DEF StoreInv, HashMatches
  <2>3. CASE have
    BY <1>7, <2>1, <2>2, <2>3 DEF HandleReport, IsNews, StoreInv
  <2>4. CASE ~have
    <3>1. have' = TRUE /\ next_block' = 0
      BY <1>7, <2>4 DEF HandleReport, IsNews
    <3>2. \A b \in Blocks : ~(b < next_block')
      BY <3>1, PieceAssumptions DEF Blocks
    <3> QED
      BY <2>1, <2>2, <3>1, <3>2 DEF StoreInv
  <2> QED
    BY <2>3, <2>4
<1>8. ASSUME NEW last \in next_block .. NumBlocks - 1, FlushFile(last) PROVE StoreInv'
  <2>1. UNCHANGED <<faults, data, downloaded_blocks, reporting, reports, have>>
    BY <1>8 DEF FlushFile, vars, pieceVars, blockVars
  <2>2. have /\ HashMatches(data) /\ \A b \in Blocks : b < next_block => disk[b] = "good"
    BY <1>8, <2>1 DEF FlushFile, StoreInv
  <2>3. ASSUME NEW b \in Blocks, b < next_block' PROVE disk'[b] = "good"
    <3>1. disk'[b] = IF b \in next_block .. last THEN data[b] ELSE disk[b]
      BY <1>8 DEF FlushFile
    <3>2. b < next_block \/ b \in next_block .. last
      BY <1>8, <2>3, PieceAssumptions DEF FlushFile, FlushInv, Blocks
    <3> QED
      BY <2>2, <3>1, <3>2 DEF HashMatches
  <2> QED
    BY <2>1, <2>2, <2>3 DEF StoreInv, HashMatches
<1>9. CASE FlushFails
  BY <1>9 DEF FlushFails, StoreInv, HashMatches, vars, pieceVars, blockVars
<1>10. CASE PassTime
  BY <1>1, <1>10 DEF PassTime, Tick, TimePasses, completionVars
<1>11. CASE UNCHANGED allVars
  BY <1>1, <1>11 DEF allVars, vars, pieceVars, blockVars, completionVars
<1>12. ASSUME NEW p \in Peers, Report(p) PROVE StoreInv'
  <2>1. UNCHANGED <<faults, data, downloaded_blocks, have, flush, next_block, disk>>
    BY <1>12 DEF Report, vars, pieceVars, blockVars
  <2>2. p \in reporting
    BY <1>12 DEF Report
  <2> QED
    BY <1>0, <2>1, <2>2 DEF StoreInv, HashMatches
<1> QED
  BY <1>2, <1>3, <1>4, <1>5, <1>6, <1>7, <1>8, <1>9, <1>10, <1>11, <1>12 DEF CompletionNext, FlushNext

\* What is stored is right if no answer was wrong, however late blocks and
\* the writes interleave: the part of EventuallyFlushed about the bytes.
RightAnswersStored == flush = "stored" /\ faults = 0 => HashMatches(disk)

\* Right answers are stored, whichever reader delivers them and whenever the
\* disk actor reads the buffer.
THEOREM StoredIsRight == CompletionSpec => []RightAnswersStored
<1>1. FlushInv /\ StoreInv => RightAnswersStored
  <2> SUFFICES ASSUME FlushInv, StoreInv, flush = "stored", faults = 0, NEW b \in Blocks
               PROVE  disk[b] = "good"
    BY DEF RightAnswersStored, HashMatches
  <2>1. b < next_block
    BY PieceAssumptions DEF FlushInv, Blocks
  <2> QED
    BY <2>1 DEF StoreInv
<1> QED
  BY <1>1, PieceInvInit, PieceInvStep, FlushInvInit, FlushInvStep, StoreInvInit, StoreInvStep,
     PTL DEF CompletionSpec
=============================================================================
