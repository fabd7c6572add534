------------------------ MODULE TorrentManagerProofs ------------------------
(***************************************************************************)
(* Theorems about TorrentManager for any set of peers, any number of       *)
(* pieces and any cap.  Every one of them is about the actor's handlers,   *)
(* one proof step per handler.                                             *)
(***************************************************************************)
EXTENDS TorrentManager, FiniteSetTheorems, TLAPS

----------------------------------------------------------------------------
(* Shapes                                                                  *)

\* What a BitVec is made of: its length is that of a Bitfield some peer sends,
\* or zero, and its ones are below its length.
LEMMA BitVecShape ==
  ASSUME NEW field \in BitVec
  PROVE  /\ field = [len |-> field.len, ones |-> field.ones]
         /\ field.len \in {0} \cup FieldLens /\ field.len \in Nat
         /\ field.ones \subseteq Indices
         /\ \A i \in field.ones : i < field.len
BY ManagerAssumptions DEF BitVec, BitVecs, Indices

LEMMA BitVecMade ==
  ASSUME NEW n \in {0} \cup FieldLens, NEW ones \in SUBSET Indices, \A i \in ones : i < n
  PROVE  [len |-> n, ones |-> ones] \in BitVec
<1>1. ones \in SUBSET {i \in Indices : i < n}
  OBVIOUS
<1>2. [len |-> n, ones |-> ones] \in [len : {n}, ones : SUBSET {i \in Indices : i < n}]
  BY <1>1
<1> QED BY <1>2 DEF BitVec, BitVecs

LEMMA NewBitVecType == NewBitVec \in BitVec
BY BitVecMade DEF NewBitVec

\* A Bitfield that a peer sends is a BitVec.
LEMMA SentIsBitVec == BitVecs(FieldLens) \subseteq BitVec
BY DEF BitVec, BitVecs

\* A Have within the length of the peer's Bitfield leaves a BitVec.
LEMMA SetType ==
  ASSUME NEW field \in BitVec, NEW i \in Indices, i < field.len
  PROVE  [len |-> field.len, ones |-> field.ones \cup {i}] \in BitVec
<1>1. field.len \in {0} \cup FieldLens /\ field.ones \subseteq Indices
      /\ \A j \in field.ones : j < field.len
  BY BitVecShape
<1> QED BY <1>1, BitVecMade

\* A report of a piece is the first, and completes it, or changes nothing.
FirstReport(i, flushed) ==
  alive /\ i \in active_pieces_manager \ local_bitfield /\ CompletePiece(i, flushed)

LEMMA FinishStep ==
  ASSUME NEW i \in Pieces, NEW flushed \in BOOLEAN, PieceFinish(i, flushed)
  PROVE  FirstReport(i, flushed) \/ UNCHANGED vars
BY DEF PieceFinish, FirstReport, IsNews

\* A frequency stays a frequency when it grows (lines 85, 105).
LEMMA BumpedType ==
  ASSUME NEW f \in 0 .. MaxFreq
  PROVE  Bumped(f) \in 1 .. MaxFreq
BY ManagerAssumptions DEF Bumped

\* The bookkeeping of newly announced pieces keeps the types of both
\* structures (update_freq_bitfield, update_freq_have).
LEMMA BumpFrequencyType ==
  ASSUME TypeOK, NEW held \in SUBSET Pieces, BumpFrequency(held)
  PROVE  /\ pieces_frequency' \in [Pieces -> 0 .. MaxFreq]
         /\ rarity_bucket' \in [0 .. MaxFreq -> SUBSET Pieces]
<1>1. \A i \in Pieces : Bumped(pieces_frequency[i]) \in 0 .. MaxFreq
  BY BumpedType, ManagerAssumptions DEF TypeOK
<1>2. pieces_frequency' \in [Pieces -> 0 .. MaxFreq]
  BY <1>1 DEF TypeOK, BumpFrequency
<1>3. rarity_bucket' \in [0 .. MaxFreq -> SUBSET Pieces]
  BY DEF TypeOK, BumpFrequency, Rebucketed
<1> QED BY <1>2, <1>3

LEMMA TypeInit == Init => TypeOK
<1> SUFFICES ASSUME Init PROVE TypeOK
  OBVIOUS
<1>1. peer_bitfields \in [Peers -> BitVec]
  BY NewBitVecType DEF Init
<1>2. pieces_frequency \in [Pieces -> 0 .. MaxFreq]
  BY ManagerAssumptions DEF Init
<1>3. downloaded_piece_index \in Seq(Pieces)
  BY DEF Init
<1> QED BY <1>1, <1>2, <1>3, ManagerAssumptions DEF Init, TypeOK

LEMMA TypeNext == TypeOK /\ [Next]_vars => TypeOK'
<1> SUFFICES ASSUME TypeOK, [Next]_vars PROVE TypeOK'
  OBVIOUS
<1> USE DEF doneVars, workVars, rarityVars, peerVars
<1>1. ASSUME NEW p \in Peers, AddPeer(p) PROVE TypeOK'
  BY <1>1, NewBitVecType DEF AddPeer, TypeOK
<1>2. ASSUME NEW p \in Peers, Disconnect(p) PROVE TypeOK'
  BY <1>2 DEF Disconnect, TypeOK
<1>3. ASSUME Panic PROVE TypeOK'
  BY <1>3 DEF Panic, TypeOK
<1>4. ASSUME NEW p \in Peers, NEW field \in BitVecs(FieldLens), AddBitFeild(p, field)
      PROVE  TypeOK'
  <2>1. CASE Panic
    BY <2>1, <1>3
  <2>2. CASE ~Panic
    <3>1. /\ NewlyHeld(p, field.ones) \subseteq Pieces
          /\ BumpFrequency(NewlyHeld(p, field.ones))
          /\ peer_bitfields' = [peer_bitfields EXCEPT ![p] = field]
          /\ UNCHANGED <<alive, peerVars, workVars, doneVars>>
      BY <1>4, <2>2 DEF AddBitFeild
    <3>2. field \in BitVec
      BY SentIsBitVec
    <3>3. peer_bitfields' \in [Peers -> BitVec]
      BY <3>1, <3>2 DEF TypeOK
    <3> QED BY <3>1, <3>3, BumpFrequencyType DEF TypeOK
  <2> QED BY <2>1, <2>2
<1>5. ASSUME NEW p \in Peers, NEW i \in Indices, UpdateBitField(p, i)
      PROVE  TypeOK'
  <2>1. CASE Panic
    BY <2>1, <1>3
  <2>2. CASE ~Panic
    <3>1. /\ HaveInRange(p, i)
          /\ BumpFrequency(NewlyHeld(p, {i}))
          /\ peer_bitfields' = [peer_bitfields EXCEPT ![p] = [len |-> @.len, ones |-> @.ones \cup {i}]]
          /\ UNCHANGED <<alive, peerVars, workVars, doneVars>>
      BY <1>5, <2>2 DEF UpdateBitField
    <3>2. peer_bitfields[p] \in BitVec /\ i < peer_bitfields[p].len
      BY <3>1 DEF TypeOK, HaveInRange
    <3>3. peer_bitfields' \in [Peers -> BitVec]
      BY <3>1, <3>2, SetType DEF TypeOK
    <3> QED BY <3>1, <3>3, BumpFrequencyType DEF TypeOK, HaveInRange
  <2> QED BY <2>1, <2>2
<1>6. ASSUME NEW p \in Peers, RequestWork(p) PROVE TypeOK'
  <2>1. PICK i \in RarestEligible(p) : Assign(p, i)
    BY <1>6 DEF RequestWork
  <2>2. i \in Pieces /\ i \in DOMAIN piece_concurrency_counts
    BY <2>1 DEF RarestEligible, Eligible, TypeOK
  <2>3. piece_concurrency_counts' \in [Pieces \ local_bitfield -> Nat]
    BY <2>1, <2>2 DEF Assign, TypeOK
  <2> QED BY <1>6, <2>1, <2>2, <2>3 DEF RequestWork, Assign, TypeOK
<1>7. ASSUME NEW p \in Peers, NEW late \in SUBSET peer_active_work[p],
             UpdateAndGetActiveRequestCount(p, late)
      PROVE  TypeOK'
  <2>1. piece_concurrency_counts' \in [Pieces \ local_bitfield -> Nat]
    BY <1>7 DEF UpdateAndGetActiveRequestCount, Released, TypeOK
  <2>2. peer_active_work' \in [Peers -> SUBSET Pieces]
    BY <1>7 DEF UpdateAndGetActiveRequestCount, TypeOK
  <2> QED BY <1>7, <2>1, <2>2 DEF UpdateAndGetActiveRequestCount, TypeOK
<1>8. ASSUME NEW i \in Pieces, NEW flushed \in BOOLEAN, FirstReport(i, flushed)
      PROVE  TypeOK'
  <2>1. piece_concurrency_counts' \in [Pieces \ local_bitfield' -> Nat]
    BY <1>8 DEF FirstReport, CompletePiece, TypeOK
  <2>2. rarity_bucket' \in [0 .. MaxFreq -> SUBSET Pieces]
    BY <1>8 DEF FirstReport, CompletePiece, BucketsWithout, TypeOK
  <2>3. pieces_frequency' \in [Pieces -> 0 .. MaxFreq]
    BY <1>8, ManagerAssumptions DEF FirstReport, CompletePiece, TypeOK
  <2>4. peer_active_work' \in [Peers -> SUBSET Pieces]
    BY <1>8 DEF FirstReport, CompletePiece, WorkWithout, TypeOK
  <2>5. downloaded_piece_index' \in Seq(Pieces)
    BY <1>8 DEF FirstReport, CompletePiece, LogIfFlushed, TypeOK
  <2> QED BY <1>8, <2>1, <2>2, <2>3, <2>4, <2>5 DEF FirstReport, CompletePiece, Flush, TypeOK
<1>9. CASE UNCHANGED vars
  BY <1>9 DEF vars, TypeOK
<1> QED BY <1>1, <1>2, <1>4, <1>5, <1>6, <1>7, <1>8, <1>9, FinishStep DEF Next

\* The actor's state keeps its shape in every environment; in particular a
\* worker count exists exactly for the pieces that are not complete, so the
\* panic of line 213 is unreachable.
THEOREM TypeCorrect == Spec => []TypeOK
<1>1. Init => TypeOK
  BY TypeInit
<1>2. TypeOK /\ [Next]_vars => TypeOK'
  BY TypeNext
<1> QED BY <1>1, <1>2, PTL DEF Spec

----------------------------------------------------------------------------
(* The rarity buckets                                                      *)

\* Moving newly announced pieces keeps buckets and frequencies in step.
LEMMA BumpFrequencyIndex ==
  ASSUME TypeOK, RarityIndex, NEW held \in SUBSET (Pieces \ local_bitfield),
         BumpFrequency(held), local_bitfield' = local_bitfield
  PROVE  RarityIndex'
<1> SUFFICES ASSUME NEW i \in Pieces, NEW b \in 0 .. MaxFreq
             PROVE  i \in rarity_bucket'[b] <=>
                      /\ i \notin local_bitfield
                      /\ pieces_frequency'[i] = b
                      /\ b > 0
  BY DEF RarityIndex
<1>1. i \in rarity_bucket'[b] <=>
        \/ i \in rarity_bucket[b] /\ ~(i \in held /\ pieces_frequency[i] = b)
        \/ i \in held /\ Bumped(pieces_frequency[i]) = b
  BY DEF BumpFrequency, Rebucketed
<1>2. pieces_frequency'[i] = IF i \in held THEN Bumped(pieces_frequency[i])
                                           ELSE pieces_frequency[i]
  BY DEF BumpFrequency
<1>3. Bumped(pieces_frequency[i]) \in 1 .. MaxFreq
  BY BumpedType DEF TypeOK
<1>4. i \in rarity_bucket[b] <=>
        i \notin local_bitfield /\ pieces_frequency[i] = b /\ b > 0
  BY DEF RarityIndex
<1> QED BY <1>1, <1>2, <1>3, <1>4

LEMMA RarityNext == TypeOK /\ RarityIndex /\ [Next]_vars => RarityIndex'
<1> SUFFICES ASSUME TypeOK, RarityIndex, [Next]_vars PROVE RarityIndex'
  OBVIOUS
<1>1. ASSUME UNCHANGED <<local_bitfield, rarityVars>> PROVE RarityIndex'
  BY <1>1 DEF rarityVars, RarityIndex
<1>2. ASSUME NEW p \in Peers, NEW field \in BitVecs(FieldLens), AddBitFeild(p, field)
      PROVE  RarityIndex'
  <2>1. CASE Panic
    BY <2>1, <1>1 DEF Panic, doneVars
  <2>2. CASE ~Panic
    <3>1. /\ NewlyHeld(p, field.ones) \subseteq Pieces \ local_bitfield
          /\ BumpFrequency(NewlyHeld(p, field.ones))
          /\ local_bitfield' = local_bitfield
      BY <1>2, <2>2 DEF AddBitFeild, NewlyHeld, doneVars
    <3> QED BY <3>1, BumpFrequencyIndex
  <2> QED BY <2>1, <2>2
<1>3. ASSUME NEW p \in Peers, NEW i \in Indices, UpdateBitField(p, i)
      PROVE  RarityIndex'
  <2>1. CASE Panic
    BY <2>1, <1>1 DEF Panic, doneVars
  <2>2. CASE ~Panic
    <3>1. /\ NewlyHeld(p, {i}) \subseteq Pieces \ local_bitfield
          /\ BumpFrequency(NewlyHeld(p, {i}))
          /\ local_bitfield' = local_bitfield
      BY <1>3, <2>2 DEF UpdateBitField, HaveInRange, NewlyHeld, doneVars
    <3> QED BY <3>1, BumpFrequencyIndex
  <2> QED BY <2>1, <2>2
<1>4. ASSUME NEW i \in Pieces, NEW flushed \in BOOLEAN, FirstReport(i, flushed)
      PROVE  RarityIndex'
  <2> SUFFICES ASSUME NEW j \in Pieces, NEW b \in 0 .. MaxFreq
               PROVE  j \in rarity_bucket'[b] <=>
                        /\ j \notin local_bitfield'
                        /\ pieces_frequency'[j] = b
                        /\ b > 0
    BY DEF RarityIndex
  <2>1. j \in rarity_bucket'[b] <=>
          j \in rarity_bucket[b] /\ ~(j = i /\ pieces_frequency[i] = b)
    BY <1>4 DEF FirstReport, CompletePiece, BucketsWithout, TypeOK
  <2>2. pieces_frequency'[j] = IF j = i THEN 0 ELSE pieces_frequency[j]
    BY <1>4 DEF FirstReport, CompletePiece, TypeOK
  <2>3. local_bitfield' = local_bitfield \cup {i}
    BY <1>4 DEF FirstReport, CompletePiece
  <2> QED BY <2>1, <2>2, <2>3 DEF RarityIndex
<1>5. ASSUME NEW p \in Peers, AddPeer(p) PROVE RarityIndex'
  BY <1>5, <1>1 DEF AddPeer, doneVars
<1>6. ASSUME NEW p \in Peers, Disconnect(p) PROVE RarityIndex'
  BY <1>6, <1>1 DEF Disconnect, doneVars
<1>7. ASSUME NEW p \in Peers, RequestWork(p) PROVE RarityIndex'
  BY <1>7, <1>1 DEF RequestWork, doneVars
<1>8. ASSUME NEW p \in Peers, NEW late \in SUBSET peer_active_work[p],
             UpdateAndGetActiveRequestCount(p, late)
      PROVE  RarityIndex'
  BY <1>8, <1>1 DEF UpdateAndGetActiveRequestCount, doneVars
<1>9. CASE UNCHANGED vars
  BY <1>9, <1>1 DEF vars, doneVars
<1> QED BY <1>2, <1>3, <1>4, <1>5, <1>6, <1>7, <1>8, <1>9, FinishStep DEF Next

\* The rarity buckets index the frequencies exactly, in every environment.
THEOREM RarityIndexCorrect == Spec => []RarityIndex
<1>1. Init => RarityIndex
  BY DEF Init, RarityIndex
<1>2. TypeOK /\ RarityIndex /\ [Next]_vars => RarityIndex'
  BY RarityNext
<1> QED BY <1>1, <1>2, TypeCorrect, PTL DEF Spec

----------------------------------------------------------------------------
(* Complete pieces                                                         *)

LEMMA NoWorkNext == TypeOK /\ NoWorkOnFinished /\ [Next]_vars => NoWorkOnFinished'
<1> SUFFICES ASSUME TypeOK, NoWorkOnFinished, [Next]_vars PROVE NoWorkOnFinished'
  OBVIOUS
<1>1. ASSUME /\ \A p \in Peers : peer_active_work'[p] \subseteq peer_active_work[p]
             /\ UNCHANGED <<active_pieces_manager, local_bitfield>>
      PROVE  NoWorkOnFinished'
  BY <1>1 DEF NoWorkOnFinished
<1>2. ASSUME UNCHANGED <<workVars, local_bitfield>> PROVE NoWorkOnFinished'
  BY <1>2, <1>1 DEF workVars
<1>3. ASSUME NEW p \in Peers, AddPeer(p) PROVE NoWorkOnFinished'
  BY <1>3, <1>1 DEF AddPeer, doneVars, TypeOK
<1>4. ASSUME NEW p \in Peers, Disconnect(p) PROVE NoWorkOnFinished'
  BY <1>4, <1>2 DEF Disconnect, doneVars
<1>5. ASSUME NEW p \in Peers, NEW field \in BitVecs(FieldLens), AddBitFeild(p, field)
      PROVE  NoWorkOnFinished'
  BY <1>5, <1>2 DEF AddBitFeild, Panic, doneVars
<1>6. ASSUME NEW p \in Peers, NEW i \in Indices, UpdateBitField(p, i)
      PROVE  NoWorkOnFinished'
  BY <1>6, <1>2 DEF UpdateBitField, Panic, doneVars
<1>7. ASSUME NEW p \in Peers, RequestWork(p) PROVE NoWorkOnFinished'
  <2>1. PICK i \in RarestEligible(p) : Assign(p, i)
    BY <1>7 DEF RequestWork
  <2>2. i \notin local_bitfield
    BY <2>1 DEF RarestEligible, Eligible
  <2> QED BY <1>7, <2>1, <2>2 DEF RequestWork, Assign, NoWorkOnFinished, TypeOK, doneVars
<1>8. ASSUME NEW p \in Peers, NEW late \in SUBSET peer_active_work[p],
             UpdateAndGetActiveRequestCount(p, late)
      PROVE  NoWorkOnFinished'
  BY <1>8, <1>1 DEF UpdateAndGetActiveRequestCount, doneVars, TypeOK
<1>9. ASSUME NEW i \in Pieces, NEW flushed \in BOOLEAN, FirstReport(i, flushed)
      PROVE  NoWorkOnFinished'
  BY <1>9 DEF FirstReport, CompletePiece, WorkWithout, NoWorkOnFinished
<1>10. CASE UNCHANGED vars
  BY <1>10, <1>2 DEF vars, doneVars
<1> QED BY <1>3, <1>4, <1>5, <1>6, <1>7, <1>8, <1>9, <1>10, FinishStep DEF Next

\* No peer is left with work on a piece that is complete or has no manager.
THEOREM NoWorkOnFinishedCorrect == Spec => []NoWorkOnFinished
<1>1. Init => NoWorkOnFinished
  BY DEF Init, NoWorkOnFinished
<1>2. TypeOK /\ NoWorkOnFinished /\ [Next]_vars => NoWorkOnFinished'
  BY NoWorkNext
<1> QED BY <1>1, <1>2, TypeCorrect, PTL DEF Spec

----------------------------------------------------------------------------
(* The ledger of complete pieces                                           *)

LEMMA LedgerInit == Init => Ledger!Init
BY DEF Init, Ledger!Init

LEMMA LedgerNext == TypeOK /\ [Next]_vars => [Ledger!Next]_(Ledger!vars)
<1> SUFFICES ASSUME TypeOK, [Next]_vars PROVE [Ledger!Next]_(Ledger!vars)
  OBVIOUS
<1>1. ASSUME UNCHANGED doneVars PROVE UNCHANGED Ledger!vars
  BY <1>1 DEF doneVars, Ledger!vars
<1>2. ASSUME NEW i \in Pieces, NEW flushed \in BOOLEAN, FirstReport(i, flushed)
      PROVE  Ledger!Next
  <2>1. i \in Pieces \ local_bitfield /\ local_bitfield' = local_bitfield \cup {i}
    BY <1>2 DEF FirstReport, CompletePiece
  <2>2. CASE flushed
    <3>1. /\ ~ ~disk_running
          /\ (~disk_running)' = ~disk_running
          /\ downloaded_piece_index' = Append(downloaded_piece_index, i)
      BY <1>2, <2>2 DEF FirstReport, CompletePiece, Flush, LogIfFlushed, TypeOK
    <3> QED BY <2>1, <3>1 DEF Ledger!Next, Ledger!Store
  <2>3. CASE ~flushed
    <3>1. (~disk_running)' = TRUE /\ downloaded_piece_index' = downloaded_piece_index
      BY <1>2, <2>3 DEF FirstReport, CompletePiece, Flush, LogIfFlushed, TypeOK
    <3> QED BY <2>1, <3>1 DEF Ledger!Next, Ledger!Spill
  <2> QED BY <2>2, <2>3
<1>3. ASSUME NEW p \in Peers,
             \/ AddPeer(p)
             \/ Disconnect(p)
             \/ \E field \in BitVecs(FieldLens) : AddBitFeild(p, field)
             \/ \E i \in Indices : UpdateBitField(p, i)
             \/ RequestWork(p)
             \/ \E late \in SUBSET peer_active_work[p] : UpdateAndGetActiveRequestCount(p, late)
      PROVE  UNCHANGED doneVars
  BY <1>3 DEF AddPeer, Disconnect, AddBitFeild, UpdateBitField, Panic, RequestWork,
              UpdateAndGetActiveRequestCount
<1>4. CASE UNCHANGED vars
  BY <1>4, <1>1 DEF vars
<1> QED BY <1>1, <1>2, <1>3, <1>4, FinishStep DEF Next

\* The manager implements the abstract ledger: every piece completes once,
\* in one step, and is logged in that step unless the disk has failed.
THEOREM ImplementsLedger == Spec => LedgerSpec
<1>1. Init => Ledger!Init
  BY LedgerInit
<1>2. TypeOK /\ [Next]_vars => [Ledger!Next]_(Ledger!vars)
  BY LedgerNext
<1> QED BY <1>1, <1>2, TypeCorrect, PTL DEF Spec, LedgerSpec, Ledger!Spec

LEMMA LogStep ==
  TypeOK /\ HaveLogExact /\ [Ledger!Next]_(Ledger!vars) => HaveLogExact'
<1> SUFFICES ASSUME TypeOK, HaveLogExact, [Ledger!Next]_(Ledger!vars)
             PROVE  HaveLogExact'
  OBVIOUS
<1> USE DEF HaveLogExact, Ledger!LogExact, Ledger!Logged
<1>1. downloaded_piece_index \in Seq(Pieces) /\ disk_running \in BOOLEAN
  BY DEF TypeOK
<1>2. ASSUME NEW i \in Pieces \ local_bitfield, Ledger!Store(i) PROVE HaveLogExact'
  <2>1. /\ local_bitfield' = local_bitfield \cup {i}
        /\ downloaded_piece_index' = Append(downloaded_piece_index, i)
        /\ DOMAIN downloaded_piece_index = 1 .. Len(downloaded_piece_index)
        /\ Len(downloaded_piece_index) \in Nat
    BY <1>1, <1>2 DEF Ledger!Store
  <2>2. DOMAIN downloaded_piece_index' = DOMAIN downloaded_piece_index \cup {Len(downloaded_piece_index) + 1}
    BY <1>1, <2>1
  <2>3. \A k \in DOMAIN downloaded_piece_index :
           /\ downloaded_piece_index'[k] = downloaded_piece_index[k]
           /\ downloaded_piece_index[k] \in local_bitfield
    BY <1>1, <2>1
  <2>4. downloaded_piece_index'[Len(downloaded_piece_index) + 1] = i
    BY <1>1, <2>1
  <2>5. ~disk_running = (~disk_running)'
    BY <1>2 DEF Ledger!Store
  <2>6. Ledger!Logged' = Ledger!Logged \cup {i}
    BY <2>2, <2>3, <2>4
  <2>7. \A j, k \in DOMAIN downloaded_piece_index' :
          downloaded_piece_index'[j] = downloaded_piece_index'[k] => j = k
    BY <2>2, <2>3, <2>4
  <2> QED BY <1>2, <2>1, <2>5, <2>6, <2>7 DEF Ledger!Store
<1>3. ASSUME NEW i \in Pieces \ local_bitfield, Ledger!Spill(i) PROVE HaveLogExact'
  BY <1>1, <1>3 DEF Ledger!Spill
<1>4. CASE UNCHANGED Ledger!vars
  BY <1>4 DEF Ledger!vars
<1> QED BY <1>2, <1>3, <1>4 DEF Ledger!Next

\* The log the Have broadcaster reads is exact while the disk works.
THEOREM HaveLogCorrect == Spec => []HaveLogExact
<1>1. Init => HaveLogExact
  BY DEF Init, HaveLogExact, Ledger!LogExact, Ledger!Logged
<1>2. TypeOK /\ HaveLogExact /\ [Next]_vars => HaveLogExact'
  BY LedgerNext, LogStep
<1> QED BY <1>1, <1>2, TypeCorrect, PTL DEF Spec

----------------------------------------------------------------------------
(* The view of a connection                                                *)

LEMMA ViewInit ==
  ASSUME NEW p \in Peers, Init
  PROVE  View(p)!Init
<1>1. /\ peer_active_work[p] = {} /\ local_bitfield = {}
      /\ peer_bitfields[p].ones = {} /\ peer_bitfields[p].len = 0
  BY DEF Init, NewBitVec
<1> QED
  BY <1>1 DEF View!Init

\* What a handler that leaves the peer alone does to its view.
LEMMA ViewFrame ==
  ASSUME NEW p \in Peers,
         peer_bitfields'[p] = peer_bitfields[p],
         peer_active_work'[p] = peer_active_work[p],
         local_bitfield' = local_bitfield
  PROVE  UNCHANGED View(p)!vars
BY DEF View!vars

\* AddPeer, AddBitFeild and UpdateBitField (lines 67-125 and 228-238).
LEMMA ViewAnnounce ==
  ASSUME NEW p \in Peers, NEW q \in Peers, TypeOK,
         \/ AddPeer(q)
         \/ \E field \in BitVecs(FieldLens) : AddBitFeild(q, field)
         \/ \E i \in Indices : UpdateBitField(q, i)
  PROVE  [View(p)!Next]_(View(p)!vars)
<1>1. CASE AddPeer(q)
  <2>1. CASE p = q
    <3>1. /\ peer_bitfields'[p] = NewBitVec /\ peer_active_work'[p] = {}
          /\ local_bitfield' = local_bitfield
      BY <1>1, <2>1 DEF AddPeer, TypeOK, doneVars
    <3>2. View(p)!Register
      BY <3>1 DEF View!Register, NewBitVec
    <3> QED BY <3>2 DEF View!Next
  <2>2. CASE p # q
    BY <1>1, <2>2, ViewFrame DEF AddPeer, TypeOK, doneVars
  <2> QED BY <2>1, <2>2
<1>2. ASSUME NEW field \in BitVecs(FieldLens), AddBitFeild(q, field)
      PROVE  [View(p)!Next]_(View(p)!vars)
  <2>1. CASE p # q \/ peer_bitfields' = peer_bitfields
    BY <1>2, <2>1, ViewFrame DEF AddBitFeild, Panic, TypeOK, workVars, doneVars
  <2>2. CASE p = q /\ peer_bitfields' # peer_bitfields
    <3>1. /\ peer_bitfields'[p] = field
          /\ peer_active_work' = peer_active_work /\ local_bitfield' = local_bitfield
      BY <1>2, <2>2 DEF AddBitFeild, Panic, TypeOK, workVars, doneVars
    <3>2. /\ field.len \in Nat /\ \A i \in field.ones : i < field.len
          /\ \A i \in Pieces : i >= 0
      BY SentIsBitVec, BitVecShape DEF Pieces
    <3>3. field.ones \cap Pieces # {} => field.len > 0
      BY <3>2 DEF Pieces
    <3>4. View(p)!Greet(field.ones \cap Pieces)
      BY <3>1, <3>3 DEF View!Greet
    <3> QED BY <3>4 DEF View!Next
  <2> QED BY <2>1, <2>2
<1>3. ASSUME NEW i \in Indices, UpdateBitField(q, i)
      PROVE  [View(p)!Next]_(View(p)!vars)
  <2>1. CASE p # q \/ peer_bitfields' = peer_bitfields
    BY <1>3, <2>1, ViewFrame DEF UpdateBitField, Panic, TypeOK, workVars, doneVars
  <2>2. CASE p = q /\ peer_bitfields' # peer_bitfields
    <3>1. /\ HaveInRange(p, i)
          /\ peer_bitfields'[p] = [len |-> peer_bitfields[p].len,
                                   ones |-> peer_bitfields[p].ones \cup {i}]
          /\ peer_active_work' = peer_active_work /\ local_bitfield' = local_bitfield
      BY <1>3, <2>2 DEF UpdateBitField, Panic, TypeOK, workVars, doneVars
    <3>2. i < peer_bitfields[p].len /\ i \in Nat /\ peer_bitfields[p].len \in Nat
      BY <3>1, BitVecShape, ManagerAssumptions DEF HaveInRange, TypeOK, Indices
    <3>3. peer_bitfields[p].len > 0
      BY <3>2
    <3>4. CASE i \in Pieces
      <4>1. View(p)!Announce(i)
        BY <3>1, <3>3, <3>4 DEF View!Announce
      <4> QED BY <3>4, <4>1 DEF View!Next
    <3>5. CASE i \notin Pieces
      BY <3>1, <3>5 DEF View!vars
    <3> QED BY <3>4, <3>5
  <2> QED BY <2>1, <2>2
<1> QED
  BY <1>1, <1>2, <1>3

\* RequestWork, the watchdog's sweep and PieceFinish (lines 127-227, 245-312).
LEMMA ViewWork ==
  ASSUME NEW p \in Peers, TypeOK,
         \/ \E q \in Peers : RequestWork(q)
         \/ \E q \in Peers : \E late \in SUBSET peer_active_work[q] :
              UpdateAndGetActiveRequestCount(q, late)
         \/ \E i \in Pieces, flushed \in BOOLEAN : FirstReport(i, flushed)
  PROVE  [View(p)!Next]_(View(p)!vars)
<1>1. ASSUME NEW q \in Peers, RequestWork(q) PROVE [View(p)!Next]_(View(p)!vars)
  <2>1. PICK i \in RarestEligible(q) : Assign(q, i)
    BY <1>1 DEF RequestWork
  <2>2. UNCHANGED <<peer_bitfields, local_bitfield>>
    BY <1>1 DEF RequestWork, doneVars
  <2>3. Eligible(q, i)
    BY <2>1 DEF RarestEligible
  <2>4. i \in Pieces \ local_bitfield /\ i \in peer_bitfields[q].ones \ peer_active_work[q]
    BY <2>3 DEF Eligible, TypeOK
  <2>5. CASE p = q
    <3>1. peer_active_work'[p] = peer_active_work[p] \cup {i}
      BY <2>1, <2>5 DEF Assign, TypeOK
    <3>2. View(p)!Assign(i)
      BY <2>2, <2>4, <2>5, <3>1 DEF View!Assign
    <3> QED BY <2>4, <3>2 DEF View!Next
  <2>6. CASE p # q
    BY <2>1, <2>2, <2>6, ViewFrame DEF Assign, TypeOK
  <2> QED BY <2>5, <2>6
<1>2. ASSUME NEW q \in Peers, NEW late \in SUBSET peer_active_work[q],
             UpdateAndGetActiveRequestCount(q, late)
      PROVE  [View(p)!Next]_(View(p)!vars)
  <2>1. UNCHANGED <<peer_bitfields, local_bitfield>>
    BY <1>2 DEF UpdateAndGetActiveRequestCount, doneVars
  <2>2. CASE p = q
    <3> DEFINE dropped == late \cup local_bitfield
    <3>1. dropped \in SUBSET Pieces
      BY <1>2 DEF TypeOK
    <3>2. peer_active_work'[p] = peer_active_work[p] \ dropped
      BY <1>2, <2>2 DEF UpdateAndGetActiveRequestCount, TypeOK
    <3> HIDE DEF dropped
    <3>3. View(p)!Release(dropped)
      BY <2>1, <3>2 DEF View!Release
    <3> QED BY <3>1, <3>3 DEF View!Next
  <2>3. CASE p # q
    BY <1>2, <2>1, <2>3, ViewFrame DEF UpdateAndGetActiveRequestCount, TypeOK
  <2> QED BY <2>2, <2>3
<1>3. ASSUME NEW i \in Pieces, NEW flushed \in BOOLEAN, FirstReport(i, flushed)
      PROVE  [View(p)!Next]_(View(p)!vars)
  <2>1. /\ i \notin local_bitfield /\ local_bitfield' = local_bitfield \cup {i}
        /\ peer_active_work'[p] = peer_active_work[p] \ {i}
        /\ peer_bitfields' = peer_bitfields
    BY <1>3 DEF FirstReport, CompletePiece, WorkWithout
  <2>2. View(p)!Complete(i)
    BY <2>1 DEF View!Complete
  <2> QED BY <2>2 DEF View!Next
<1> QED
  BY <1>1, <1>2, <1>3

\* Every connection sees the manager that PeerFSM has: work is assigned and
\* taken back, and pieces complete, as ManagerView promises, whatever the
\* other peers do and also if the peer registers again
\* (torrent_manager.rs, lines 116-312).
THEOREM ServesEveryPeerCorrect == Spec => ServesEveryPeer
<1>1. Init => \A p \in Peers : View(p)!Init
  BY ViewInit
<1>2. ASSUME TypeOK, [Next]_vars, NEW p \in Peers PROVE [View(p)!Next]_(View(p)!vars)
  <2>1. ASSUME NEW q \in Peers, Disconnect(q) PROVE UNCHANGED View(p)!vars
    BY <2>1, ViewFrame DEF Disconnect, workVars, doneVars
  <2>2. CASE UNCHANGED vars
    BY <2>2, ViewFrame DEF vars, workVars, doneVars
  <2> QED BY <1>2, <2>1, <2>2, ViewAnnounce, ViewWork, FinishStep DEF Next
<1>3. TypeOK /\ [Next]_vars => [\A p \in Peers : [View(p)!Next]_(View(p)!vars)]_vars
  BY <1>2
<1> QED
  BY <1>1, <1>3, TypeCorrect, PTL DEF Spec, ServesEveryPeer

----------------------------------------------------------------------------
(* Workers and their count                                                 *)

\* Removing a peer from a finite set of peers, or adding one, changes its
\* cardinality by one.
LEMMA OneMore ==
  ASSUME NEW S \in SUBSET Peers, NEW p \in Peers, p \notin S
  PROVE  /\ Cardinality(S) \in Nat
         /\ Cardinality(S \cup {p}) = Cardinality(S) + 1
BY ManagerAssumptions, FS_Subset, FS_AddElement, FS_CardinalityType

LEMMA OneLess ==
  ASSUME NEW S \in SUBSET Peers, NEW p \in S
  PROVE  /\ Cardinality(S) \in Nat
         /\ Cardinality(S \ {p}) = Cardinality(S) - 1
BY ManagerAssumptions, FS_Subset, FS_RemoveElement, FS_CardinalityType

LEMMA FewerWorkers ==
  ASSUME NEW S \in SUBSET Peers, NEW T \in SUBSET S
  PROVE  /\ Cardinality(S) \in Nat
         /\ Cardinality(T) \in Nat
         /\ Cardinality(T) <= Cardinality(S)
BY ManagerAssumptions, FS_Subset, FS_CardinalityType

\* How each handler changes the workers of a piece that is not complete and
\* its count: one more of both, one less of both, or, when a peer registers
\* again, one worker less.
LEMMA WorkersStep ==
  ASSUME TypeOK, [Next]_vars, NEW i \in Pieces \ local_bitfield'
  PROVE  \/ /\ \/ Workers(i)' = Workers(i)
               \/ \E p \in Peers : AddPeer(p) /\ Workers(i)' = Workers(i) \ {p}
            /\ piece_concurrency_counts'[i] = piece_concurrency_counts[i]
         \/ \E p \in Peers \ Workers(i) :
              /\ WithinCap(i)
              /\ Workers(i)' = Workers(i) \cup {p}
              /\ piece_concurrency_counts'[i] = piece_concurrency_counts[i] + 1
         \/ \E p \in Workers(i) :
              /\ Workers(i)' = Workers(i) \ {p}
              /\ piece_concurrency_counts'[i] =
                   IF piece_concurrency_counts[i] > 0 THEN piece_concurrency_counts[i] - 1
                                                      ELSE piece_concurrency_counts[i]
<1> DEFINE Unworked == Workers(i)' = Workers(i)
                         /\ piece_concurrency_counts'[i] = piece_concurrency_counts[i]
<1> USE DEF Workers
<1>1. CASE UNCHANGED <<registered, workVars>>
  BY <1>1 DEF workVars
<1>2. ASSUME NEW p \in Peers, AddPeer(p)
      PROVE  /\ Workers(i)' = Workers(i) \ {p}
             /\ piece_concurrency_counts'[i] = piece_concurrency_counts[i]
  BY <1>2 DEF AddPeer, TypeOK
<1>3. ASSUME NEW p \in Peers, RequestWork(p)
      PROVE  \/ Unworked
             \/ \E q \in Peers \ Workers(i) :
                  /\ WithinCap(i)
                  /\ Workers(i)' = Workers(i) \cup {q}
                  /\ piece_concurrency_counts'[i] = piece_concurrency_counts[i] + 1
  <2>1. PICK j \in RarestEligible(p) : Assign(p, j)
    BY <1>3 DEF RequestWork
  <2>2. /\ Eligible(p, j)
        /\ p \in registered
        /\ registered' = registered
        /\ local_bitfield' = local_bitfield
        /\ peer_active_work' = [peer_active_work EXCEPT ![p] = @ \cup {j}]
        /\ piece_concurrency_counts' = [piece_concurrency_counts EXCEPT ![j] = @ + 1]
    BY <1>3, <2>1 DEF RequestWork, RarestEligible, Assign, peerVars, doneVars
  <2>3. CASE j = i
    <3>1. p \notin Workers(i) /\ WithinCap(i)
      BY <2>2, <2>3 DEF Eligible
    <3>2. Workers(i)' = Workers(i) \cup {p}
      BY <2>2, <2>3 DEF TypeOK
    <3>3. piece_concurrency_counts'[i] = piece_concurrency_counts[i] + 1
      BY <2>2, <2>3 DEF TypeOK
    <3> QED BY <3>1, <3>2, <3>3
  <2>4. CASE j # i
    BY <2>2, <2>4 DEF TypeOK
  <2> QED BY <2>3, <2>4
<1>4. ASSUME NEW p \in Peers, NEW late \in SUBSET peer_active_work[p],
             UpdateAndGetActiveRequestCount(p, late)
      PROVE  \/ Unworked
             \/ \E q \in Workers(i) :
                  /\ Workers(i)' = Workers(i) \ {q}
                  /\ piece_concurrency_counts'[i] =
                       IF piece_concurrency_counts[i] > 0 THEN piece_concurrency_counts[i] - 1
                                                          ELSE piece_concurrency_counts[i]
  <2>1. /\ p \in registered
        /\ registered' = registered
        /\ local_bitfield' = local_bitfield
        /\ i \in DOMAIN piece_concurrency_counts
        /\ peer_active_work' = [peer_active_work EXCEPT ![p] = @ \ (late \cup local_bitfield)]
        /\ piece_concurrency_counts' = Released(p, late \ local_bitfield)
    BY <1>4 DEF UpdateAndGetActiveRequestCount, TypeOK, peerVars, doneVars
  <2>2. CASE i \in late
    <3>1. p \in Workers(i)
      BY <2>1, <2>2
    <3>2. Workers(i)' = Workers(i) \ {p}
      BY <2>1, <2>2 DEF TypeOK
    <3>3. piece_concurrency_counts'[i] =
            IF piece_concurrency_counts[i] > 0 THEN piece_concurrency_counts[i] - 1
                                               ELSE piece_concurrency_counts[i]
      BY <2>1, <2>2 DEF Released
    <3> QED BY <3>1, <3>2, <3>3
  <2>3. CASE i \notin late
    BY <2>1, <2>3 DEF TypeOK, Released
  <2> QED BY <2>2, <2>3
<1>5. ASSUME NEW j \in Pieces, NEW flushed \in BOOLEAN, FirstReport(j, flushed)
      PROVE  Unworked
  BY <1>5 DEF FirstReport, CompletePiece, WorkWithout, TypeOK, peerVars
<1>6. ASSUME NEW p \in Peers,
             \/ Disconnect(p)
             \/ \E field \in BitVecs(FieldLens) : AddBitFeild(p, field)
             \/ \E j \in Indices : UpdateBitField(p, j)
      PROVE  UNCHANGED <<registered, workVars>>
  BY <1>6 DEF Disconnect, AddBitFeild, UpdateBitField, Panic, peerVars
<1>7. CASE UNCHANGED vars
  BY <1>7, <1>1 DEF vars, peerVars
<1> QED BY <1>1, <1>2, <1>3, <1>4, <1>5, <1>6, <1>7, FinishStep DEF Next

LEMMA WithinCapNext == TypeOK /\ WorkersWithinCap /\ [Next]_vars => WorkersWithinCap'
<1> SUFFICES ASSUME TypeOK, WorkersWithinCap, [Next]_vars,
                    NEW i \in Pieces \ local_bitfield'
             PROVE  /\ Cardinality(Workers(i)') <= piece_concurrency_counts'[i]
                    /\ piece_concurrency_counts'[i] <= PerPieceActivePeerCount + 1
  BY DEF WorkersWithinCap, Workers
<1>1. i \in Pieces \ local_bitfield
  BY DEF Next, vars, doneVars, AddPeer, Disconnect, AddBitFeild, UpdateBitField, Panic,
         RequestWork, UpdateAndGetActiveRequestCount, PieceFinish, IsNews, CompletePiece
<1>2. /\ Workers(i) \subseteq Peers
      /\ piece_concurrency_counts[i] \in Nat
      /\ Cardinality(Workers(i)) <= piece_concurrency_counts[i]
      /\ piece_concurrency_counts[i] <= PerPieceActivePeerCount + 1
  BY <1>1 DEF TypeOK, WorkersWithinCap, Workers
<1>3. CASE /\ Workers(i)' \subseteq Workers(i)
           /\ piece_concurrency_counts'[i] = piece_concurrency_counts[i]
  BY <1>2, <1>3, FewerWorkers, ManagerAssumptions
<1>4. ASSUME NEW p \in Peers \ Workers(i), WithinCap(i), Workers(i)' = Workers(i) \cup {p},
             piece_concurrency_counts'[i] = piece_concurrency_counts[i] + 1
      PROVE  /\ Cardinality(Workers(i)') <= piece_concurrency_counts'[i]
             /\ piece_concurrency_counts'[i] <= PerPieceActivePeerCount + 1
  BY <1>2, <1>4, OneMore, ManagerAssumptions DEF WithinCap
<1>5. ASSUME NEW p \in Workers(i), Workers(i)' = Workers(i) \ {p},
             piece_concurrency_counts'[i] =
               IF piece_concurrency_counts[i] > 0 THEN piece_concurrency_counts[i] - 1
                                                  ELSE piece_concurrency_counts[i]
      PROVE  /\ Cardinality(Workers(i)') <= piece_concurrency_counts'[i]
             /\ piece_concurrency_counts'[i] <= PerPieceActivePeerCount + 1
  <2>1. /\ Cardinality(Workers(i)) \in Nat
        /\ Cardinality(Workers(i)') = Cardinality(Workers(i)) - 1
    BY <1>2, <1>5, OneLess
  <2>2. Cardinality(Workers(i)) # 0
    BY <1>2, FS_EmptySet, FS_Subset, ManagerAssumptions
  <2> QED BY <1>2, <1>5, <2>1, <2>2, ManagerAssumptions
<1> QED BY <1>3, <1>4, <1>5, WorkersStep

\* Whatever peers do, a piece has at most the cap plus one workers, and never
\* more than its count says.
THEOREM WorkersWithinCapCorrect == Spec => []WorkersWithinCap
<1>1. Init => WorkersWithinCap
  <2> SUFFICES ASSUME Init, NEW i \in Pieces
               PROVE  /\ Cardinality(Workers(i)) <= piece_concurrency_counts[i]
                      /\ piece_concurrency_counts[i] <= PerPieceActivePeerCount + 1
    BY DEF WorkersWithinCap
  <2>1. Workers(i) = {}
    BY DEF Init, Workers
  <2>2. piece_concurrency_counts[i] = 0
    BY DEF Init
  <2> QED BY <2>1, <2>2, FS_EmptySet, ManagerAssumptions
<1>2. TypeOK /\ WorkersWithinCap /\ [Next]_vars => WorkersWithinCap'
  BY WithinCapNext
<1> QED BY <1>1, <1>2, TypeCorrect, PTL DEF Spec

----------------------------------------------------------------------------
(* Peers that stay: exact counts and rarest first                          *)

\* A peer the manager does not know has no work and no bits, and one whose
\* Bitfield has not arrived has no bits (lines 116-119: entries start empty).
UnknownIsEmpty ==
  \A p \in Peers :
    /\ p \notin registered => peer_active_work[p] = {} /\ peer_bitfields[p] = NewBitVec
    /\ peer_bitfields[p].len = 0 => peer_bitfields[p].ones = {}

LEMMA UnknownNext == TypeOK /\ UnknownIsEmpty /\ [Next]_vars => UnknownIsEmpty'
<1> SUFFICES ASSUME TypeOK, UnknownIsEmpty, [Next]_vars PROVE UnknownIsEmpty'
  OBVIOUS
<1> USE DEF UnknownIsEmpty
<1>1. ASSUME UNCHANGED <<peerVars, peer_bitfields, peer_active_work>> PROVE UnknownIsEmpty'
  BY <1>1 DEF peerVars
<1>2. ASSUME NEW p \in Peers, AddPeer(p) PROVE UnknownIsEmpty'
  BY <1>2 DEF AddPeer, TypeOK, NewBitVec
<1>3. ASSUME NEW p \in Peers, Disconnect(p) PROVE UnknownIsEmpty'
  BY <1>3, <1>1 DEF Disconnect, workVars
<1>4. ASSUME NEW p \in Peers, NEW field \in BitVecs(FieldLens), AddBitFeild(p, field)
      PROVE  UnknownIsEmpty'
  <2>1. CASE Panic
    BY <2>1, <1>1 DEF Panic, workVars
  <2>2. CASE ~Panic
    <3>1. /\ p \in registered /\ registered' = registered
          /\ peer_bitfields' = [peer_bitfields EXCEPT ![p] = field]
          /\ peer_active_work' = peer_active_work
      BY <1>4, <2>2 DEF AddBitFeild, MaySendBitfield, peerVars, workVars
    <3>2. field.len = 0 => field.ones = {}
      <4>1. field.ones \subseteq Indices /\ \A i \in field.ones : i < field.len
        BY SentIsBitVec, BitVecShape
      <4> QED BY <4>1, ManagerAssumptions DEF Indices
    <3> QED BY <3>1, <3>2 DEF TypeOK
  <2> QED BY <2>1, <2>2
<1>5. ASSUME NEW p \in Peers, NEW i \in Indices, UpdateBitField(p, i)
      PROVE  UnknownIsEmpty'
  <2>1. CASE Panic
    BY <2>1, <1>1 DEF Panic, workVars
  <2>2. CASE ~Panic
    <3>1. /\ i < peer_bitfields[p].len
          /\ p \in registered /\ registered' = registered
          /\ peer_bitfields' =
               [peer_bitfields EXCEPT ![p] = [len |-> @.len, ones |-> @.ones \cup {i}]]
          /\ peer_active_work' = peer_active_work
      BY <1>5, <2>2 DEF UpdateBitField, HaveInRange, MaySendHave, peerVars, workVars
    <3>2. i \in Nat
      BY ManagerAssumptions DEF Indices
    <3>3. peer_bitfields[p].len # 0
      BY <3>1, <3>2
    <3> QED BY <3>1, <3>3 DEF TypeOK
  <2> QED BY <2>1, <2>2
<1>6. ASSUME NEW p \in Peers, RequestWork(p) PROVE UnknownIsEmpty'
  BY <1>6 DEF RequestWork, Assign, TypeOK, peerVars
<1>7. ASSUME NEW p \in Peers, NEW late \in SUBSET peer_active_work[p],
             UpdateAndGetActiveRequestCount(p, late)
      PROVE  UnknownIsEmpty'
  BY <1>7 DEF UpdateAndGetActiveRequestCount, TypeOK, peerVars
<1>8. ASSUME NEW i \in Pieces, NEW flushed \in BOOLEAN, FirstReport(i, flushed)
      PROVE  UnknownIsEmpty'
  BY <1>8 DEF FirstReport, CompletePiece, WorkWithout, TypeOK, peerVars
<1>9. CASE UNCHANGED vars
  BY <1>9, <1>1 DEF vars, workVars
<1> QED BY <1>2, <1>3, <1>4, <1>5, <1>6, <1>7, <1>8, <1>9, FinishStep DEF Next

LEMMA UnknownCorrect == Spec => []UnknownIsEmpty
<1>1. Init => UnknownIsEmpty
  BY DEF Init, UnknownIsEmpty, NewBitVec
<1>2. TypeOK /\ UnknownIsEmpty /\ [Next]_vars => UnknownIsEmpty'
  BY UnknownNext
<1> QED BY <1>1, <1>2, TypeCorrect, PTL DEF Spec

LEMMA WorkCountNext ==
  ASSUME ~Churn
  PROVE  TypeOK /\ UnknownIsEmpty /\ WorkCountExact /\ [Next]_vars => WorkCountExact'
<1> SUFFICES ASSUME TypeOK, UnknownIsEmpty, WorkCountExact, [Next]_vars,
                    NEW i \in Pieces \ local_bitfield'
             PROVE  piece_concurrency_counts'[i] = Cardinality(Workers(i)')
  BY DEF WorkCountExact, Workers
<1>1. i \in Pieces \ local_bitfield
  BY DEF Next, vars, doneVars, AddPeer, Disconnect, AddBitFeild, UpdateBitField, Panic,
         RequestWork, UpdateAndGetActiveRequestCount, PieceFinish, IsNews, CompletePiece
<1>2. /\ Workers(i) \subseteq Peers
      /\ piece_concurrency_counts[i] \in Nat
      /\ piece_concurrency_counts[i] = Cardinality(Workers(i))
  BY <1>1 DEF TypeOK, WorkCountExact, Workers
<1>3. \A p \in Peers : AddPeer(p) => Workers(i) \ {p} = Workers(i)
  BY DEF AddPeer, Workers
<1>4. CASE Workers(i)' = Workers(i) /\ piece_concurrency_counts'[i] = piece_concurrency_counts[i]
  BY <1>2, <1>4
<1>5. ASSUME NEW p \in Peers \ Workers(i), Workers(i)' = Workers(i) \cup {p},
             piece_concurrency_counts'[i] = piece_concurrency_counts[i] + 1
      PROVE  piece_concurrency_counts'[i] = Cardinality(Workers(i)')
  BY <1>2, <1>5, OneMore
<1>6. ASSUME NEW p \in Workers(i), Workers(i)' = Workers(i) \ {p},
             piece_concurrency_counts'[i] =
               IF piece_concurrency_counts[i] > 0 THEN piece_concurrency_counts[i] - 1
                                                  ELSE piece_concurrency_counts[i]
      PROVE  piece_concurrency_counts'[i] = Cardinality(Workers(i)')
  <2>1. Cardinality(Workers(i)') = Cardinality(Workers(i)) - 1
    BY <1>2, <1>6, OneLess
  <2>2. Cardinality(Workers(i)) # 0
    BY <1>2, <1>6, FS_EmptySet, FS_Subset, ManagerAssumptions
  <2> QED BY <1>2, <1>6, <2>1, <2>2
<1> QED BY <1>3, <1>4, <1>5, <1>6, WorkersStep

\* As long as no peer leaves, the count of a piece is the number of peers
\* that work on it (line 27).
THEOREM WorkCountCorrect ==
  ASSUME ~Churn
  PROVE  Spec => []WorkCountExact
<1>1. Init => WorkCountExact
  <2> SUFFICES ASSUME Init, NEW i \in Pieces
               PROVE  piece_concurrency_counts[i] = Cardinality(Workers(i))
    BY DEF WorkCountExact
  <2>1. Workers(i) = {} /\ piece_concurrency_counts[i] = 0
    BY DEF Init, Workers
  <2> QED BY <2>1, FS_EmptySet
<1>2. TypeOK /\ UnknownIsEmpty /\ WorkCountExact /\ [Next]_vars => WorkCountExact'
  BY WorkCountNext
<1> QED BY <1>1, <1>2, TypeCorrect, UnknownCorrect, PTL DEF Spec

\* One holder more moves the saturated count like a frequency.
LEMMA SaturatedStep ==
  ASSUME NEW n \in Nat
  PROVE  Bumped(Saturated(n)) = Saturated(n + 1)
BY ManagerAssumptions DEF Bumped, Saturated

\* A message that adds the bits of held to the one peer p keeps the
\* frequencies exact.
LEMMA AnnounceExact ==
  ASSUME TypeOK, FrequencyExact, NEW p \in registered, NEW held \in SUBSET Pieces,
         BumpFrequency(held), registered' = registered, local_bitfield' = local_bitfield,
         \A q \in Peers \ {p} : peer_bitfields'[q] = peer_bitfields[q],
         \A i \in Pieces \ local_bitfield :
           /\ i \in held => i \notin peer_bitfields[p].ones /\ i \in peer_bitfields'[p].ones
           /\ i \notin held => (i \in peer_bitfields'[p].ones <=> i \in peer_bitfields[p].ones)
  PROVE  FrequencyExact'
<1> SUFFICES ASSUME NEW i \in Pieces \ local_bitfield
             PROVE  pieces_frequency'[i] = Saturated(Cardinality(Holders(i)'))
  BY DEF FrequencyExact, Holders, Saturated
<1>1. Holders(i) \subseteq Peers /\ p \in Peers
  BY DEF Holders, TypeOK
<1>2. pieces_frequency[i] = Saturated(Cardinality(Holders(i)))
  BY DEF FrequencyExact
<1>3. CASE i \in held
  <2>1. p \notin Holders(i) /\ Holders(i)' = Holders(i) \cup {p}
    BY <1>1, <1>3 DEF Holders, TypeOK
  <2>2. /\ Cardinality(Holders(i)) \in Nat
        /\ Cardinality(Holders(i)') = Cardinality(Holders(i)) + 1
    BY <1>1, <2>1, OneMore
  <2>3. pieces_frequency'[i] = Bumped(pieces_frequency[i])
    BY <1>3 DEF BumpFrequency
  <2> QED BY <1>2, <2>2, <2>3, SaturatedStep
<1>4. CASE i \notin held
  <2>0. \A q \in registered : i \in peer_bitfields'[q].ones <=> i \in peer_bitfields[q].ones
    BY <1>4 DEF TypeOK
  <2>1. Holders(i)' = Holders(i)
    BY <2>0 DEF Holders
  <2>2. pieces_frequency'[i] = pieces_frequency[i]
    BY <1>4 DEF BumpFrequency
  <2> QED BY <1>2, <2>1, <2>2
<1> QED BY <1>3, <1>4

LEMMA FrequencyNext ==
  ASSUME ~Churn, BitfieldFirst
  PROVE  TypeOK /\ UnknownIsEmpty /\ FrequencyExact /\ [Next]_vars => FrequencyExact'
<1> SUFFICES ASSUME TypeOK, UnknownIsEmpty, FrequencyExact, [Next]_vars
             PROVE  FrequencyExact'
  OBVIOUS
<1>1. ASSUME UNCHANGED <<peerVars, peer_bitfields, rarityVars, local_bitfield>>
      PROVE  FrequencyExact'
  BY <1>1 DEF FrequencyExact, Holders, Saturated, peerVars, rarityVars
<1>2. ASSUME NEW p \in Peers, AddPeer(p) PROVE FrequencyExact'
  <2>1. \A i \in Pieces : Holders(i)' = Holders(i)
    BY <1>2 DEF AddPeer, Holders, UnknownIsEmpty, TypeOK, NewBitVec
  <2> QED BY <1>2, <2>1 DEF AddPeer, FrequencyExact, Saturated, rarityVars, doneVars
<1>3. ASSUME NEW p \in Peers, NEW field \in BitVecs(FieldLens), AddBitFeild(p, field)
      PROVE  FrequencyExact'
  <2>1. CASE Panic
    BY <2>1, <1>1 DEF Panic, doneVars
  <2>2. CASE ~Panic
    <3>1. /\ p \in registered /\ peer_bitfields[p].len = 0
          /\ NewlyHeld(p, field.ones) \in SUBSET Pieces
          /\ BumpFrequency(NewlyHeld(p, field.ones))
          /\ peer_bitfields' = [peer_bitfields EXCEPT ![p] = field]
          /\ registered' = registered /\ local_bitfield' = local_bitfield
      BY <1>3, <2>2 DEF AddBitFeild, MaySendBitfield, peerVars, doneVars
    <3>2. peer_bitfields[p].ones = {}
      BY <3>1 DEF UnknownIsEmpty
    <3>3. peer_bitfields'[p].ones = field.ones /\ \A q \in Peers \ {p} : peer_bitfields'[q] = peer_bitfields[q]
      BY <3>1 DEF TypeOK
    <3>4. NewlyHeld(p, field.ones) = field.ones \ local_bitfield
      BY <3>2 DEF NewlyHeld
    <3> HIDE DEF NewlyHeld
    <3> QED BY <3>1, <3>2, <3>3, <3>4, AnnounceExact
  <2> QED BY <2>1, <2>2
<1>4. ASSUME NEW p \in Peers, NEW i \in Indices, UpdateBitField(p, i)
      PROVE  FrequencyExact'
  <2>1. CASE Panic
    BY <2>1, <1>1 DEF Panic, doneVars
  <2>2. CASE ~Panic
    <3>1. /\ p \in registered
          /\ NewlyHeld(p, {i}) \in SUBSET Pieces
          /\ BumpFrequency(NewlyHeld(p, {i}))
          /\ peer_bitfields' =
               [peer_bitfields EXCEPT ![p] = [len |-> @.len, ones |-> @.ones \cup {i}]]
          /\ registered' = registered /\ local_bitfield' = local_bitfield
      BY <1>4, <2>2 DEF UpdateBitField, MaySendHave, HaveInRange, peerVars, doneVars
    <3>2. /\ peer_bitfields'[p].ones = peer_bitfields[p].ones \cup {i}
          /\ \A q \in Peers \ {p} : peer_bitfields'[q] = peer_bitfields[q]
      BY <3>1 DEF TypeOK
    <3>3. \A j \in Pieces \ local_bitfield :
            j \in NewlyHeld(p, {i}) <=> j = i /\ j \notin peer_bitfields[p].ones
      BY DEF NewlyHeld
    <3> QED BY <3>1, <3>2, <3>3, AnnounceExact
  <2> QED BY <2>1, <2>2
<1>5. ASSUME NEW i \in Pieces, NEW flushed \in BOOLEAN, FirstReport(i, flushed)
      PROVE  FrequencyExact'
  BY <1>5 DEF FirstReport, CompletePiece, FrequencyExact, Holders, Saturated, TypeOK, peerVars
<1>6. ASSUME NEW p \in Peers, RequestWork(p) PROVE FrequencyExact'
  BY <1>6, <1>1 DEF RequestWork, doneVars
<1>7. ASSUME NEW p \in Peers, NEW late \in SUBSET peer_active_work[p],
             UpdateAndGetActiveRequestCount(p, late)
      PROVE  FrequencyExact'
  BY <1>7, <1>1 DEF UpdateAndGetActiveRequestCount, doneVars
<1>8. ASSUME NEW p \in Peers PROVE ~Disconnect(p)
  BY DEF Disconnect
<1>9. CASE UNCHANGED vars
  BY <1>9, <1>1 DEF vars, doneVars
<1> QED BY <1>2, <1>3, <1>4, <1>5, <1>6, <1>7, <1>8, <1>9, FinishStep DEF Next

\* If peers stay and announce their pieces in order, the frequency of a piece
\* is the number of its holders, up to the saturation at MaxFreq.
THEOREM FrequencyCorrect ==
  ASSUME ~Churn, BitfieldFirst
  PROVE  Spec => []FrequencyExact
<1>1. Init => FrequencyExact
  <2> SUFFICES ASSUME Init, NEW i \in Pieces
               PROVE  pieces_frequency[i] = Saturated(Cardinality(Holders(i)))
    BY DEF FrequencyExact
  <2>1. Holders(i) = {} /\ pieces_frequency[i] = 0
    BY DEF Init, Holders
  <2> QED BY <2>1, FS_EmptySet, ManagerAssumptions DEF Saturated
<1>2. TypeOK /\ UnknownIsEmpty /\ FrequencyExact /\ [Next]_vars => FrequencyExact'
  BY FrequencyNext
<1> QED BY <1>1, <1>2, TypeCorrect, UnknownCorrect, PTL DEF Spec

\* The pieces assigned in a step to a peer are the rarest it could be given.
LEMMA RarestStep ==
  ASSUME TypeOK, RarityIndex, FrequencyExact, [Next]_vars,
         NEW p \in Peers, NEW i \in peer_active_work'[p] \ peer_active_work[p],
         NEW j \in Pieces, Eligible(p, j)
  PROVE  Saturated(Cardinality(Holders(i))) <= Saturated(Cardinality(Holders(j)))
<1>1. PICK q \in Peers : RequestWork(q)
  <2> SUFFICES ASSUME \A q \in Peers : ~RequestWork(q) PROVE FALSE
    OBVIOUS
  <2>1. CASE peer_active_work' = peer_active_work
    BY <2>1
  <2>2. ASSUME NEW q \in Peers, AddPeer(q) PROVE FALSE
    BY <2>2 DEF AddPeer, TypeOK
  <2>3. ASSUME NEW q \in Peers, NEW late \in SUBSET peer_active_work[q],
               UpdateAndGetActiveRequestCount(q, late)
        PROVE  FALSE
    BY <2>3 DEF UpdateAndGetActiveRequestCount, TypeOK
  <2>4. ASSUME NEW l \in Pieces, NEW flushed \in BOOLEAN, FirstReport(l, flushed)
        PROVE  FALSE
    BY <2>4 DEF FirstReport, CompletePiece, WorkWithout
  <2>5. ASSUME NEW q \in Peers,
               \/ Disconnect(q)
               \/ \E field \in BitVecs(FieldLens) : AddBitFeild(q, field)
               \/ \E l \in Indices : UpdateBitField(q, l)
        PROVE  FALSE
    BY <2>5, <2>1 DEF Disconnect, AddBitFeild, UpdateBitField, Panic, workVars
  <2>6. CASE UNCHANGED vars
    BY <2>6, <2>1 DEF vars, workVars
  <2> QED BY <2>2, <2>3, <2>4, <2>5, <2>6, FinishStep DEF Next
<1>2. PICK k \in RarestEligible(q) : Assign(q, k)
  BY <1>1 DEF RequestWork
<1>3. q = p /\ k = i
  BY <1>2 DEF Assign, TypeOK
<1>4. PICK b \in 0 .. MaxFreq :
        /\ i \in rarity_bucket[b]
        /\ \A c \in 0 .. b - 1 : \A l \in rarity_bucket[c] : ~Eligible(p, l)
  BY <1>2, <1>3 DEF RarestEligible
<1>5. i \in Pieces \ local_bitfield /\ pieces_frequency[i] = b
  BY <1>4 DEF RarityIndex, TypeOK
<1>6. j \in Pieces \ local_bitfield /\ p \in Holders(j)
  BY <1>1, <1>3 DEF Eligible, Holders, RequestWork
<1>7. /\ pieces_frequency[i] = Saturated(Cardinality(Holders(i)))
      /\ pieces_frequency[j] = Saturated(Cardinality(Holders(j)))
      /\ pieces_frequency[j] \in 0 .. MaxFreq
  BY <1>5, <1>6 DEF FrequencyExact, TypeOK
<1>8. pieces_frequency[j] > 0
  <2>1. Holders(j) \subseteq Peers
    BY DEF Holders, TypeOK
  <2>2. Cardinality(Holders(j)) \in Nat /\ Cardinality(Holders(j)) # 0
    BY <1>6, <2>1, FS_Subset, FS_EmptySet, FS_CardinalityType, ManagerAssumptions
  <2> QED BY <1>7, <2>2, ManagerAssumptions DEF Saturated
<1>9. j \in rarity_bucket[pieces_frequency[j]]
  BY <1>6, <1>7, <1>8 DEF RarityIndex
<1>10. ~(pieces_frequency[j] < b)
  BY <1>4, <1>7, <1>9
<1> QED BY <1>5, <1>7, <1>10

\* Piece selection is rarest first, measured by who really holds the pieces
\* and not by the bookkeeping the selection reads.
THEOREM RarestFirstCorrect ==
  ASSUME ~Churn, BitfieldFirst
  PROVE  Spec => RarestFirst
<1> DEFINE Step ==
      \A p \in Peers : \A i \in peer_active_work'[p] \ peer_active_work[p] :
        \A j \in Pieces : Eligible(p, j) =>
          Saturated(Cardinality(Holders(i))) <= Saturated(Cardinality(Holders(j)))
<1>1. TypeOK /\ RarityIndex /\ FrequencyExact /\ [Next]_vars => [Step]_vars
  BY RarestStep
<1>2. Spec => []FrequencyExact
  BY FrequencyCorrect
<1> QED BY <1>1, <1>2, TypeCorrect, RarityIndexCorrect, PTL DEF Spec, RarestFirst

\* What the manager needs of its peers to run for ever, though they leave and
\* return and the disk fails: they name no piece that does not exist, their
\* Bitfield comes before their first Have, and it is not too short.  Each of
\* the three is needed: the code checks none of them, and without it a single
\* message panics the actor (torrent_manager.rs, lines 84, 102, 104, 235).
THEOREM KeepsRunning ==
  ASSUME BitfieldFirst, MaxIndex < NumPieces, \A n \in FieldLens : n >= NumPieces
  PROVE  Spec => []ManagerKeepsRunning
<1>1. Init => ManagerKeepsRunning
  BY DEF Init, ManagerKeepsRunning
<1>2. TypeOK /\ ManagerKeepsRunning /\ [Next]_vars => ManagerKeepsRunning'
  <2> SUFFICES ASSUME TypeOK, alive, [Next]_vars PROVE alive'
    BY DEF ManagerKeepsRunning
  <2>0. Indices \subseteq Pieces
    BY ManagerAssumptions DEF Indices, Pieces
  <2>1. ASSUME NEW p \in Peers, NEW field \in BitVecs(FieldLens), AddBitFeild(p, field)
        PROVE  alive'
    <3>1. NewlyHeld(p, field.ones) \subseteq Pieces
      BY <2>0, SentIsBitVec, BitVecShape DEF NewlyHeld
    <3> QED BY <2>1, <3>1 DEF AddBitFeild
  <2>2. ASSUME NEW p \in Peers, NEW i \in Indices, UpdateBitField(p, i)
        PROVE  alive'
    <3>1. peer_bitfields[p].len > 0 /\ peer_bitfields[p].len \in {0} \cup FieldLens
      BY <2>2, BitVecShape DEF UpdateBitField, MaySendHave, TypeOK
    <3> DEFINE n == peer_bitfields[p].len
    <3>2. n \in Nat /\ n >= NumPieces
      <4> HIDE DEF n
      <4>1. n \in FieldLens
        <5>1. n > 0 /\ n \in {0} \cup FieldLens
          BY <3>1 DEF n
        <5> QED BY <5>1
      <4> QED BY <4>1, ManagerAssumptions
    <3>3. i \in Pieces /\ i < peer_bitfields[p].len
      BY <2>0, <3>2, ManagerAssumptions DEF Pieces
    <3>4. HaveInRange(p, i)
      BY <3>3 DEF HaveInRange, NewlyHeld
    <3> QED BY <2>2, <3>4 DEF UpdateBitField
  <2>3. ASSUME NEW i \in Pieces, NEW flushed \in BOOLEAN, FirstReport(i, flushed)
        PROVE  alive'
    BY <2>3 DEF FirstReport, CompletePiece
  <2>4. CASE UNCHANGED vars
    BY <2>4 DEF vars
  <2> QED
    BY <2>1, <2>2, <2>3, <2>4, FinishStep
    DEF Next, AddPeer, Disconnect, RequestWork, UpdateAndGetActiveRequestCount
<1> QED BY <1>1, <1>2, TypeCorrect, PTL DEF Spec
=============================================================================
