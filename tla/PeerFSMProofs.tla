---------------------------- MODULE PeerFSMProofs ----------------------------
(***************************************************************************)
(* Proofs about PeerFSM, for every number of pieces and blocks, all limits *)
(* and all behaviours of the peer and of other connections.                *)
(***************************************************************************)
EXTENDS PeerFSM, FiniteSetTheorems, TLAPS

\* A request that the writer may still send is not on the wire as often as
\* MaxSent allows: it comes from a piece actor that did not have it handed
\* out, and a block that is being sent does not expire.
Sendable ==
  /\ w.batch \cap m.missing \subseteq m.handed
  /\ \A q \in Requests :
       q \in w.batch \/ (q \in m.missing /\ q \notin m.handed) => remote.sent[q] < MaxSent

\* A change of what the full pass depends on has been seen, is about to be
\* seen, or has a permit or a reader that will give one.
Aware ==
  \/ w.pc \in {"start", "pass", "ended"}
  \/ w.seen_choked = state.peer_choking /\ w.seen_useful = state.has_useful_pieces
  \/ net.state_update
  \/ r.pc \in {"clear", "notify"}

LEMMA Initially == Init => TypeOK /\ Sendable /\ Aware
<1> SUFFICES ASSUME Init PROVE TypeOK /\ Sendable /\ Aware
  OBVIOUS
<1> USE PeerFSMAssumptions DEF Init
<1>1. state \in PeerStates /\ net \in NetworkStates /\ fsm \in {"running", "terminated"}
  BY DEF PeerStates, NetworkStates
<1>2. w \in WriterStates
  BY DEF WriterStates
<1>3. r \in ReaderStates /\ d \in WatchdogStates
  BY DEF ReaderStates, WatchdogStates
<1>4. m \in ManagerStates /\ remote \in RemoteStates
  BY DEF ManagerStates, RemoteStates
<1> QED
  BY <1>1, <1>2, <1>3, <1>4 DEF TypeOK, Sendable, Aware

\* The writer's steps keep the state's shape.
LEMMA TypeWriter ==
  ASSUME TypeOK, Sendable, Writer
  PROVE  TypeOK'
<1> USE PeerFSMAssumptions DEF TypeOK
<1>zero. 0 \in 0 .. MaxInflight
  OBVIOUS
<1>room. \A q \in w.batch : q \in Requests /\ remote.sent[q] < MaxSent
  BY DEF Sendable, WriterStates
<1>start. CASE SendBitfield
  BY <1>start
  DEF SendBitfield, WriterStates
<1>1. CASE Snapshot
  BY <1>1
  DEF Snapshot, PeerStates, WriterStates
<1>read. CASE ReadTracked
  BY <1>read
  DEF ReadTracked, NetworkStates, WriterStates
<1>2. CASE CheckSlots
  BY <1>2
  DEF CheckSlots, WriterStates
<1>3. CASE AskForPiece
  <2>1. ASSUME NEW i \in Assignable,
               m' = [m EXCEPT !.assigned = @ \cup {i}],
               w' = [w EXCEPT !.pc = "insert", !.got = {i}]
        PROVE  m' \in ManagerStates /\ w' \in WriterStates
    <3>1. i \in Pieces
      BY DEF Assignable, ManagerStates
    <3>2. m' \in ManagerStates
      BY <2>1, <3>1 DEF ManagerStates
    <3>3. w' \in WriterStates
      BY <2>1, <3>1 DEF WriterStates
    <3> QED
      BY <3>2, <3>3
  <2>2. [w EXCEPT !.pc = "window"] \in WriterStates
    BY DEF WriterStates
  <2> QED
    BY <1>3, <2>1, <2>2 DEF AskForPiece
<1>4. CASE Insert
  BY <1>4
  DEF Insert, NetworkStates, WriterStates
<1>5. CASE CountPiece
  <2>1. net' \in NetworkStates
    BY <1>5
    DEF CountPiece, NetworkStates
  <2>2. w' \in WriterStates
    BY <1>5
    DEF CountPiece, WriterStates
  <2> QED
    BY <1>5, <2>1, <2>2 DEF CountPiece
<1>6. CASE LoadWindow
  <2>1. [w EXCEPT !.pc = AfterPass] \in WriterStates
    BY DEF AfterPass, WriterStates
  <2>2. net.inflight < MaxInflight => WindowRoom \in 0 .. MaxInflight
    BY DEF WindowRoom, NetworkStates
  <2>3. net.inflight < MaxInflight =>
          [w EXCEPT !.pc = "tracked", !.room = WindowRoom] \in WriterStates
    BY <2>2 DEF WriterStates
  <2>4. net.inflight >= MaxInflight \/ net.inflight < MaxInflight
    BY DEF NetworkStates
  <2> QED
    BY <1>6, <2>1, <2>3, <2>4 DEF LoadWindow
<1>7. CASE TakeBlocks
  <2>1. ASSUME NEW i \in Pieces, NEW b \in Batches(i, w.room),
               w' = [w EXCEPT !.pc = "send", !.room = 0, !.candidates = {}, !.batch = b],
               m' = [m EXCEPT !.handed = @ \cup b]
        PROVE  m' \in ManagerStates /\ w' \in WriterStates
    <3>1. b \in SUBSET Requests
      BY DEF Batches, Requestable, ManagerStates
    <3>2. m' \in ManagerStates
      BY <2>1, <3>1 DEF ManagerStates
    <3>3. w' \in WriterStates
      BY <2>1, <3>1, <1>zero DEF WriterStates
    <3> QED
      BY <3>2, <3>3
  <2>2. [w EXCEPT !.pc = AfterPass, !.room = 0] \in WriterStates
    BY <1>zero DEF AfterPass, WriterStates
  <2>3. w.candidates \subseteq Pieces
    BY DEF WriterStates
  <2>4. \A i \in Pieces : [w EXCEPT !.candidates = @ \ {i}] \in WriterStates
    BY DEF WriterStates
  <2> QED
    BY <1>7, <2>1, <2>2, <2>3, <2>4 DEF TakeBlocks
<1>8. CASE SendRequest
  <2>1. PICK q \in w.batch :
          /\ remote' = [remote EXCEPT !.sent = SentPlus(q, 1)]
          /\ w' = [w EXCEPT !.pc = "sent", !.batch = @ \ {q}]
    BY <1>8 DEF SendRequest
  <2>2. q \in Requests /\ remote.sent[q] < MaxSent
    BY <1>room
  <2>3. SentPlus(q, 1) \in [Requests -> 0 .. MaxSent]
    BY <2>2 DEF SentPlus, RemoteStates
  <2>4. remote' \in RemoteStates
    BY <2>1, <2>3 DEF RemoteStates
  <2>5. w.batch \ {q} \in SUBSET Requests
    BY DEF WriterStates
  <2>6. w' \in WriterStates
    BY <2>1, <2>5 DEF WriterStates
  <2> QED
    BY <1>8, <2>4, <2>6 DEF SendRequest
<1>9. CASE CountRequest
  BY <1>9
  DEF CountRequest, NetworkStates, WriterStates
<1>10. CASE WakeOnState
  BY <1>10
  DEF WakeOnState, NetworkStates, WriterStates
<1>11. CASE WakeOnBlock
  BY <1>11
  DEF WakeOnBlock, NetworkStates, PeerStates, WriterStates
<1>12. CASE WakeOnTick
  BY <1>12
  DEF WakeOnTick, WriterStates
<1>13. CASE WriterEnds
  BY <1>13
  DEF WriterEnds, WriterStates
<1> QED
  BY <1>start, <1>1, <1>read, <1>2, <1>3, <1>4, <1>5, <1>6, <1>7, <1>8, <1>9, <1>10, <1>11, <1>12,
     <1>13
  DEF Writer, Pass

\* The reader's steps keep the state's shape.
LEMMA TypeReader ==
  ASSUME TypeOK, Receive \/ Handle
  PROVE  TypeOK'
<1> USE PeerFSMAssumptions DEF TypeOK
<1>hand. PieceInHand \subseteq Pieces
  BY DEF PieceInHand, Requests, ReaderStates
<1>1. CASE ReceiveChoke
  BY <1>1
  DEF ReceiveChoke, PeerStates, RemoteStates, ReaderStates
<1>2. CASE ReceiveUnchoke
  BY <1>2
  DEF ReceiveUnchoke, AfterUnchoke, PeerStates, RemoteStates, ReaderStates
<1>3. CASE ReceiveInterest
  BY <1>3
  DEF ReceiveInterest, ReaderStates
<1>4. ASSUME NEW i \in Pieces, ReceiveHave(i) PROVE TypeOK'
  BY <1>4
  DEF ReceiveHave, ManagerStates
<1>5. ASSUME NEW pieces \in SUBSET Pieces, ReceiveBitfield(pieces) PROVE TypeOK'
  BY <1>5
  DEF ReceiveBitfield, ManagerStates, ReaderStates
<1>6. ASSUME NEW q \in Requests, ReceivePiece(q) PROVE TypeOK'
  <2>1. remote' \in RemoteStates
    BY <1>6
    DEF ReceivePiece, Saturating, SentPlus, RemoteStates
  <2>2. net' \in NetworkStates
    BY <1>6
    DEF ReceivePiece, Saturating, SentPlus, NetworkStates
  <2>3. r' \in ReaderStates
    BY <1>6
    DEF ReceivePiece, Saturating, SentPlus, ReaderStates
  <2> QED
    BY <1>6, <2>1, <2>2, <2>3 DEF ReceivePiece
<1>7. CASE ReaderEnds
  BY <1>7
  DEF ReaderEnds, ReaderStates
<1>8. CASE ClearWindow
  BY <1>8
  DEF ClearWindow, NetworkStates, ReaderStates
<1>query. CASE AskUseful
  BY <1>query
  DEF AskUseful, ReaderStates
<1>9. CASE SetUseful
  BY <1>9
  DEF SetUseful, PeerStates, ReaderStates
<1>10. CASE NotifyState
  BY <1>10
  DEF NotifyState, NetworkStates, ReaderStates
<1>11. CASE LookUpTracked
  BY <1>11
  DEF LookUpTracked, ReaderStates
<1>12. CASE LookUpAtManager
  BY <1>12
  DEF LookUpAtManager, ReaderStates
<1>13. CASE Deliver
  BY <1>13
  DEF Deliver, ManagerStates, ReaderStates
<1>14. CASE NotifyBlock
  BY <1>14
  DEF NotifyBlock, NetworkStates, ReaderStates
<1>15. CASE FinishPiece
  BY <1>15, <1>hand
  DEF FinishPiece, ManagerStates, ReaderStates
<1>16. CASE RemoveFinished
  BY <1>16, <1>hand
  DEF RemoveFinished, NetworkStates, ReaderStates
<1>17. CASE FreeSlot
  BY <1>17
  DEF FreeSlot, Saturating, NetworkStates, ReaderStates
<1> QED
  BY <1>1, <1>2, <1>3, <1>4, <1>5, <1>6, <1>7, <1>8, <1>query, <1>9, <1>10, <1>11, <1>12,
     <1>13, <1>14, <1>15, <1>16, <1>17
  DEF Receive, Handle

\* So do those of the watchdog, the waiting task and the environment.
LEMMA TypeOthers ==
  ASSUME TypeOK, 
         \/ Query \/ StorePending \/ Prune \/ Terminate \/ Close
         \/ \E i \in Pieces : OtherFinishes(i)
         \/ \E q \in Requests : ExpireBlock(q) \/ DropRequest(q)
  PROVE  TypeOK'
<1> USE PeerFSMAssumptions DEF TypeOK
<1>size. Cardinality(d.list) \in Nat
  BY FS_Subset, FS_CardinalityType DEF WatchdogStates
<1>1. ASSUME NEW late \in SUBSET Pieces, QueryActive(late) PROVE TypeOK'
  BY <1>1
  DEF QueryActive, ManagerStates, WatchdogStates
<1>2. CASE StorePending
  BY <1>2, <1>size
  DEF StorePending, StillActive, NetworkStates, WatchdogStates
<1>3. CASE Prune
  BY <1>3
  DEF Prune, Retained, NetworkStates, WatchdogStates
<1>4. CASE Terminate
  BY <1>4
  DEF Terminate, WatchdogStates
<1>5. CASE Close
  BY <1>5
  DEF Close, RemoteStates
<1>6. ASSUME NEW i \in Pieces, OtherFinishes(i) PROVE TypeOK'
  BY <1>6
  DEF OtherFinishes, ManagerStates
<1>7. ASSUME NEW q \in Requests, ExpireBlock(q) PROVE TypeOK'
  BY <1>7
  DEF ExpireBlock, ManagerStates
<1>8. ASSUME NEW q \in Requests, DropRequest(q) PROVE TypeOK'
  <2>1. remote' \in RemoteStates
    BY <1>8
    DEF DropRequest, SentPlus, RemoteStates
  <2> QED
    BY <1>8, <2>1 DEF DropRequest
<1> QED
  BY <1>1, <1>2, <1>3, <1>4, <1>5, <1>6, <1>7, <1>8
  DEF Query

LEMMA TypeStep == TypeOK /\ Sendable /\ [Next]_vars => TypeOK'
<1>1. TypeOK /\ UNCHANGED vars => TypeOK'
  BY DEF vars, TypeOK
<1> QED
  BY <1>1, TypeReader, TypeWriter, TypeOthers DEF Next

\* Sendable speaks of four fields only.
LEMMA SendableFrame ==
  ASSUME Sendable, w'.batch = w.batch, m'.missing = m.missing, m'.handed = m.handed,
         remote'.sent = remote.sent
  PROVE  Sendable'
BY DEF Sendable

LEMMA SendableStep == TypeOK /\ Sendable /\ [Next]_vars => Sendable'
<1> SUFFICES ASSUME TypeOK, Sendable, [Next]_vars PROVE Sendable'
  OBVIOUS
<1>1. CASE TakeBlocks
  <2>1. CASE m' = m /\ w'.batch = w.batch /\ remote' = remote
    BY <2>1, SendableFrame
  <2>2. ASSUME NEW i \in Pieces, NEW b \in Batches(i, w.room),
               w' = [w EXCEPT !.pc = "send", !.room = 0, !.candidates = {}, !.batch = b],
               m' = [m EXCEPT !.handed = @ \cup b], remote' = remote
        PROVE  Sendable'
    <3>1. b \subseteq m.missing \ m.handed
      BY <2>2 DEF Batches, Requestable
    <3>2. w'.batch = b /\ m'.missing = m.missing /\ m'.handed = m.handed \cup b
      BY <2>2 DEF TypeOK, WriterStates, ManagerStates
    <3> QED
      BY <2>2, <3>1, <3>2 DEF Sendable
  <2>3. \A i \in w.candidates : i \in Pieces
    BY DEF TypeOK, WriterStates
  <2>4. w.pc = "blocks" /\ w' = [w EXCEPT !.pc = AfterPass, !.room = 0] => w'.batch = w.batch
    BY DEF TypeOK, WriterStates
  <2>5. \A i : [w EXCEPT !.candidates = @ \ {i}].batch = w.batch
    BY DEF TypeOK, WriterStates
  <2> QED
    BY <1>1, <2>1, <2>2, <2>3, <2>4, <2>5 DEF TakeBlocks
<1>2. CASE SendRequest
  <2>1. PICK q \in w.batch :
          /\ remote' = [remote EXCEPT !.sent = SentPlus(q, 1)]
          /\ w' = [w EXCEPT !.pc = "sent", !.batch = @ \ {q}]
    BY <1>2 DEF SendRequest
  <2>2. w'.batch = w.batch \ {q} /\ q \in Requests
    BY <2>1 DEF TypeOK, WriterStates
  <2>3. remote'.sent = [remote.sent EXCEPT ![q] = @ + 1]
    BY <2>1 DEF TypeOK, RemoteStates, SentPlus
  <2>4. remote.sent \in [Requests -> 0 .. MaxSent]
    BY DEF TypeOK, RemoteStates
  <2>5. m' = m
    BY <1>2 DEF SendRequest
  <2> QED
    BY <2>2, <2>3, <2>4, <2>5 DEF Sendable
<1>3. CASE Deliver
  <2>1. m'.missing = m.missing \ r.block /\ m'.handed = m.handed \ r.block
    BY <1>3 DEF Deliver, TypeOK, ManagerStates
  <2> QED
    BY <1>3, <2>1 DEF Deliver, Sendable
<1>4. ASSUME NEW q \in Requests, ReceivePiece(q) \/ DropRequest(q) PROVE Sendable'
  <2>1. remote'.sent = [remote.sent EXCEPT ![q] = @ + -1]
    BY <1>4 DEF ReceivePiece, DropRequest, SentPlus, TypeOK, RemoteStates
  <2>2. remote.sent \in [Requests -> 0 .. MaxSent] /\ w' = w /\ m' = m
    BY <1>4 DEF ReceivePiece, DropRequest, TypeOK, RemoteStates
  <2> QED
    BY <2>1, <2>2, PeerFSMAssumptions DEF Sendable
<1>5. ASSUME NEW i \in Pieces, OtherFinishes(i) PROVE Sendable'
  <2>1. m'.missing = m.missing \ BlocksOf(i) /\ m'.handed = m.handed \ BlocksOf(i)
    BY <1>5 DEF OtherFinishes, TypeOK, ManagerStates
  <2> QED
    BY <1>5, <2>1 DEF OtherFinishes, Sendable
<1>6. ASSUME NEW q \in Requests, ExpireBlock(q) PROVE Sendable'
  <2>1. m'.missing = m.missing /\ m'.handed = m.handed \ {q}
    BY <1>6 DEF ExpireBlock, TypeOK, ManagerStates
  <2> QED
    BY <1>6, <2>1 DEF ExpireBlock, Sendable
<1>7. CASE \/ SendBitfield \/ Snapshot \/ CheckSlots \/ Insert \/ CountPiece \/ LoadWindow \/ ReadTracked
           \/ CountRequest
           \/ WakeOnState \/ WakeOnBlock \/ WakeOnTick \/ WriterEnds
  <2>1. w'.batch = w.batch
    BY <1>7 DEF SendBitfield, Snapshot, CheckSlots, Insert, CountPiece, LoadWindow, ReadTracked,
         CountRequest,
         WakeOnState, WakeOnBlock, WakeOnTick, WriterEnds, TypeOK, WriterStates
  <2>2. m' = m /\ remote' = remote
    BY <1>7 DEF SendBitfield, Snapshot, CheckSlots, Insert, CountPiece, LoadWindow, ReadTracked,
         CountRequest,
         WakeOnState, WakeOnBlock, WakeOnTick, WriterEnds
  <2> QED
    BY <2>1, <2>2, SendableFrame
<1>8. CASE AskForPiece
  <2>1. w'.batch = w.batch /\ remote' = remote
    BY <1>8 DEF AskForPiece, TypeOK, WriterStates
  <2>2. m'.missing = m.missing /\ m'.handed = m.handed
    BY <1>8 DEF AskForPiece, TypeOK, ManagerStates
  <2> QED
    BY <2>1, <2>2, SendableFrame
<1>9. CASE \/ ReceiveChoke \/ ReceiveUnchoke \/ ReceiveInterest \/ ReaderEnds
           \/ \E i \in Pieces : ReceiveHave(i)
           \/ \E pieces \in SUBSET Pieces : ReceiveBitfield(pieces)
  <2>1. remote'.sent = remote.sent
    BY <1>9 DEF ReceiveChoke, ReceiveUnchoke, ReceiveInterest, ReaderEnds, ReceiveHave,
         ReceiveBitfield, TypeOK, RemoteStates
  <2>2. m'.missing = m.missing /\ m'.handed = m.handed
    BY <1>9 DEF ReceiveChoke, ReceiveUnchoke, ReceiveInterest, ReaderEnds, ReceiveHave,
         ReceiveBitfield, TypeOK, ManagerStates
  <2>3. w' = w
    BY <1>9 DEF ReceiveChoke, ReceiveUnchoke, ReceiveInterest, ReaderEnds, ReceiveHave,
         ReceiveBitfield
  <2> QED
    BY <2>1, <2>2, <2>3, SendableFrame
<1>10. CASE \/ ClearWindow \/ AskUseful \/ SetUseful \/ NotifyState \/ LookUpTracked \/ LookUpAtManager
            \/ NotifyBlock \/ FinishPiece \/ RemoveFinished \/ FreeSlot
  <2>1. m'.missing = m.missing /\ m'.handed = m.handed
    BY <1>10 DEF ClearWindow, AskUseful, SetUseful, NotifyState, LookUpTracked, LookUpAtManager,
         NotifyBlock, FinishPiece, RemoveFinished, FreeSlot, TypeOK, ManagerStates
  <2>2. w' = w /\ remote' = remote
    BY <1>10 DEF ClearWindow, AskUseful, SetUseful, NotifyState, LookUpTracked, LookUpAtManager,
         NotifyBlock, FinishPiece, RemoveFinished, FreeSlot
  <2> QED
    BY <2>1, <2>2, SendableFrame
<1>11. CASE Query \/ StorePending \/ Prune \/ Terminate \/ Close
  <2>1. remote'.sent = remote.sent
    BY <1>11 DEF Query, QueryActive, StorePending, Prune, Terminate, Close, TypeOK, RemoteStates
  <2>2. m'.missing = m.missing /\ m'.handed = m.handed
    BY <1>11 DEF Query, QueryActive, StorePending, Prune, Terminate, Close, TypeOK, ManagerStates
  <2>3. w' = w
    BY <1>11 DEF Query, QueryActive, StorePending, Prune, Terminate, Close
  <2> QED
    BY <2>1, <2>2, <2>3, SendableFrame
<1>12. CASE UNCHANGED vars
  BY <1>12, SendableFrame DEF vars
<1> QED
  BY <1>1, <1>2, <1>3, <1>4, <1>5, <1>6, <1>7, <1>8, <1>9, <1>10, <1>11, <1>12
  DEF Next, Writer, Pass, Receive, Handle

\* No step makes the writer unaware of a change without giving it a permit.
LEMMA AwareStep == TypeOK /\ Aware /\ [Next]_vars => Aware'
<1> SUFFICES ASSUME TypeOK, Aware, [Next]_vars PROVE Aware'
  OBVIOUS
<1> USE DEF TypeOK, Aware
<1>start. CASE SendBitfield
  BY <1>start DEF SendBitfield, WriterStates
<1>1. CASE Snapshot
  BY <1>1 DEF Snapshot, PeerStates, WriterStates
<1>2. CASE CheckSlots
  BY <1>2 DEF CheckSlots, WriterStates
<1>3. CASE AskForPiece
  BY <1>3 DEF AskForPiece, ManagerStates, WriterStates
<1>4. CASE Insert
  BY <1>4 DEF Insert, NetworkStates, WriterStates
<1>5. CASE CountPiece
  BY <1>5 DEF CountPiece, NetworkStates, WriterStates
<1>6. CASE LoadWindow
  BY <1>6 DEF LoadWindow, AfterPass, WriterStates
<1>read. CASE ReadTracked
  BY <1>read DEF ReadTracked, WriterStates
<1>7. CASE TakeBlocks
  <2>1. /\ w'.pc \in {"send", "blocks", AfterPass}
        /\ w'.seen_choked = w.seen_choked /\ w'.seen_useful = w.seen_useful
    BY <1>7 DEF TakeBlocks, WriterStates
  <2>2. UNCHANGED <<state, net, r>> /\ w.pc = "blocks"
    BY <1>7 DEF TakeBlocks
  <2> QED
    BY <2>1, <2>2 DEF AfterPass
<1>8. CASE SendRequest
  BY <1>8 DEF SendRequest, RemoteStates, WriterStates
<1>9. CASE CountRequest
  BY <1>9 DEF CountRequest, NetworkStates, WriterStates
<1>10. CASE WakeOnState
  BY <1>10 DEF WakeOnState, NetworkStates, WriterStates
<1>11. CASE WakeOnBlock
  BY <1>11 DEF WakeOnBlock, NetworkStates, PeerStates, WriterStates
<1>12. CASE WakeOnTick
  BY <1>12 DEF WakeOnTick, WriterStates
<1>13. CASE WriterEnds
  BY <1>13 DEF WriterEnds, WriterStates
<1>14. CASE ReceiveChoke
  BY <1>14 DEF ReceiveChoke, Listening, PeerStates, RemoteStates, ReaderStates
<1>15. CASE ReceiveUnchoke
  BY <1>15 DEF ReceiveUnchoke, AfterUnchoke, Listening, PeerStates, RemoteStates, ReaderStates
<1>16. CASE ReceiveInterest
  BY <1>16 DEF ReceiveInterest, Listening, ReaderStates
<1>17. ASSUME NEW i \in Pieces, ReceiveHave(i) PROVE Aware'
  BY <1>17 DEF ReceiveHave, Listening, ManagerStates
<1>18. ASSUME NEW pieces \in SUBSET Pieces, ReceiveBitfield(pieces) PROVE Aware'
  BY <1>18 DEF ReceiveBitfield, Listening, ManagerStates, ReaderStates
<1>19. ASSUME NEW q \in Requests, ReceivePiece(q) PROVE Aware'
  BY <1>19 DEF ReceivePiece, Listening, RemoteStates, NetworkStates, ReaderStates
<1>20. CASE ReaderEnds
  BY <1>20 DEF ReaderEnds, ReaderStates
<1>21. CASE ClearWindow
  BY <1>21 DEF ClearWindow, NetworkStates, ReaderStates
<1>query. CASE AskUseful
  BY <1>query DEF AskUseful, ReaderStates
<1>22. CASE SetUseful
  BY <1>22 DEF SetUseful, PeerStates, ReaderStates
<1>23. CASE NotifyState
  BY <1>23 DEF NotifyState, NetworkStates, ReaderStates
<1>24. CASE LookUpTracked
  BY <1>24 DEF LookUpTracked, ReaderStates
<1>25. CASE LookUpAtManager
  BY <1>25 DEF LookUpAtManager, ReaderStates
<1>26. CASE Deliver
  BY <1>26 DEF Deliver, ManagerStates, ReaderStates
<1>27. CASE NotifyBlock
  BY <1>27 DEF NotifyBlock, NetworkStates, ReaderStates
<1>28. CASE FinishPiece
  BY <1>28 DEF FinishPiece, ManagerStates, ReaderStates
<1>29. CASE RemoveFinished
  BY <1>29 DEF RemoveFinished, NetworkStates, ReaderStates
<1>30. CASE FreeSlot
  BY <1>30 DEF FreeSlot, NetworkStates, ReaderStates
<1>31. ASSUME NEW late \in SUBSET Pieces, QueryActive(late) PROVE Aware'
  BY <1>31 DEF QueryActive, ManagerStates, WatchdogStates
<1>32. CASE StorePending
  BY <1>32 DEF StorePending, NetworkStates, WatchdogStates
<1>33. CASE Prune
  BY <1>33 DEF Prune, NetworkStates, WatchdogStates
<1>34. CASE Terminate
  BY <1>34 DEF Terminate, WatchdogStates
<1>35. CASE Close
  BY <1>35 DEF Close, RemoteStates
<1>36. ASSUME NEW i \in Pieces, OtherFinishes(i) PROVE Aware'
  BY <1>36 DEF OtherFinishes, ManagerStates
<1>37. ASSUME NEW q \in Requests, ExpireBlock(q) PROVE Aware'
  BY <1>37 DEF ExpireBlock, ManagerStates
<1>38. ASSUME NEW q \in Requests, DropRequest(q) PROVE Aware'
  BY <1>38 DEF DropRequest, RemoteStates
<1>39. CASE UNCHANGED vars
  BY <1>39 DEF vars
<1> QED
  BY <1>1, <1>2, <1>3, <1>4, <1>5, <1>6, <1>7, <1>8, <1>9, <1>10, <1>11, <1>12, <1>13,
     <1>14, <1>15, <1>16, <1>17, <1>18, <1>19, <1>20, <1>21, <1>22, <1>23, <1>24,
     <1>25, <1>26, <1>27, <1>28, <1>29, <1>30, <1>31, <1>32, <1>33, <1>34, <1>35,
     <1>36, <1>37, <1>38, <1>39, <1>start, <1>read, <1>query
  DEF Next, Writer, Pass, Receive, Handle, Query

LEMMA Inductive == Spec => [](TypeOK /\ Sendable /\ Aware)
BY Initially, TypeStep, SendableStep, AwareStep, PTL DEF Spec

\* The connection's shared state and the locals of its tasks keep their
\* shape; in particular the counters never underflow (lines 339-342, 359).
THEOREM TypeCorrect == Spec => []TypeOK
BY Inductive, PTL

\* No choke, unchoke or bitfield is missed by a writer that waits (lines
\* 224-264 and 303-332), however passes and messages interleave.
THEOREM NoLostWakeupCorrect == Spec => []NoLostWakeup
<1>1. Aware => NoLostWakeup
  BY DEF Aware, NoLostWakeup
<1> QED
  BY <1>1, Inductive, PTL
----------------------------------------------------------------------------
(* The window, if the peer never chokes us again                           *)

\* A request between being sent and being counted.
Uncounted == IF w.pc = "sent" THEN 1 ELSE 0

\* What the writer is about to send fits the window it has loaded.
Fits ==
  /\ net.inflight <= MaxInflight
  /\ w.pc \in {"tracked", "blocks"} => net.inflight + w.room <= MaxInflight
  /\ w.pc \in {"send", "sent"} =>
       net.inflight + Uncounted + Cardinality(w.batch) <= MaxInflight

\* Nothing is sent before the peer's one Unchoke, so that it discards nothing.
Unchoked ==
  /\ r.pc # "clear"
  /\ remote.choking => state.peer_choking /\ w.choked /\ \A q \in Requests : remote.sent[q] = 0
  /\ w.pc \in {"tracked", "blocks", "send", "sent"} => ~w.choked

\* The counter and the wire differ by the request not counted yet, and by
\* one that was answered before it was counted.
Balance ==
  /\ Outstanding <= net.inflight + Uncounted
  /\ net.inflight + Uncounted <= Outstanding + 1

Window == Fits /\ Unchoked /\ Balance

LEMMA RequestsFinite == IsFiniteSet(Requests)
BY PeerFSMAssumptions, FS_Product DEF Requests

LEMMA UnansweredFinite == IsFiniteSet(Unanswered) /\ Outstanding \in Nat
<1>1. IsFiniteSet(1 .. MaxSent)
  BY PeerFSMAssumptions, FS_Interval
<1>2. IsFiniteSet(Requests \X (1 .. MaxSent))
  BY <1>1, RequestsFinite, FS_Product
<1> QED
  BY <1>2, FS_Subset, FS_CardinalityType DEF Unanswered, Outstanding

LEMMA OneCopyMore ==
  ASSUME TypeOK, NEW q \in Requests, remote.sent[q] < MaxSent,
         remote'.sent = [remote.sent EXCEPT ![q] = @ + 1]
  PROVE  Outstanding' = Outstanding + 1
<1> DEFINE copy == <<q, remote.sent[q] + 1>>
<1>1. remote.sent \in [Requests -> 0 .. MaxSent] /\ MaxSent \in Nat
  BY PeerFSMAssumptions DEF TypeOK, RemoteStates
<1>2. \A p \in Requests : remote'.sent[p] = IF p = q THEN remote.sent[p] + 1 ELSE remote.sent[p]
  BY <1>1
<1>3. copy \notin Unanswered
  BY <1>1 DEF Unanswered
<1>4. Unanswered' = Unanswered \cup {copy}
  BY <1>1, <1>2 DEF Unanswered
<1> QED
  BY <1>3, <1>4, UnansweredFinite, FS_AddElement DEF Outstanding

LEMMA OneCopyLess ==
  ASSUME TypeOK, NEW q \in Requests, remote.sent[q] > 0,
         remote'.sent = [remote.sent EXCEPT ![q] = @ - 1]
  PROVE  Outstanding' = Outstanding - 1 /\ Outstanding' \in Nat
<1> DEFINE copy == <<q, remote.sent[q]>>
<1>1. remote.sent \in [Requests -> 0 .. MaxSent] /\ MaxSent \in Nat
  BY PeerFSMAssumptions DEF TypeOK, RemoteStates
<1>2. \A p \in Requests : remote'.sent[p] = IF p = q THEN remote.sent[p] - 1 ELSE remote.sent[p]
  BY <1>1
<1>3. copy \in Unanswered
  BY <1>1 DEF Unanswered
<1>4. Unanswered' = Unanswered \ {copy}
  BY <1>1, <1>2 DEF Unanswered
<1> QED
  BY <1>3, <1>4, UnansweredFinite, FS_RemoveElement, FS_CardinalityType DEF Outstanding

LEMMA BatchFinite == TypeOK => IsFiniteSet(w.batch) /\ Cardinality(w.batch) \in Nat
BY RequestsFinite, FS_Subset, FS_CardinalityType DEF TypeOK, WriterStates

LEMMA NothingSent ==
  ASSUME TypeOK, \A q \in Requests : remote.sent[q] = 0
  PROVE  Outstanding = 0
<1>1. Unanswered = {}
  BY DEF Unanswered, TypeOK, RemoteStates
<1> QED
  BY <1>1, FS_EmptySet DEF Outstanding

LEMMA WindowInit == Init => Window
<1> SUFFICES ASSUME Init PROVE Window
  OBVIOUS
<1>1. Outstanding = 0
  BY Initially, NothingSent DEF Init
<1> QED
  BY <1>1, PeerFSMAssumptions DEF Init, Window, Fits, Unchoked, Balance, Uncounted

\* A step that leaves the wire and the counter alone, and takes the writer
\* nowhere near a request, keeps the window.
LEMMA WindowFrame ==
  ASSUME TypeOK, Window, r'.pc # "clear",
         remote'.sent = remote.sent, remote'.choking = remote.choking,
         net'.inflight = net.inflight,
         state'.peer_choking = state.peer_choking,
         \/ /\ w'.pc = w.pc /\ w'.choked = w.choked
            /\ w'.room = w.room /\ w'.batch = w.batch
         \/ /\ w.pc # "sent"
            /\ w'.pc \notin {"tracked", "blocks", "send", "sent"}
            /\ w'.choked \in {w.choked, state.peer_choking}
  PROVE  Window'
<1>1. Outstanding' = Outstanding
  BY DEF Outstanding, Unanswered
<1> QED
  BY <1>1 DEF Window, Fits, Unchoked, Balance, Uncounted

LEMMA WindowStep ==
  ASSUME ~Chokes
  PROVE  TypeOK /\ TypeOK' /\ Sendable /\ Window /\ [Next]_vars => Window'
<1> SUFFICES ASSUME TypeOK, TypeOK', Sendable, Window, [Next]_vars PROVE Window'
  OBVIOUS
<1> USE PeerFSMAssumptions
<1>0. /\ Outstanding \in Nat /\ Cardinality(w.batch) \in Nat /\ IsFiniteSet(w.batch)
      /\ net.inflight \in Nat /\ w.room \in 0 .. MaxInflight
      /\ net \in NetworkStates /\ w \in WriterStates /\ r \in ReaderStates
      /\ state \in PeerStates /\ remote \in RemoteStates
  BY UnansweredFinite, BatchFinite DEF TypeOK, NetworkStates, WriterStates
<1>1. CASE Snapshot \/ CheckSlots \/ AskForPiece \/ Insert \/ CountPiece
  <2>1. /\ w.pc # "sent" /\ w'.pc \in {"slots", "ask", "window", "insert", "count"}
        /\ w'.choked \in {w.choked, state.peer_choking}
    BY <1>0, <1>1 DEF Snapshot, CheckSlots, AskForPiece, Insert, CountPiece, WriterStates
  <2>2. /\ remote' = remote /\ r' = r /\ net'.inflight = net.inflight
        /\ state'.peer_choking = state.peer_choking
    BY <1>0, <1>1 DEF Snapshot, CheckSlots, AskForPiece, Insert, CountPiece,
                      NetworkStates, PeerStates
  <2> QED
    BY <2>1, <2>2, WindowFrame DEF Window, Unchoked
<1>2. CASE LoadWindow
  <2>1. CASE w.choked \/ net.inflight >= MaxInflight
    <3>1. w.pc # "sent" /\ w'.pc \in {"pass", "select"} /\ w'.choked = w.choked
      BY <1>0, <1>2, <2>1 DEF LoadWindow, AfterPass, WriterStates
    <3> QED
      BY <3>1, <1>2, WindowFrame DEF LoadWindow, Window, Unchoked
  <2>2. CASE ~(w.choked \/ net.inflight >= MaxInflight)
    <3>1. /\ w.pc = "window" /\ w'.pc = "tracked" /\ w'.choked = w.choked /\ ~w.choked
          /\ w'.room = MaxInflight - net.inflight
      BY <1>0, <1>2, <2>2 DEF LoadWindow, WindowRoom, WriterStates
    <3>2. UNCHANGED <<state, net, r, remote>> /\ Outstanding' = Outstanding
      BY <1>2 DEF LoadWindow, Outstanding, Unanswered
    <3> QED
      BY <1>0, <3>1, <3>2 DEF Window, Fits, Unchoked, Balance, Uncounted
  <2> QED
    BY <2>1, <2>2
<1>3. CASE ReadTracked
  <2>1. /\ w.pc = "tracked" /\ w'.pc = "blocks" /\ w'.choked = w.choked /\ w'.room = w.room
    BY <1>0, <1>3 DEF ReadTracked, WriterStates
  <2>2. UNCHANGED <<state, net, r, remote>> /\ Outstanding' = Outstanding
    BY <1>3 DEF ReadTracked, Outstanding, Unanswered
  <2> QED
    BY <1>0, <2>1, <2>2 DEF Window, Fits, Unchoked, Balance, Uncounted
<1>4. CASE TakeBlocks
  <2>1. UNCHANGED <<state, net, r, remote>> /\ Outstanding' = Outstanding /\ w.pc = "blocks"
    BY <1>4 DEF TakeBlocks, Outstanding, Unanswered
  <2>2. ASSUME NEW i \in w.candidates, NEW b \in Batches(i, w.room) \ {{}},
               w' = [w EXCEPT !.pc = "send", !.room = 0, !.candidates = {}, !.batch = b]
        PROVE  Window'
    <3>1. w'.pc = "send" /\ w'.choked = w.choked /\ w'.batch = b
      BY <1>0, <2>2 DEF WriterStates
    <3>2. Cardinality(b) \in Nat /\ Cardinality(b) <= w.room
      <4>1. Cardinality(b) = w.room \/ Cardinality(b) < w.room
        BY <2>2 DEF Batches
      <4>2. w'.batch \subseteq Requests
        BY DEF TypeOK, WriterStates
      <4>3. Cardinality(b) \in Nat
        BY <3>1, <4>2, RequestsFinite, FS_Subset, FS_CardinalityType
      <4> QED
        BY <1>0, <4>1, <4>3
    <3> QED
      BY <1>0, <2>1, <3>1, <3>2 DEF Window, Fits, Unchoked, Balance, Uncounted
  <2>3. ASSUME NEW i \in w.candidates, w' = [w EXCEPT !.candidates = @ \ {i}]
        PROVE  Window'
    BY <1>0, <2>1, <2>3, WindowFrame DEF Window, Unchoked, WriterStates
  <2>4. ASSUME w' = [w EXCEPT !.pc = AfterPass, !.room = 0] PROVE Window'
    <3>1. w'.pc \in {"pass", "select"} /\ w'.choked = w.choked
      BY <1>0, <2>4 DEF AfterPass, WriterStates
    <3> QED
      BY <2>1, <3>1, WindowFrame DEF Window, Unchoked
  <2> QED
    BY <1>4, <2>2, <2>3, <2>4 DEF TakeBlocks
<1>5. CASE SendRequest
  <2>1. PICK q \in w.batch :
          /\ remote' = [remote EXCEPT !.sent = SentPlus(q, 1)]
          /\ w' = [w EXCEPT !.pc = "sent", !.batch = @ \ {q}]
    BY <1>5 DEF SendRequest
  <2>2. q \in Requests /\ remote.sent[q] < MaxSent
    BY <1>0, <2>1 DEF Sendable, WriterStates
  <2>3. Outstanding' = Outstanding + 1
    BY <1>0, <2>1, <2>2, OneCopyMore DEF SentPlus, RemoteStates
  <2>4. /\ w.pc = "send" /\ w'.pc = "sent" /\ w'.choked = w.choked
        /\ w'.batch = w.batch \ {q} /\ remote'.choking = remote.choking
    BY <1>0, <1>5, <2>1 DEF SendRequest, WriterStates, RemoteStates
  <2>5. Cardinality(w.batch \ {q}) = Cardinality(w.batch) - 1
    BY <1>0, <2>1, FS_RemoveElement
  <2>6. UNCHANGED <<state, net, r>>
    BY <1>5 DEF SendRequest
  <2>7. ~remote.choking
    BY <2>4 DEF Window, Unchoked
  <2> QED
    BY <1>0, <2>3, <2>4, <2>5, <2>6, <2>7 DEF Window, Fits, Unchoked, Balance, Uncounted
<1>6. CASE CountRequest
  <2>1. /\ w.pc = "sent" /\ w'.pc \in {"send", "pass", "window"} /\ w'.choked = w.choked
        /\ w'.batch = w.batch /\ net'.inflight = net.inflight + 1
    BY <1>0, <1>6 DEF CountRequest, WriterStates, NetworkStates
  <2>2. UNCHANGED <<state, r, remote>> /\ Outstanding' = Outstanding
    BY <1>6 DEF CountRequest, Outstanding, Unanswered
  <2> QED
    BY <1>0, <2>1, <2>2 DEF Window, Fits, Unchoked, Balance, Uncounted
<1>7. CASE SendBitfield \/ WakeOnState \/ WakeOnBlock \/ WakeOnTick \/ WriterEnds
  <2>1. /\ w.pc # "sent" /\ w'.pc \in {"pass", "window", "ended"}
        /\ w'.choked \in {w.choked, state.peer_choking}
    BY <1>0, <1>7 DEF SendBitfield, WakeOnState, WakeOnBlock, WakeOnTick, WriterEnds, WriterStates
  <2>2. UNCHANGED <<state, r, remote>> /\ net'.inflight = net.inflight
    BY <1>0, <1>7 DEF SendBitfield, WakeOnState, WakeOnBlock, WakeOnTick, WriterEnds, NetworkStates
  <2> QED
    BY <2>1, <2>2, WindowFrame DEF Window, Unchoked
<1>8. CASE ReceiveUnchoke
  <2>1. /\ ~remote'.choking /\ remote'.sent = remote.sent /\ r'.pc # "clear"
        /\ UNCHANGED <<net, w>>
    BY <1>0, <1>8 DEF ReceiveUnchoke, AfterUnchoke, RemoteStates, ReaderStates
  <2>2. Outstanding' = Outstanding
    BY <2>1 DEF Outstanding, Unanswered
  <2> QED
    BY <2>1, <2>2 DEF Window, Fits, Unchoked, Balance, Uncounted
<1>9. ASSUME NEW q \in Requests, ReceivePiece(q) PROVE Window'
  <2>1. Outstanding' = Outstanding - 1 /\ Outstanding' \in Nat
    BY <1>0, <1>9, OneCopyLess DEF ReceivePiece, SentPlus, RemoteStates
  <2>2. /\ net'.inflight = Saturating(net.inflight) /\ r'.pc # "clear"
        /\ remote'.choking = remote.choking /\ UNCHANGED <<state, w>>
    BY <1>0, <1>9 DEF ReceivePiece, RemoteStates, NetworkStates, ReaderStates
  <2>3. ~remote.choking
    BY <1>9 DEF ReceivePiece, Window, Unchoked
  <2> QED
    BY <1>0, <2>1, <2>2, <2>3
    DEF Window, Fits, Unchoked, Balance, Uncounted, Saturating
<1>10. ASSUME NEW q \in Requests PROVE ~DropRequest(q)
  BY <1>0 DEF DropRequest, Window, Unchoked, RemoteStates
<1>11. CASE ReceiveChoke \/ ClearWindow
  BY <1>11 DEF ReceiveChoke, ClearWindow, Window, Unchoked
<1>12. CASE \/ ReceiveInterest \/ ReaderEnds
            \/ \E i \in Pieces : ReceiveHave(i)
            \/ \E pieces \in SUBSET Pieces : ReceiveBitfield(pieces)
  <2>1. UNCHANGED <<state, net, w, remote>> /\ r'.pc # "clear"
    BY <1>0, <1>12 DEF ReceiveInterest, ReaderEnds, ReceiveHave, ReceiveBitfield,
                       Window, Unchoked, ReaderStates
  <2> QED
    BY <2>1, WindowFrame
<1>13. CASE \/ AskUseful \/ SetUseful \/ NotifyState \/ LookUpTracked \/ LookUpAtManager \/ Deliver
            \/ NotifyBlock \/ FinishPiece \/ RemoveFinished \/ FreeSlot
  <2>1. UNCHANGED <<w, remote>> /\ r'.pc # "clear"
    BY <1>0, <1>13 DEF AskUseful, SetUseful, NotifyState, LookUpTracked, LookUpAtManager, Deliver,
                       NotifyBlock, FinishPiece, RemoveFinished, FreeSlot, ReaderStates
  <2>2. net'.inflight = net.inflight /\ state'.peer_choking = state.peer_choking
    BY <1>0, <1>13 DEF AskUseful, SetUseful, NotifyState, LookUpTracked, LookUpAtManager, Deliver,
                       NotifyBlock, FinishPiece, RemoveFinished, FreeSlot,
                       NetworkStates, PeerStates
  <2> QED
    BY <2>1, <2>2, WindowFrame
<1>14. CASE \/ Query \/ StorePending \/ Prune \/ Terminate \/ Close
            \/ \E i \in Pieces : OtherFinishes(i)
            \/ \E q \in Requests : ExpireBlock(q)
  <2>1. UNCHANGED <<state, w, r>> /\ net'.inflight = net.inflight
    BY <1>0, <1>14 DEF Query, QueryActive, StorePending, Prune, Terminate, Close,
                       OtherFinishes, ExpireBlock, NetworkStates
  <2>2. remote'.sent = remote.sent /\ remote'.choking = remote.choking
    BY <1>0, <1>14 DEF Query, QueryActive, StorePending, Prune, Terminate, Close,
                       OtherFinishes, ExpireBlock, RemoteStates
  <2> QED
    BY <2>1, <2>2, WindowFrame DEF Window, Unchoked
<1>15. CASE UNCHANGED vars
  BY <1>15, WindowFrame DEF vars, Window, Unchoked
<1> QED
  BY <1>1, <1>2, <1>3, <1>4, <1>5, <1>6, <1>7, <1>8, <1>9, <1>10, <1>11, <1>12, <1>13,
     <1>14, <1>15
  DEF Next, Writer, Pass, Receive, Handle

LEMMA WindowCorrect ==
  ASSUME ~Chokes
  PROVE  Spec => []Window
BY WindowInit, WindowStep, Inductive, PTL DEF Spec

\* A peer that never chokes us again never has more unanswered requests than
\* the window allows, however its answers fall between the sending and the
\* counting of requests (lines 38-43, 72-74, 338-341).
THEOREM WindowRespectedCorrect ==
  ASSUME ~Chokes
  PROVE  Spec => []WindowRespected
<1>1. TypeOK /\ Window => WindowRespected
  <2> SUFFICES ASSUME TypeOK, Window PROVE WindowRespected
    OBVIOUS
  <2>1. /\ Outstanding \in Nat /\ Cardinality(w.batch) \in Nat
        /\ net.inflight \in Nat /\ MaxInflight \in Nat
    BY UnansweredFinite, BatchFinite, PeerFSMAssumptions DEF TypeOK, NetworkStates
  <2> QED
    BY <2>1 DEF Window, Fits, Balance, Uncounted, WindowRespected
<1> QED
  BY <1>1, WindowCorrect, Inductive, PTL

\* Such a peer costs at most one slot of the window for ever, however often
\* its answers overtake the counting (lines 72-74, 341).
THEOREM LeakBoundedCorrect ==
  ASSUME ~Chokes
  PROVE  Spec => []LeakBounded
<1>1. TypeOK /\ Window => LeakBounded
  <2> SUFFICES ASSUME TypeOK, Window PROVE LeakBounded
    OBVIOUS
  <2>1. Outstanding \in Nat /\ net.inflight \in Nat
    BY UnansweredFinite DEF TypeOK, NetworkStates
  <2> QED
    BY <2>1 DEF Window, Balance, Uncounted, LeakBounded
<1> QED
  BY <1>1, WindowCorrect, Inductive, PTL

----------------------------------------------------------------------------
(* The manager as ManagerView has it                                       *)

\* The reader has one block in hand, and no complete piece is assigned.
Orderly ==
  /\ r.block = {} \/ \E q \in Requests : r.block = {q}
  /\ View!NoFinishedWork

\* The steps that change m, and those that take a block in hand.
TouchesManager ==
  \/ AskForPiece \/ TakeBlocks \/ Deliver \/ FinishPiece \/ Query
  \/ \E i \in Pieces : ReceiveHave(i) \/ OtherFinishes(i)
  \/ \E pieces \in SUBSET Pieces : ReceiveBitfield(pieces)
  \/ \E q \in Requests : ExpireBlock(q)

LEMMA OthersKeepManager == [Next]_vars => TouchesManager \/ UNCHANGED m
BY DEF Next, Writer, Pass, Handle, Receive, TouchesManager, vars,
       SendBitfield, Snapshot, CheckSlots, Insert, CountPiece, LoadWindow, ReadTracked, SendRequest,
       CountRequest, WakeOnState, WakeOnBlock, WakeOnTick, WriterEnds,
       ReceiveChoke, ClearWindow, ReceiveUnchoke, ReceiveInterest, AskUseful, SetUseful,
       NotifyState,
       ReceivePiece, LookUpTracked, LookUpAtManager, NotifyBlock, RemoveFinished, FreeSlot,
       ReaderEnds, StorePending, Prune, Terminate, Close, DropRequest

\* The reader takes one block in hand at a time.
LEMMA BlockStep ==
  ASSUME TypeOK, [Next]_vars
  PROVE  \/ r'.block \in {r.block, {}}
         \/ \E q \in Requests : r'.block = {q}
<1> USE DEF TypeOK, ReaderStates
<1>1. CASE r' = r
  BY <1>1
<1>2. CASE Handle
  BY <1>2 DEF Handle, ClearWindow, AskUseful, SetUseful, NotifyState, LookUpTracked, LookUpAtManager,
              Deliver, NotifyBlock, FinishPiece, RemoveFinished, FreeSlot
<1>3. CASE ReceiveChoke \/ ReceiveUnchoke \/ ReceiveInterest \/ ReaderEnds
  BY <1>3 DEF ReceiveChoke, ReceiveUnchoke, ReceiveInterest, ReaderEnds
<1>4. CASE \E pieces \in SUBSET Pieces : ReceiveBitfield(pieces)
  BY <1>4 DEF ReceiveBitfield
<1>5. CASE \E q \in Requests : ReceivePiece(q)
  BY <1>5 DEF ReceivePiece
<1>6. [Next]_vars => \/ Handle \/ ReceiveChoke \/ ReceiveUnchoke \/ ReceiveInterest \/ ReaderEnds
                     \/ \E pieces \in SUBSET Pieces : ReceiveBitfield(pieces)
                     \/ \E q \in Requests : ReceivePiece(q)
                     \/ r' = r
  BY DEF Next, Writer, Pass, Receive, vars,
         SendBitfield, Snapshot, CheckSlots, AskForPiece, Insert, CountPiece, LoadWindow, ReadTracked,
         TakeBlocks, SendRequest, CountRequest, WakeOnState, WakeOnBlock, WakeOnTick,
         WriterEnds, ReceiveHave, Query, QueryActive, StorePending, Prune, Terminate, Close,
         OtherFinishes, ExpireBlock, DropRequest
<1> QED
  BY <1>1, <1>2, <1>3, <1>4, <1>5, <1>6

\* A step of the connection is one of the view, and leaves no complete piece
\* assigned.
LEMMA ViewStep ==
  ASSUME TypeOK, Orderly, [Next]_vars
  PROVE  [View!Next]_(View!vars) /\ View!NoFinishedWork'
<1> USE DEF View!NoFinishedWork
<1>1. m.assigned \cap m.done = {} /\ m \in ManagerStates
  BY DEF Orderly, TypeOK
<1> USE DEF ManagerStates
<1>2. CASE UNCHANGED m
  BY <1>1, <1>2 DEF View!vars
<1>3. CASE AskForPiece
  <2>1. ASSUME NEW i \in Assignable, m' = [m EXCEPT !.assigned = @ \cup {i}]
        PROVE  [View!Next]_(View!vars) /\ View!NoFinishedWork'
    <3>1. i \in Pieces /\ i \in m.announced \ (m.done \cup m.assigned)
      BY <1>1, <2>1 DEF Assignable
    <3>2. View!Assign(i)
      BY <1>1, <2>1, <3>1 DEF View!Assign
    <3> QED BY <1>1, <2>1, <3>1, <3>2 DEF View!Next
  <2> QED BY <1>2, <1>3, <2>1 DEF AskForPiece
<1>4. ASSUME m'.assigned = m.assigned, m'.done = m.done,
             m'.announced = m.announced, m'.greeted = m.greeted
      PROVE  [View!Next]_(View!vars) /\ View!NoFinishedWork'
  BY <1>1, <1>4 DEF View!vars
<1>5. CASE TakeBlocks \/ Deliver \/ \E q \in Requests : ExpireBlock(q)
  BY <1>1, <1>4, <1>5 DEF TakeBlocks, Deliver, ExpireBlock
<1>6. ASSUME NEW i \in Pieces, i \notin m.done,
             m'.assigned = m.assigned \ {i}, m'.done = m.done \cup {i},
             m'.announced = m.announced, m'.greeted = m.greeted
      PROVE  [View!Next]_(View!vars) /\ View!NoFinishedWork'
  <2>1. View!Complete(i)
    BY <1>6 DEF View!Complete
  <2> QED BY <1>1, <1>6, <2>1 DEF View!Next
<1>7. CASE FinishPiece
  <2>1. /\ m'.assigned = m.assigned \ PieceInHand /\ m'.done = m.done \cup PieceInHand
        /\ m'.announced = m.announced /\ m'.greeted = m.greeted
    BY <1>1, <1>7 DEF FinishPiece
  <2>2. PieceInHand = {} \/ \E i \in Pieces : PieceInHand = {i}
    BY DEF Orderly, PieceInHand, Requests
  <2>3. CASE PieceInHand \subseteq m.done
    BY <1>1, <1>4, <2>1, <2>3
  <2>4. CASE \E i \in Pieces : PieceInHand = {i} /\ i \notin m.done
    BY <1>6, <2>1, <2>4
  <2> QED BY <2>2, <2>3, <2>4
<1>8. CASE \E i \in Pieces : OtherFinishes(i)
  <2>1. PICK i \in Pieces : OtherFinishes(i)
    BY <1>8
  <2> QED BY <1>1, <1>6, <2>1 DEF OtherFinishes
<1>9. CASE \E i \in Pieces : ReceiveHave(i)
  <2>1. PICK i \in Pieces : ReceiveHave(i)
    BY <1>9
  <2>2. View!Announce(i)
    BY <1>1, <2>1 DEF ReceiveHave, View!Announce
  <2> QED BY <1>1, <2>2 DEF View!Next, View!Announce
<1>10. CASE \E pieces \in SUBSET Pieces : ReceiveBitfield(pieces)
  <2>1. PICK pieces \in SUBSET Pieces : ReceiveBitfield(pieces)
    BY <1>10
  <2>2. View!Greet(pieces)
    BY <1>1, <2>1 DEF ReceiveBitfield, View!Greet
  <2> QED BY <1>1, <2>2 DEF View!Next, View!Greet
<1>11. CASE Query
  <2>1. PICK late \in SUBSET Pieces : QueryActive(late)
    BY <1>11 DEF Query
  <2>2. View!Release(late)
    BY <1>1, <2>1 DEF QueryActive, View!Release
  <2> QED BY <1>1, <2>2 DEF View!Next, View!Release
<1> QED
  BY <1>2, <1>3, <1>5, <1>7, <1>8, <1>9, <1>10, <1>11, OthersKeepManager DEF TouchesManager

\* The connection sees no step of the manager but those of ManagerView, which
\* TorrentManager implements for every peer: in particular a piece that
\* several readers report is taken from the peer once, and never assigned
\* again (lines 145-150, 196-215, 316-331 and 352-372).
THEOREM SeesTheManager == Spec => ViewSpec
<1>1. Init => View!Init /\ Orderly
  BY DEF Init, View!Init, Orderly, View!NoFinishedWork
<1>2. TypeOK /\ Orderly /\ [Next]_vars => [View!Next]_(View!vars) /\ Orderly'
  BY ViewStep, BlockStep DEF Orderly
<1> QED
  BY <1>1, <1>2, TypeCorrect, PTL DEF Spec, ViewSpec, View!Spec

----------------------------------------------------------------------------
(* The piece actors as PieceView has them                                  *)

\* What piece i sees when blocks come, and when attempts time out.
LEMMA BlocksCome ==
  ASSUME NEW i \in Pieces, NEW came \in SUBSET Requests,
         m'.missing = m.missing \ came, m'.handed = m.handed \ came
  PROVE  [Piece(i)!Next]_(Piece(i)!vars)
<1> DEFINE Here(set) == {b \in Blocks : <<i, b>> \in set}
<1>1. /\ Here(m'.missing) = Here(m.missing) \ Here(came)
      /\ Here(m'.handed) = Here(m.handed) \ Here(came)
  OBVIOUS
<1>2. Piece(i)!Arrive(Here(came))
  BY <1>1 DEF Piece!Arrive
<1> QED BY <1>2 DEF Piece!Next

LEMMA AttemptsEnd ==
  ASSUME NEW i \in Pieces, NEW late \in SUBSET Requests,
         m'.missing = m.missing, m'.handed = m.handed \ late
  PROVE  [Piece(i)!Next]_(Piece(i)!vars)
<1> DEFINE Here(set) == {b \in Blocks : <<i, b>> \in set}
<1>1. Here(m'.handed) = Here(m.handed) \ Here(late)
  OBVIOUS
<1>2. Piece(i)!Expire(Here(late))
  BY <1>1 DEF Piece!Expire
<1> QED BY <1>2 DEF Piece!Next

LEMMA PieceStep ==
  ASSUME TypeOK, [Next]_vars, NEW i \in Pieces
  PROVE  [Piece(i)!Next]_(Piece(i)!vars)
<1>0. m \in ManagerStates /\ r.block \subseteq Requests
  BY DEF TypeOK, ReaderStates
<1> USE DEF ManagerStates
<1>1. ASSUME m'.missing = m.missing, m'.handed = m.handed
      PROVE  [Piece(i)!Next]_(Piece(i)!vars)
  BY <1>1 DEF Piece!vars
<1>2. CASE UNCHANGED m \/ AskForPiece \/ FinishPiece \/ Query
           \/ (\E j \in Pieces : ReceiveHave(j))
           \/ (\E pieces \in SUBSET Pieces : ReceiveBitfield(pieces))
  BY <1>0, <1>1, <1>2
  DEF AskForPiece, FinishPiece, Query, QueryActive, ReceiveHave, ReceiveBitfield
<1>3. CASE TakeBlocks
  <2>1. ASSUME NEW j \in w.candidates, NEW batch \in Batches(j, w.room),
               m' = [m EXCEPT !.handed = @ \cup batch]
        PROVE  [Piece(i)!Next]_(Piece(i)!vars)
    <3> DEFINE here == {b \in Blocks : <<i, b>> \in batch}
    <3>1. batch \subseteq m.missing \ m.handed
      BY DEF Batches, Requestable
    <3>2. m'.missing = m.missing /\ m'.handed = m.handed \cup batch
      BY <1>0, <2>1
    <3>3. Piece(i)!Hand(here)
      BY <3>1, <3>2 DEF Piece!Hand
    <3> QED BY <3>3 DEF Piece!Next
  <2> QED BY <1>1, <1>3, <2>1 DEF TakeBlocks
<1>4. CASE Deliver
  <2>1. PICK came \in SUBSET Requests : came = r.block
    BY <1>0
  <2>2. m'.missing = m.missing \ came /\ m'.handed = m.handed \ came
    BY <1>0, <1>4, <2>1 DEF Deliver
  <2> QED BY <2>2, BlocksCome
<1>5. ASSUME NEW j \in Pieces, OtherFinishes(j) PROVE [Piece(i)!Next]_(Piece(i)!vars)
  <2>1. PICK came \in SUBSET Requests : came = BlocksOf(j)
    BY DEF BlocksOf, Requests
  <2>2. m'.missing = m.missing \ came /\ m'.handed = m.handed \ came
    BY <1>0, <1>5, <2>1 DEF OtherFinishes
  <2> QED BY <2>2, BlocksCome
<1>6. ASSUME NEW q \in Requests, ExpireBlock(q) PROVE [Piece(i)!Next]_(Piece(i)!vars)
  <2>1. m'.missing = m.missing /\ m'.handed = m.handed \ {q}
    BY <1>0, <1>6 DEF ExpireBlock
  <2> QED BY <2>1, AttemptsEnd
<1> QED BY <1>2, <1>3, <1>4, <1>5, <1>6, OthersKeepManager DEF TouchesManager

\* Nor does it see a step of a piece actor but those of PieceView, which
\* PieceManager implements: whatever the writer, the reader and the other
\* connections do in between, a block in hand is missing and free when it is
\* taken (lines 45-79 and 334-365).
THEOREM SeesThePiecesCorrect == Spec => SeesThePieces
<1>1. Init => \A i \in Pieces : Piece(i)!Init
  BY DEF Init, Piece!Init, Requests
<1>2. TypeOK /\ [Next]_vars => [\A i \in Pieces : [Piece(i)!Next]_(Piece(i)!vars)]_vars
  BY PieceStep
<1> QED
  BY <1>1, <1>2, TypeCorrect, PTL DEF Spec, SeesThePieces

LEMMA HandedStep ==
  ASSUME NEW i \in Pieces, Piece(i)!HandedIsMissing, [Piece(i)!Next]_(Piece(i)!vars)
  PROVE  Piece(i)!HandedIsMissing'
BY DEF Piece!HandedIsMissing, Piece!Next, Piece!vars, Piece!Hand, Piece!Arrive,
       Piece!Expire, Piece!Reset

\* No complete piece is assigned to the peer, and no block that came is asked
\* of it again, whoever delivered it (lines 145-150 and 334-365).
THEOREM WorkIsOpenCorrect == Spec => []WorkIsOpen
<1>1. Init => /\ Orderly
              /\ \A i \in Pieces : Piece(i)!HandedIsMissing
  BY DEF Init, Orderly, View!NoFinishedWork, Piece!HandedIsMissing, Requests
<1>2. TypeOK /\ Orderly /\ [Next]_vars => Orderly'
  BY ViewStep, BlockStep DEF Orderly
<1>3. TypeOK /\ (\A i \in Pieces : Piece(i)!HandedIsMissing) /\ [Next]_vars
        => (\A i \in Pieces : Piece(i)!HandedIsMissing)'
  BY PieceStep, HandedStep
<1>4. Orderly /\ (\A i \in Pieces : Piece(i)!HandedIsMissing) => WorkIsOpen
  BY DEF Orderly, WorkIsOpen
<1> QED
  BY <1>1, <1>2, <1>3, <1>4, TypeCorrect, PTL DEF Spec
=============================================================================
