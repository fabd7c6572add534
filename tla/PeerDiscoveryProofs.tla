------------------------- MODULE PeerDiscoveryProofs -------------------------
(***************************************************************************)
(* Proofs about PeerDiscovery.  Each property rests on an invariant of its *)
(* own: FreshIsNew for OncePerTier, Counted for TierSurvives, Joined for   *)
(* SecondTorrentWaits, and NothingInHand for SeenIsHandedOn; all but the   *)
(* first need Orphaned, which says that the channel outlives its senders.  *)
(***************************************************************************)
EXTENDS PeerDiscovery, TLAPS

TierStates ==
  [pc : {"ask", "announce", "filter", "extend", "send", "sleep"} \cup Dead,
   idx : Nat, retry : Nat, fresh : SUBSET Peers, timed : BOOLEAN]

LegacyStates ==
  [pc : {"ask", "send", "panicked"}, known : BOOLEAN, old : SUBSET Peers, out : SUBSET Peers]

LEMMA TypeInit == Init => TypeOK
<1> SUFFICES ASSUME Init PROVE TypeOK
  OBVIOUS
<1> USE PeerDiscoveryAssumptions DEF Init
<1>1. tier \in [Tiers -> TierStates]
  BY DEF TierStates
<1>2. legacy \in LegacyStates
  BY DEF LegacyStates
<1>3. queue \in Seq(SUBSET Peers) /\ Len(queue) <= ChannelCap
  OBVIOUS
<1>4. orch \in [retries : 0 .. Retries, tried : SUBSET Peers]
  OBVIOUS
<1>5. handed \in [Tiers -> [Peers -> Nat]]
  OBVIOUS
<1> QED
  BY <1>1, <1>2, <1>3, <1>4, <1>5 DEF TypeOK, TierStates, LegacyStates

\* The steps of a tier keep the state of its task well formed.
LEMMA TypeTier ==
  ASSUME TypeOK, NEW t \in Tiers, TierSteps(t)
  PROVE  tier' \in [Tiers -> TierStates]
<1> USE DEF Dead
<1>1. tier \in [Tiers -> TierStates] /\ tier[t] \in TierStates
  BY DEF TypeOK, TierStates
<1>2. /\ tier[t].idx \in Nat /\ tier[t].retry \in Nat /\ tier[t].fresh \in SUBSET Peers
      /\ tier[t].pc \in {"ask", "announce", "filter", "extend", "send", "sleep"} \cup Dead
      /\ tier[t].timed \in BOOLEAN
  BY <1>1 DEF TierStates
<1>3. NextTracker(t) \in [Tiers -> TierStates]
  <2> DEFINE next == [tier[t] EXCEPT !.pc = "ask", !.idx = @ + 1, !.retry = @ + 1]
  <2> DEFINE i == tier[t].idx  r == tier[t].retry
  <2>0. i \in Nat /\ r \in Nat
    BY <1>2
  <2>1. i + 1 \in Nat /\ r + 1 \in Nat
    <3> HIDE DEF i, r
    <3> QED
      BY <2>0
  <2>2. next \in TierStates
    BY <1>1, <2>1 DEF TierStates
  <2>3. NextTracker(t) = [tier EXCEPT ![t] = next]
    BY <1>1 DEF NextTracker
  <2> HIDE DEF next
  <2> QED
    BY <1>1, <2>2, <2>3
<1>4. ASSUME NEW place \in {"announce", "send", "sleep"} \cup Dead
      PROVE  Moved(t, place) \in [Tiers -> TierStates]
  BY <1>1 DEF Moved, TierStates
<1>5. ASSUME NEW peers \in SUBSET Peers, NEW timed \in BOOLEAN
      PROVE  Answered(t, peers, timed) \in [Tiers -> TierStates]
  BY <1>1 DEF Answered, TierStates
<1>6. CASE AskHttp(t)
  BY <1>3, <1>4, <1>5, <1>6 DEF AskHttp
<1>7. CASE ConnectUdp(t)
  BY <1>3, <1>4, <1>7 DEF ConnectUdp
<1>8. CASE AnnounceUdp(t)
  BY <1>3, <1>4, <1>5, <1>8 DEF AnnounceUdp
<1>9. CASE Filter(t)
  <2>1. Unseen(tier[t].fresh) \subseteq Peers
    BY <1>2 DEF Unseen
  <2> QED
    BY <1>1, <1>9, <2>1 DEF Filter, TierStates
<1>10. CASE Extend(t)
  BY <1>4, <1>10 DEF Extend
<1>11. CASE Send(t)
  <2> DEFINE Sent(place) == [tier[t] EXCEPT !.pc = place, !.fresh = {}, !.timed = TRUE]
  <2>1. \A place \in {"sleep", "overflow"} : Sent(place) \in TierStates
    BY <1>1 DEF TierStates
  <2>2. \/ \E place \in {"sleep", "overflow"} : tier' = [tier EXCEPT ![t] = Sent(place)]
        \/ tier' = Moved(t, "no receiver")
    BY <1>1, <1>11 DEF Send, Pause
  <2>3. Moved(t, "no receiver") \in [Tiers -> TierStates]
    BY <1>4
  <2> HIDE DEF Sent
  <2> QED
    BY <1>1, <2>1, <2>2, <2>3
<1>12. CASE BackOff(t)
  <2>1. tier' = Moved(t, "sleep") \/ tier' = Moved(t, "overflow")
    BY <1>12 DEF BackOff, Pause
  <2> QED
    BY <1>4, <2>1
<1>13. CASE Wake(t)
  BY <1>1, <1>13 DEF Wake, FirstRetry, TierStates
<1> QED
  BY <1>6, <1>7, <1>8, <1>9, <1>10, <1>11, <1>12, <1>13 DEF TierSteps

LEMMA TypeStep == TypeOK /\ [Next]_vars => TypeOK'
<1> SUFFICES ASSUME TypeOK, [Next]_vars PROVE TypeOK'
  OBVIOUS
<1> USE PeerDiscoveryAssumptions
<1>types. tier \in [Tiers -> TierStates] /\ legacy \in LegacyStates
  BY DEF TypeOK, TierStates, LegacyStates
<1>1. ASSUME NEW t \in Tiers, TierSteps(t) PROVE TypeOK'
  <2>1. tier' \in [Tiers -> TierStates]
    BY <1>1, TypeTier
  <2>2. tier[t].fresh \subseteq Peers
    BY <1>types DEF TierStates
  <2>3. seen' \subseteq Peers
    BY <1>1, <2>2 DEF TypeOK, TierSteps, AskHttp, ConnectUdp, AnnounceUdp, Filter, Extend,
         Extended, Send, BackOff, Wake
  <2>4. queue' \in Seq(SUBSET Peers) /\ Len(queue') <= ChannelCap
    <3>1. queue' = queue \/ (Len(queue) < ChannelCap /\ queue' = Append(queue, tier[t].fresh))
      BY <1>1 DEF TierSteps, AskHttp, ConnectUdp, AnnounceUdp, Filter, Extend,
           Send, HasRoom, BackOff, Wake
    <3>2. queue \in Seq(SUBSET Peers) /\ Len(queue) <= ChannelCap
      BY DEF TypeOK
    <3>3. CASE Len(queue) < ChannelCap /\ queue' = Append(queue, tier[t].fresh)
      <4>1. Append(queue, tier[t].fresh) \in Seq(SUBSET Peers)
        BY <2>2, <3>2
      <4>2. Len(Append(queue, tier[t].fresh)) = Len(queue) + 1 /\ Len(queue) \in Nat
        BY <2>2, <3>2
      <4> QED
        BY <3>3, <4>1, <4>2
    <3> QED
      BY <3>1, <3>2, <3>3
  <2>5. handed' \in [Tiers -> [Peers -> Nat]]
    <3>1. handed \in [Tiers -> [Peers -> Nat]]
      BY DEF TypeOK
    <3>2. [p \in Peers |-> handed[t][p] + IF p \in tier[t].fresh THEN 1 ELSE 0] \in [Peers -> Nat]
      BY <3>1
    <3>3. \/ handed' = handed
          \/ handed' = [handed EXCEPT ![t] =
                          [p \in Peers |-> handed[t][p] + IF p \in tier[t].fresh THEN 1 ELSE 0]]
      BY <1>1, <3>1 DEF TierSteps, AskHttp, ConnectUdp, AnnounceUdp, Filter, Extend, Send,
           BackOff, Wake
    <3> QED
      BY <3>1, <3>2, <3>3
  <2>6. UNCHANGED <<mode, legacy, orch, manager, logger, started>>
    BY <1>1 DEF TierSteps, AskHttp, ConnectUdp, AnnounceUdp, Filter, Extend, Send, BackOff, Wake
  <2> QED
    BY <2>1, <2>3, <2>4, <2>5, <2>6 DEF TypeOK, TierStates
<1>2. CASE AskLegacy
  <2>1. PICK peers \in SUBSET Peers :
          legacy' = [pc |-> IF legacy.known /\ News(peers) = {} THEN "ask" ELSE "send",
                     known |-> TRUE, old |-> peers, out |-> News(peers)]
    BY <1>2 DEF AskLegacy
  <2>2. News(peers) \subseteq Peers
    BY DEF News
  <2>3. legacy' \in LegacyStates
    BY <2>1, <2>2 DEF LegacyStates
  <2> QED
    BY <1>2, <2>3 DEF AskLegacy, TypeOK, LegacyStates
<1>3. CASE LegacyEnds
  <2>1. legacy' \in LegacyStates
    BY <1>3, <1>types DEF LegacyEnds, LegacyStates
  <2> QED
    BY <1>3, <2>1 DEF LegacyEnds, TypeOK, LegacyStates
<1>4. CASE SendLegacy
  <2>1. legacy' \in LegacyStates /\ legacy.out \subseteq Peers
    BY <1>4, <1>types DEF SendLegacy, LegacyStates
  <2>2. queue' \in Seq(SUBSET Peers) /\ Len(queue') <= ChannelCap
    BY <1>4, <2>1 DEF SendLegacy, HasRoom, TypeOK
  <2> QED
    BY <1>4, <2>1, <2>2 DEF SendLegacy, TypeOK, LegacyStates
<1>5. CASE Receive
  <2>1. Head(queue) \subseteq Peers /\ Tail(queue) \in Seq(SUBSET Peers)
        /\ Len(Tail(queue)) <= ChannelCap
    BY <1>5 DEF Receive, TypeOK
  <2>2. orch' \in [retries : 0 .. Retries, tried : SUBSET Peers]
    BY <1>5, <2>1 DEF Receive, TypeOK
  <2> QED
    BY <1>5, <2>1, <2>2 DEF Receive, TypeOK
<1>6. CASE ReceiveNone
  <2>1. orch.retries - 1 \in 0 .. Retries
    BY <1>6 DEF ReceiveNone, Receiving, TypeOK
  <2>2. orch' \in [retries : 0 .. Retries, tried : SUBSET Peers]
    BY <1>6, <2>1 DEF ReceiveNone, TypeOK
  <2> QED
    BY <1>6, <2>2 DEF ReceiveNone, TypeOK
<1>7. CASE ManagerStops \/ LoggerFails \/ NextTorrent
  BY <1>7 DEF ManagerStops, LoggerFails, NextTorrent, TypeOK
<1>8. CASE UNCHANGED vars
  BY <1>8 DEF vars, TypeOK
<1> QED
  BY <1>1, <1>2, <1>3, <1>4, <1>5, <1>6, <1>7, <1>8 DEF Next

\* The channel never exceeds its capacity and all locals stay well formed.
THEOREM TypeCorrect == Spec => []TypeOK
  BY TypeInit, TypeStep, PTL DEF Spec

----------------------------------------------------------------------------
(* What a tier hands on                                                    *)

\* What a tier holds after it filtered an answer it has not handed on yet;
\* what it handed on is in the list, and what it is about to send as well.
Fresh(t, p) ==
  /\ handed[t][p] <= 1
  /\ handed[t][p] > 0 => p \in seen
  /\ tier[t].pc \in {"extend", "send"} /\ p \in tier[t].fresh => handed[t][p] = 0
  /\ tier[t].pc = "send" /\ p \in tier[t].fresh => p \in seen

FreshIsNew == \A t \in Tiers, p \in Peers : Fresh(t, p)

\* One tracker's failure counts once, and so does the place in the tier.
Count(t) ==
  /\ tier[t].retry < tier[t].idx
  /\ tier[t].idx <= TierLen[t] + 1
  /\ tier[t].pc = "announce" => tier[t].idx <= TierLen[t]
  /\ tier[t].pc = "overflow" => TierLen[t] > MaxExponent
  /\ tier[t].pc # "no receiver"

Counted == \A t \in Tiers : Count(t)

\* The orchestrator ends only after everyone who might send to it.
Orphaned == ~Receiving => queue = <<>> /\ SendersGone

\* What the handler of AddTorret waited for stays so.
Joined ==
  /\ ~logger => ~manager
  /\ started = 2 => ~logger /\ ~Receiving

\* The loop has nothing in hand but when it sends.
NothingInHand == legacy.pc # "send" => legacy.out = {}

\* Where the three ways on from a tracker lead.
LEMMA Places ==
  ASSUME TypeOK, NEW t \in Tiers
  PROVE  /\ NextTracker(t)[t].pc = "ask"
         /\ \A place : Moved(t, place)[t] = [tier[t] EXCEPT !.pc = place]
         /\ \A peers, timed : Answered(t, peers, timed)[t].pc = "filter"
<1>1. tier \in [Tiers -> TierStates] /\ tier[t] \in TierStates
  BY DEF TypeOK, TierStates
<1>2. NextTracker(t)[t].pc = "ask"
  <2> DEFINE i == tier[t].idx + 1  r == tier[t].retry + 1
  <2>1. NextTracker(t) = [tier EXCEPT ![t].pc = "ask", ![t].idx = i, ![t].retry = r]
    BY DEF NextTracker
  <2> HIDE DEF i, r
  <2> QED
    BY <1>1, <2>1 DEF TierStates
<1>3. \A place : Moved(t, place)[t] = [tier[t] EXCEPT !.pc = place]
  BY <1>1 DEF Moved
<1>4. \A peers, timed : Answered(t, peers, timed)[t].pc = "filter"
  BY <1>1 DEF Answered, TierStates
<1> QED
  BY <1>2, <1>3, <1>4

LEMMA FreshInit == Init => FreshIsNew
  BY DEF Init, FreshIsNew, Fresh

\* Only the tier itself changes what it holds and hands on, and the list
\* only grows.
LEMMA FreshTier ==
  ASSUME TypeOK, FreshIsNew, NEW t \in Tiers, TierSteps(t)
  PROVE  FreshIsNew'
<1>types. /\ tier \in [Tiers -> TierStates] /\ seen \subseteq Peers
          /\ handed \in [Tiers -> [Peers -> Nat]]
  BY DEF TypeOK, TierStates
<1> SUFFICES ASSUME NEW u \in Tiers, NEW p \in Peers PROVE Fresh(u, p)'
  BY DEF FreshIsNew
<1>old. Fresh(u, p) /\ Fresh(t, p)
  BY DEF FreshIsNew
<1>pcs. \A place : Moved(t, place)[t].pc = place /\ Moved(t, place)[t].fresh = tier[t].fresh
  BY <1>types DEF Moved, TierStates
<1>grows. p \in seen => p \in seen'
  BY DEF TierSteps, AskHttp, ConnectUdp, AnnounceUdp, Filter, Extend, Extended, Send, BackOff, Wake
<1>1. ASSUME u # t PROVE tier'[u] = tier[u] /\ handed'[u] = handed[u]
  BY <1>1, <1>types DEF TierSteps, AskHttp, ConnectUdp, AnnounceUdp, Filter, Extend, Send,
       BackOff, Wake, NextTracker, Moved, Answered
<1>2. CASE u # t
  BY <1>old, <1>grows, <1>1, <1>2 DEF Fresh
<1>3. ASSUME u = t, UNCHANGED handed, tier'[t].pc \notin {"extend", "send"} PROVE Fresh(u, p)'
  BY <1>old, <1>grows, <1>3 DEF Fresh
<1>4. CASE AskHttp(t)
  <2>1. tier'[t].pc \in {"ask", "panicked", "filter"}
    BY <1>4, <1>pcs, Places DEF AskHttp
  <2> QED
    BY <1>2, <1>3, <1>4, <2>1 DEF AskHttp
<1>5. CASE ConnectUdp(t) \/ AnnounceUdp(t)
  <2>1. ASSUME ConnectUdp(t) PROVE tier'[t].pc \in {"ask", "panicked", "announce"}
    BY <2>1, <1>pcs, Places DEF ConnectUdp
  <2>2. ASSUME AnnounceUdp(t) PROVE tier'[t].pc \in {"ask", "panicked", "filter"}
    <3>1. \/ tier' = Moved(t, "panicked")
          \/ tier' = NextTracker(t)
          \/ \E peers \in SUBSET Peers, timed \in BOOLEAN : tier' = Answered(t, peers, timed)
      BY <2>2, Zenon DEF AnnounceUdp
    <3> QED
      BY <3>1, <1>pcs, Places
  <2> QED
    BY <1>2, <1>3, <1>5, <2>1, <2>2 DEF ConnectUdp, AnnounceUdp
<1>6. CASE Filter(t)
  <2>1. tier'[t].pc = "extend" /\ tier'[t].fresh = Unseen(tier[t].fresh)
    BY <1>6, <1>types DEF Filter, TierStates
  <2>2. p \in Unseen(tier[t].fresh) => p \notin seen
    BY DEF Unseen
  <2>3. p \notin seen => handed[t][p] = 0
    BY <1>old, <1>types DEF Fresh
  <2> QED
    BY <1>old, <1>grows, <1>2, <1>6, <2>1, <2>2, <2>3 DEF Fresh, Filter
<1>7. CASE Extend(t)
  <2>1. tier'[t].pc \in {"send", "no interval"} /\ tier'[t].fresh = tier[t].fresh
    BY <1>7, <1>types DEF Extend, Moved, TierStates
  <2>2. tier[t].pc = "extend" /\ UNCHANGED handed /\ (p \in tier[t].fresh => p \in seen')
    BY <1>7 DEF Extend, Extended, At
  <2> QED
    BY <1>old, <1>grows, <1>2, <2>1, <2>2 DEF Fresh
<1>8. CASE Send(t)
  <2>1. tier[t].pc = "send" /\ tier'[t].pc \in {"sleep", "overflow", "no receiver"}
    <3>1. \/ \E place \in {"sleep", "overflow"} :
               tier' = [tier EXCEPT ![t].pc = place, ![t].fresh = {}, ![t].timed = TRUE]
          \/ tier' = Moved(t, "no receiver")
      BY <1>8 DEF Send, Pause
    <3>2. tier[t].pc = "send"
      BY <1>8 DEF Send, At
    <3>3. tier'[t].pc = "sleep" \/ tier'[t].pc = "overflow" \/ tier'[t].pc = "no receiver"
      <4>1. ASSUME NEW place \in {"sleep", "overflow"},
                   tier' = [tier EXCEPT ![t].pc = place, ![t].fresh = {}, ![t].timed = TRUE]
            PROVE  tier'[t].pc = place
        BY <1>types, <4>1 DEF TierStates
      <4>2. CASE tier' = Moved(t, "no receiver")
        BY <1>pcs, <4>2
      <4> QED
        BY <3>1, <4>1, <4>2
    <3> QED
      BY <3>2, <3>3
  <2>2. handed[t][p] \in Nat
    BY <1>types
  <2>3. \/ handed'[t] = handed[t]
        \/ handed'[t] = [q \in Peers |-> handed[t][q] + IF q \in tier[t].fresh THEN 1 ELSE 0]
    BY <1>8, <1>types DEF Send
  <2>4. CASE p \in tier[t].fresh
    <3>1. handed[t][p] = 0 /\ p \in seen
      BY <1>old, <2>1, <2>4 DEF Fresh
    <3>2. handed'[t][p] = handed[t][p] \/ handed'[t][p] = handed[t][p] + 1
      BY <2>3, <2>4
    <3>3. handed'[t][p] <= 1
      BY <3>1, <3>2
    <3> QED
      BY <1>grows, <1>2, <2>1, <3>1, <3>3 DEF Fresh
  <2>5. CASE p \notin tier[t].fresh
    <3>1. handed'[t][p] = handed[t][p]
      BY <2>2, <2>3, <2>5
    <3> QED
      BY <1>old, <1>grows, <1>2, <2>1, <3>1 DEF Fresh
  <2> QED
    BY <2>4, <2>5
<1>9. CASE BackOff(t) \/ Wake(t)
  <2>1. tier'[t].pc \in {"sleep", "overflow", "ask"}
    BY <1>9, <1>types DEF BackOff, Pause, Wake, Moved, TierStates
  <2> QED
    BY <1>2, <1>3, <1>9, <2>1 DEF BackOff, Wake
<1> QED
  BY <1>4, <1>5, <1>6, <1>7, <1>8, <1>9 DEF TierSteps

LEMMA FreshStep == TypeOK /\ FreshIsNew /\ [Next]_vars => FreshIsNew'
<1> SUFFICES ASSUME TypeOK, FreshIsNew, [Next]_vars PROVE FreshIsNew'
  OBVIOUS
<1>1. CASE UNCHANGED <<tier, seen, handed>>
  BY <1>1 DEF FreshIsNew, Fresh
<1>2. ASSUME NEW t \in Tiers, TierSteps(t) PROVE FreshIsNew'
  BY <1>2, FreshTier
<1>3. \/ \E t \in Tiers : TierSteps(t)
      \/ UNCHANGED <<tier, seen, handed>>
  BY DEF Next, vars, AskLegacy, LegacyEnds, SendLegacy, Receive, ReceiveNone, ManagerStops,
       LoggerFails, NextTorrent
<1> QED
  BY <1>1, <1>2, <1>3

\* A tier hands a peer on at most once, though the lock is released between
\* the look at the list and its extension.
THEOREM OncePerTierHolds == Spec => []OncePerTier
<1>1. FreshIsNew => OncePerTier
  BY DEF FreshIsNew, Fresh, OncePerTier
<1> QED
  BY <1>1, TypeInit, TypeStep, FreshInit, FreshStep, PTL DEF Spec

----------------------------------------------------------------------------
(* Who outlives whom                                                       *)

\* Whoever takes a step still holds a sender.
LEMMA SendersThere ==
  /\ \A t \in Tiers : TierSteps(t) => ~SendersGone
  /\ AskLegacy \/ LegacyEnds \/ SendLegacy => ~SendersGone
<1>1. ASSUME NEW t \in Tiers, TierSteps(t) PROVE mode = "tiers" /\ tier[t].pc \notin Dead
  <2>1. mode = "tiers" /\ tier[t].pc \in {"ask", "announce", "filter", "extend", "send", "sleep"}
    BY <1>1 DEF TierSteps, AskHttp, ConnectUdp, AnnounceUdp, Filter, Extend, Send, BackOff, Wake, At
  <2> QED
    BY <2>1 DEF Dead
<1>2. ASSUME AskLegacy \/ LegacyEnds \/ SendLegacy
      PROVE  mode = "legacy" /\ legacy.pc # "panicked"
  BY <1>2 DEF AskLegacy, LegacyEnds, SendLegacy
<1> QED
  BY <1>1, <1>2 DEF SendersGone

LEMMA OrphanedInit == Init => Orphaned
  BY PeerDiscoveryAssumptions DEF Init, Orphaned, Receiving

LEMMA OrphanedStep == TypeOK /\ Orphaned /\ [Next]_vars => Orphaned'
<1> SUFFICES ASSUME TypeOK, Orphaned, [Next]_vars PROVE Orphaned'
  OBVIOUS
<1>types. orch \in [retries : 0 .. Retries, tried : SUBSET Peers]
  BY DEF TypeOK
<1>1. CASE Receiving /\ UNCHANGED orch
  BY <1>1 DEF Orphaned, Receiving
<1>2. ASSUME NEW t \in Tiers, TierSteps(t) PROVE Orphaned'
  <2>1. Receiving
    BY <1>2, SendersThere DEF Orphaned
  <2> QED
    BY <1>1, <1>2, <2>1 DEF TierSteps, AskHttp, ConnectUdp, AnnounceUdp, Filter, Extend, Send,
       BackOff, Wake
<1>3. CASE AskLegacy \/ LegacyEnds \/ SendLegacy
  <2>1. Receiving
    BY <1>3, SendersThere DEF Orphaned
  <2> QED
    BY <1>1, <1>3, <2>1 DEF AskLegacy, LegacyEnds, SendLegacy
<1>4. CASE Receive
  <2>1. orch'.retries = Retries
    BY <1>4 DEF Receive
  <2> QED
    BY <2>1, PeerDiscoveryAssumptions DEF Orphaned, Receiving
<1>5. CASE ReceiveNone
  BY <1>5 DEF ReceiveNone, Closed, Orphaned, SendersGone
<1>6. CASE UNCHANGED <<mode, tier, legacy, queue, orch>>
  BY <1>6 DEF Orphaned, Receiving, SendersGone
<1> QED
  BY <1>2, <1>3, <1>4, <1>5, <1>6 DEF Next, ManagerStops, LoggerFails, NextTorrent, vars

LEMMA JoinedInit == Init => Joined
  BY DEF Init, Joined

LEMMA JoinedStep == TypeOK /\ Orphaned /\ Joined /\ [Next]_vars => Joined'
<1> SUFFICES ASSUME TypeOK, Orphaned, Joined, [Next]_vars PROVE Joined'
  OBVIOUS
<1>1. CASE UNCHANGED <<orch, manager, logger, started>>
  BY <1>1 DEF Joined, Receiving
<1>2. CASE Receive \/ ReceiveNone
  <2>1. Receiving /\ UNCHANGED <<manager, logger, started>>
    BY <1>2 DEF Receive, ReceiveNone
  <2> QED
    BY <2>1 DEF Joined
<1>3. CASE ManagerStops \/ LoggerFails
  <2>1. (~logger' => ~manager') /\ (~logger => ~logger') /\ UNCHANGED <<orch, started>>
    BY <1>3 DEF ManagerStops, LoggerFails, Joined
  <2> QED
    BY <2>1 DEF Joined, Receiving
<1>4. CASE NextTorrent
  BY <1>4 DEF NextTorrent, AllJoined, Joined, Receiving
<1>5. ASSUME NEW t \in Tiers, TierSteps(t) PROVE Joined'
  BY <1>1, <1>5 DEF TierSteps, AskHttp, ConnectUdp, AnnounceUdp, Filter, Extend, Send, BackOff, Wake
<1> QED
  BY <1>1, <1>2, <1>3, <1>4, <1>5 DEF Next, AskLegacy, LegacyEnds, SendLegacy, vars

\* The client actor takes the next torrent only after everything around the
\* first has ended.
THEOREM SecondTorrentWaitsHolds == Spec => []SecondTorrentWaits
<1>1. Orphaned /\ Joined => SecondTorrentWaits
  BY DEF Orphaned, Joined, SecondTorrentWaits
<1> QED
  BY <1>1, TypeInit, TypeStep, OrphanedInit, OrphanedStep, JoinedInit, JoinedStep, PTL DEF Spec

----------------------------------------------------------------------------
(* What ends a tier                                                        *)

LEMMA CountedInit == Init => Counted
<1> SUFFICES ASSUME Init, NEW t \in Tiers PROVE Count(t)
  BY DEF Counted
<1>1. tier[t].idx = 1 /\ tier[t].retry = 0 /\ tier[t].pc = "ask"
  BY DEF Init
<1>2. TierLen[t] \in Nat
  BY PeerDiscoveryAssumptions
<1> QED
  BY <1>1, <1>2 DEF Count

\* A task only counts on when a tracker failed, and starts anew when it wakes.
LEMMA CountedTier ==
  ASSUME TypeOK, Orphaned, NEW t \in Tiers, Count(t), TierSteps(t)
  PROVE  Count(t)'
<1>types. tier \in [Tiers -> TierStates] /\ tier[t] \in TierStates
  BY DEF TypeOK, TierStates
<1>nat. tier[t].idx \in Nat /\ tier[t].retry \in Nat /\ TierLen[t] \in Nat /\ MaxExponent \in Nat
  BY <1>types, PeerDiscoveryAssumptions DEF TierStates
<1>count. tier[t].retry < tier[t].idx /\ tier[t].idx <= TierLen[t] + 1
  BY DEF Count
<1>keeps. ASSUME tier'[t].idx = tier[t].idx, tier'[t].retry = tier[t].retry,
                 tier'[t].pc \notin {"announce", "overflow", "no receiver"}
          PROVE  Count(t)'
  BY <1>keeps DEF Count
<1>moved. \A place : /\ Moved(t, place)[t].pc = place
                     /\ Moved(t, place)[t].idx = tier[t].idx
                     /\ Moved(t, place)[t].retry = tier[t].retry
  BY <1>types DEF Moved, TierStates
<1>next. ASSUME tier' = NextTracker(t), tier[t].idx <= TierLen[t] PROVE Count(t)'
  <2> DEFINE i == tier[t].idx + 1  r == tier[t].retry + 1
  <2>1. tier' = [tier EXCEPT ![t].pc = "ask", ![t].idx = i, ![t].retry = r]
    BY <1>next DEF NextTracker
  <2>2. r < i /\ i <= TierLen[t] + 1
    BY <1>next, <1>nat, <1>count
  <2> HIDE DEF i, r
  <2>3. tier'[t].pc = "ask" /\ tier'[t].idx = i /\ tier'[t].retry = r
    BY <1>types, <2>1 DEF TierStates
  <2> QED
    BY <2>2, <2>3 DEF Count
<1>answered. ASSUME NEW peers, NEW timed \in BOOLEAN, tier' = Answered(t, peers, timed)
             PROVE  Count(t)'
  <2>1. tier'[t].idx = tier[t].idx /\ tier'[t].retry = tier[t].retry /\ tier'[t].pc = "filter"
    BY <1>types, <1>answered DEF Answered, TierStates
  <2> QED
    BY <1>keeps, <2>1
<1>panicked. ASSUME tier' = Moved(t, "panicked") PROVE Count(t)'
  <2>1. /\ tier'[t].idx = tier[t].idx /\ tier'[t].retry = tier[t].retry
        /\ tier'[t].pc = "panicked"
    BY <1>moved, <1>panicked
  <2> QED
    BY <1>keeps, <2>1
<1>pauses. ASSUME NEW place \in Pause(t), tier'[t].idx = tier[t].idx,
                  tier'[t].retry = tier[t].retry, tier'[t].pc = place
           PROVE  Count(t)'
  <2>1. CASE place = "sleep"
    BY <1>keeps, <1>pauses, <2>1
  <2>2. CASE place = "overflow" /\ tier[t].retry > MaxExponent
    <3>1. TierLen[t] > MaxExponent
      BY <1>nat, <1>count, <2>2
    <3> QED
      BY <1>pauses, <2>2, <3>1 DEF Count
  <2> QED
    BY <2>1, <2>2 DEF Pause
<1>1. CASE AskHttp(t)
  <2>1. /\ tier[t].idx <= TierLen[t]
        /\ \/ tier' = NextTracker(t) \/ tier' = Moved(t, "panicked")
           \/ \E peers \in SUBSET Peers, timed \in BOOLEAN : tier' = Answered(t, peers, timed)
    BY <1>1 DEF AskHttp
  <2> QED
    BY <1>panicked, <1>next, <1>answered, <2>1
<1>2. CASE ConnectUdp(t)
  <2>1. /\ tier[t].idx <= TierLen[t]
        /\ \/ tier' = NextTracker(t) \/ tier' = Moved(t, "panicked") \/ tier' = Moved(t, "announce")
    BY <1>2 DEF ConnectUdp
  <2>2. ASSUME tier' = Moved(t, "announce") PROVE Count(t)'
    <3>1. tier'[t].idx = tier[t].idx /\ tier'[t].retry = tier[t].retry /\ tier'[t].pc = "announce"
      BY <1>moved, <2>2
    <3> QED
      BY <2>1, <3>1 DEF Count
  <2> QED
    BY <1>keeps, <1>moved, <1>next, <2>1, <2>2
<1>3. CASE AnnounceUdp(t)
  <2>1. tier[t].idx <= TierLen[t]
    BY <1>3 DEF AnnounceUdp, At, Count
  <2>2. \/ tier' = Moved(t, "panicked") \/ tier' = NextTracker(t)
        \/ \E peers \in SUBSET Peers, timed \in BOOLEAN : tier' = Answered(t, peers, timed)
    BY <1>3, Zenon DEF AnnounceUdp
  <2> QED
    BY <1>panicked, <1>next, <1>answered, <2>1, <2>2
<1>4. CASE Filter(t) \/ Extend(t)
  <2>1. tier'[t].idx = tier[t].idx /\ tier'[t].retry = tier[t].retry
    BY <1>4, <1>types DEF Filter, Extend, Moved, TierStates
  <2>2. \/ tier' = [tier EXCEPT ![t].pc = "extend", ![t].fresh = Unseen(@)]
        \/ tier' = Moved(t, "send") \/ tier' = Moved(t, "no interval")
    BY <1>4 DEF Filter, Extend
  <2>3. tier'[t].pc \in {"extend", "send", "no interval"}
    BY <1>types, <1>moved, <2>2 DEF TierStates
  <2> QED
    BY <1>keeps, <2>1, <2>3
<1>5. CASE Send(t)
  <2>1. Receiving
    BY SendersThere DEF Orphaned
  <2>2. PICK place \in Pause(t) :
          tier' = [tier EXCEPT ![t].pc = place, ![t].fresh = {}, ![t].timed = TRUE]
    BY <1>5, <2>1 DEF Send
  <2>3. tier'[t].idx = tier[t].idx /\ tier'[t].retry = tier[t].retry /\ tier'[t].pc = place
    BY <1>types, <2>2 DEF TierStates
  <2> QED
    BY <1>pauses, <2>3
<1>6. CASE BackOff(t)
  <2>1. PICK place \in Pause(t) : tier' = Moved(t, place)
    BY <1>6 DEF BackOff
  <2>2. tier'[t].idx = tier[t].idx /\ tier'[t].retry = tier[t].retry /\ tier'[t].pc = place
    BY <1>moved, <2>1
  <2> QED
    BY <1>pauses, <2>2
<1>7. CASE Wake(t)
  <2>1. tier'[t].idx = 1 /\ tier'[t].retry = 0 /\ tier'[t].pc = "ask"
    BY <1>7, <1>types DEF Wake, FirstRetry, TierStates
  <2>2. 0 < 1 /\ 1 <= TierLen[t] + 1
    BY <1>nat
  <2> QED
    BY <2>1, <2>2 DEF Count
<1> QED
  BY <1>1, <1>2, <1>3, <1>4, <1>5, <1>6, <1>7 DEF TierSteps

LEMMA CountedStep == TypeOK /\ Orphaned /\ Counted /\ [Next]_vars => Counted'
<1> SUFFICES ASSUME TypeOK, Orphaned, Counted, [Next]_vars, NEW u \in Tiers PROVE Count(u)'
  BY DEF Counted
<1>old. Count(u) /\ tier \in [Tiers -> TierStates]
  BY DEF Counted, TypeOK, TierStates
<1>1. CASE tier'[u] = tier[u]
  BY <1>old, <1>1 DEF Count
<1>2. ASSUME NEW t \in Tiers, TierSteps(t) PROVE Count(u)'
  <2>1. CASE t = u
    BY <1>2, <1>old, <2>1, CountedTier
  <2>2. CASE t # u
    <3>1. tier'[u] = tier[u]
      BY <1>2, <1>old, <2>2 DEF TierSteps, AskHttp, ConnectUdp, AnnounceUdp, Filter, Extend,
           Send, BackOff, Wake, NextTracker, Moved, Answered
    <3> QED
      BY <1>1, <3>1
  <2> QED
    BY <2>1, <2>2
<1> QED
  BY <1>1, <1>2 DEF Next, vars, AskLegacy, LegacyEnds, SendLegacy, Receive, ReceiveNone,
     ManagerStops, LoggerFails, NextTorrent

\* No tier is ended by the orchestrator's end, and only a long one by its
\* back-off.
THEOREM TierSurvivesHolds == Spec => []TierSurvives
<1>1. Counted => TierSurvives
  BY DEF Counted, Count, TierSurvives
<1> QED
  BY <1>1, TypeInit, TypeStep, OrphanedInit, OrphanedStep, CountedInit, CountedStep, PTL DEF Spec

----------------------------------------------------------------------------
(* What the list promises                                                  *)

LEMMA InQueueAppend ==
  ASSUME TypeOK, NEW s \in SUBSET Peers, queue' = Append(queue, s)
  PROVE  InQueue \subseteq InQueue' /\ s \subseteq InQueue'
<1>1. queue \in Seq(SUBSET Peers)
  BY DEF TypeOK
<1>2. DOMAIN queue = 1 .. Len(queue) /\ Len(queue) \in Nat
  BY <1>1
<1>3. DOMAIN queue' = 1 .. Len(queue) + 1
  BY <1>1
<1>4. \A k \in DOMAIN queue : k \in DOMAIN queue' /\ queue'[k] = queue[k]
  BY <1>1, <1>2, <1>3
<1>5. Len(queue) + 1 \in DOMAIN queue' /\ queue'[Len(queue) + 1] = s
  BY <1>1, <1>2, <1>3
<1>6. \A p \in InQueue : p \in InQueue'
  BY <1>4 DEF InQueue
<1>7. \A p \in s : p \in InQueue'
  BY <1>5 DEF InQueue
<1> QED
  BY <1>6, <1>7

LEMMA InQueueTail ==
  ASSUME TypeOK, queue # <<>>, queue' = Tail(queue)
  PROVE  InQueue \subseteq Head(queue) \cup InQueue'
<1>1. queue \in Seq(SUBSET Peers)
  BY DEF TypeOK
<1> SUFFICES ASSUME NEW p \in InQueue, p \notin Head(queue) PROVE p \in InQueue'
  OBVIOUS
<1>2. PICK k \in DOMAIN queue : p \in queue[k]
  BY DEF InQueue
<1>3. k \in 1 .. Len(queue) /\ Len(queue) \in Nat
  BY <1>1
<1>4. k # 1
  BY <1>1, <1>2
<1>5. k - 1 \in 1 .. Len(queue) - 1
  BY <1>3, <1>4
<1>6. DOMAIN queue' = 1 .. Len(queue) - 1 /\ queue'[k - 1] = queue[k]
  BY <1>1, <1>3, <1>5
<1> QED
  BY <1>2, <1>5, <1>6 DEF InQueue

\* What is on its way or has arrived stays so.
LEMMA OnItsWay ==
  ASSUME TypeOK, [Next]_vars
  PROVE  InQueue \cup orch.tried \subseteq InQueue' \cup orch'.tried
<1>1. ASSUME NEW s \in SUBSET Peers, queue' = Append(queue, s), UNCHANGED orch
      PROVE  InQueue \cup orch.tried \subseteq InQueue' \cup orch'.tried
  BY <1>1, InQueueAppend
<1>2. CASE UNCHANGED queue /\ orch'.tried = orch.tried
  BY <1>2 DEF InQueue
<1>3. ASSUME NEW t \in Tiers, TierSteps(t)
      PROVE  InQueue \cup orch.tried \subseteq InQueue' \cup orch'.tried
  <2>1. tier[t].fresh \in SUBSET Peers
    BY DEF TypeOK
  <2>2. UNCHANGED orch /\ (UNCHANGED queue \/ queue' = Append(queue, tier[t].fresh))
    BY <1>3 DEF TierSteps, AskHttp, ConnectUdp, AnnounceUdp, Filter, Extend, Send, BackOff, Wake
  <2> QED
    BY <1>1, <1>2, <2>1, <2>2
<1>4. CASE SendLegacy
  <2>1. legacy.out \in SUBSET Peers
    BY DEF TypeOK
  <2> QED
    BY <1>1, <1>4, <2>1 DEF SendLegacy
<1>5. CASE Receive
  <2>1. orch'.tried = orch.tried \cup Head(queue)
    BY <1>5 DEF Receive
  <2> QED
    BY <1>5, <2>1, InQueueTail DEF Receive
<1>6. CASE ReceiveNone
  <2>1. orch'.tried = orch.tried
    BY <1>6 DEF ReceiveNone, TypeOK
  <2> QED
    BY <1>2, <1>6, <2>1 DEF ReceiveNone
<1> QED
  BY <1>2, <1>3, <1>4, <1>5, <1>6 DEF Next, vars, AskLegacy, LegacyEnds, ManagerStops,
     LoggerFails, NextTorrent

LEMMA NothingInit == Init => NothingInHand
  BY DEF Init, NothingInHand

LEMMA NothingStep == TypeOK /\ NothingInHand /\ [Next]_vars => NothingInHand'
<1> SUFFICES ASSUME TypeOK, NothingInHand, [Next]_vars PROVE NothingInHand'
  OBVIOUS
<1>types. legacy \in LegacyStates
  BY DEF TypeOK, LegacyStates
<1>1. CASE UNCHANGED legacy
  BY <1>1 DEF NothingInHand
<1>2. CASE AskLegacy
  <2>1. PICK peers \in SUBSET Peers :
          legacy' = [pc |-> IF legacy.known /\ News(peers) = {} THEN "ask" ELSE "send",
                     known |-> TRUE, old |-> peers, out |-> News(peers)]
    BY <1>2 DEF AskLegacy
  <2> QED
    BY <2>1 DEF NothingInHand
<1>3. CASE LegacyEnds \/ SendLegacy
  <2>1. legacy'.out = {}
    BY <1>3, <1>types DEF LegacyEnds, SendLegacy, NothingInHand, LegacyStates
  <2> QED
    BY <2>1 DEF NothingInHand
<1>4. ASSUME NEW t \in Tiers, TierSteps(t) PROVE UNCHANGED legacy
  BY <1>4 DEF TierSteps, AskHttp, ConnectUdp, AnnounceUdp, Filter, Extend, Send, BackOff, Wake
<1> QED
  BY <1>1, <1>2, <1>3, <1>4 DEF Next, vars, Receive, ReceiveNone, ManagerStops, LoggerFails,
     NextTorrent

\* A peer that a tier has put into the list and not handed on yet.
Held(p) == \E t \in Tiers : tier[t].pc \in {"send", "no interval"} /\ p \in tier[t].fresh

\* Where the peers that a tier put into the list are.
LEMMA SeenTier ==
  ASSUME TypeOK, Orphaned, SeenIsHandedOn, NEW t \in Tiers, TierSteps(t), NEW p \in seen'
  PROVE  p \in InQueue' \cup orch'.tried \/ Held(p)'
<1>types. tier \in [Tiers -> TierStates]
  BY DEF TypeOK, TierStates
<1>way. InQueue \cup orch.tried \subseteq InQueue' \cup orch'.tried
  BY OnItsWay DEF Next
<1>others. \A u \in Tiers : u # t => tier'[u] = tier[u]
  BY <1>types DEF TierSteps, AskHttp, ConnectUdp, AnnounceUdp, Filter, Extend, Send,
     BackOff, Wake, NextTracker, Moved, Answered
<1>1. CASE p \in seen
  <2>1. CASE p \in InQueue \cup orch.tried
    BY <1>way, <2>1
  <2>2. ASSUME NEW u \in Tiers, tier[u].pc \in {"send", "no interval"}, p \in tier[u].fresh
        PROVE  p \in InQueue' \cup orch'.tried \/ Held(p)'
    <3>1. CASE u # t
      BY <1>others, <2>2, <3>1 DEF Held
    <3>2. CASE u = t
      <4>1. Send(t)
        BY <2>2, <3>2 DEF TierSteps, AskHttp, ConnectUdp, AnnounceUdp, Filter, Extend,
           BackOff, Wake, At
      <4>2. queue' = Append(queue, tier[t].fresh)
        BY <4>1, SendersThere DEF Orphaned, TierSteps, Send
      <4>3. tier[t].fresh \in SUBSET Peers
        BY <1>types DEF TierStates
      <4>4. tier[t].fresh \subseteq InQueue'
        BY <4>2, <4>3, InQueueAppend
      <4> QED
        BY <2>2, <3>2, <4>4
    <3> QED
      BY <3>1, <3>2
  <2> QED
    BY <1>1, <2>1, <2>2 DEF SeenIsHandedOn
<1>2. CASE p \notin seen
  <2>1. Extend(t) /\ p \in tier[t].fresh
    BY <1>2 DEF TierSteps, AskHttp, ConnectUdp, AnnounceUdp, Filter, Extend, Extended, Send,
       BackOff, Wake
  <2>2. tier'[t].pc \in {"send", "no interval"} /\ tier'[t].fresh = tier[t].fresh
    BY <1>types, <2>1 DEF Extend, Moved, TierStates
  <2> QED
    BY <2>1, <2>2 DEF Held
<1> QED
  BY <1>1, <1>2

LEMMA SeenStep ==
  TypeOK /\ Orphaned /\ NothingInHand /\ SeenIsHandedOn /\ [Next]_vars => SeenIsHandedOn'
<1> SUFFICES ASSUME TypeOK, Orphaned, NothingInHand, SeenIsHandedOn, [Next]_vars
             PROVE  SeenIsHandedOn'
  OBVIOUS
<1>types. legacy \in LegacyStates
  BY DEF TypeOK, LegacyStates
<1>way. InQueue \cup orch.tried \subseteq InQueue' \cup orch'.tried
  BY OnItsWay
<1>goal. ASSUME \A p \in seen' : p \in InQueue' \cup orch'.tried \/ Held(p)',
                legacy'.old \subseteq legacy'.out \cup InQueue' \cup orch'.tried
         PROVE  SeenIsHandedOn'
  BY <1>goal DEF SeenIsHandedOn, Held
<1>seen. ASSUME UNCHANGED <<tier, seen>>, NEW p \in seen'
         PROVE  p \in InQueue' \cup orch'.tried \/ Held(p)'
  BY <1>way, <1>seen DEF SeenIsHandedOn, Held
<1>old. UNCHANGED legacy => legacy'.old \subseteq legacy'.out \cup InQueue' \cup orch'.tried
  BY <1>way DEF SeenIsHandedOn
<1>1. ASSUME NEW t \in Tiers, TierSteps(t) PROVE SeenIsHandedOn'
  <2>1. \A p \in seen' : p \in InQueue' \cup orch'.tried \/ Held(p)'
    BY <1>1, SeenTier
  <2>2. UNCHANGED legacy
    BY <1>1 DEF TierSteps, AskHttp, ConnectUdp, AnnounceUdp, Filter, Extend, Send, BackOff, Wake
  <2> QED
    BY <1>goal, <1>old, <2>1, <2>2
<1>2. CASE AskLegacy
  <2>1. PICK peers \in SUBSET Peers :
          legacy' = [pc |-> IF legacy.known /\ News(peers) = {} THEN "ask" ELSE "send",
                     known |-> TRUE, old |-> peers, out |-> News(peers)]
    BY <1>2 DEF AskLegacy
  <2>2. legacy'.old = peers /\ legacy'.out = News(peers)
    BY <2>1
  <2>3. legacy.old \subseteq InQueue \cup orch.tried
    BY <1>2 DEF AskLegacy, NothingInHand, SeenIsHandedOn
  <2>4. peers \subseteq News(peers) \cup legacy.old
    BY DEF News
  <2>5. UNCHANGED <<tier, seen>>
    BY <1>2 DEF AskLegacy
  <2> QED
    BY <1>goal, <1>seen, <1>way, <2>2, <2>3, <2>4, <2>5
<1>3. CASE LegacyEnds
  <2>1. legacy'.old = legacy.old /\ legacy'.out = legacy.out
    BY <1>3, <1>types DEF LegacyEnds, LegacyStates
  <2>2. legacy'.old \subseteq legacy'.out \cup InQueue' \cup orch'.tried
    BY <1>way, <2>1 DEF SeenIsHandedOn
  <2> QED
    BY <1>goal, <1>seen, <1>3, <2>2 DEF LegacyEnds
<1>4. CASE SendLegacy
  <2>1. legacy'.old = legacy.old /\ legacy.out \in SUBSET Peers
    BY <1>4, <1>types DEF SendLegacy, LegacyStates
  <2>2. legacy.out \subseteq InQueue'
    BY <1>4, <2>1, InQueueAppend DEF SendLegacy
  <2>3. legacy'.old \subseteq legacy'.out \cup InQueue' \cup orch'.tried
    BY <1>way, <2>1, <2>2 DEF SeenIsHandedOn
  <2> QED
    BY <1>goal, <1>seen, <1>4, <2>3 DEF SendLegacy
<1>5. CASE UNCHANGED <<tier, seen, legacy>>
  BY <1>goal, <1>seen, <1>old, <1>5
<1> QED
  BY <1>1, <1>2, <1>3, <1>4, <1>5 DEF Next, vars, Receive, ReceiveNone, ManagerStops,
     LoggerFails, NextTorrent

\* What is in the list is sent, on its way or tried, but for the peers of a
\* tier that found no interval; and the loop forgets none of its last answer.
THEOREM SeenIsHandedOnHolds == Spec => []SeenIsHandedOn
<1>1. Init => SeenIsHandedOn
  BY DEF Init, SeenIsHandedOn
<1> QED
  BY <1>1, TypeInit, TypeStep, OrphanedInit, OrphanedStep, NothingInit, NothingStep, SeenStep,
     PTL DEF Spec
=============================================================================
