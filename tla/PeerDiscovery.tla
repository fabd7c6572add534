---------------------------- MODULE PeerDiscovery ----------------------------
(***************************************************************************)
(* How a torrent finds its peers.  The client actor starts, for a torrent, *)
(* the tracker refresh, the handshake orchestrator and the statistics      *)
(* logger, and waits for all three.  The refresh runs one task per tier of *)
(* the announce-list, or one loop if there is only the announce URL.  The  *)
(* tiers share the list of peers seen so far, under a read-write lock; all *)
(* send new peers to the orchestrator, which connects to each.             *)
(*                                                                         *)
(* Durations are left out.  Trackers and peers are external: an answer is  *)
(* any set of peers, none named twice, with an interval or without.        *)
(***************************************************************************)
EXTENDS Integers, Sequences

CONSTANTS
  Peers,       \* peers that trackers report, pairs of address and port
  Tiers,       \* tiers of the announce-list
  TierLen,     \* trackers of each tier
  Udp,         \* the trackers <<tier, index>> that are asked by UDP
  ChannelCap,  \* capacity of the channel to the orchestrator
  Retries,     \* times the orchestrator tolerates a closed channel
  MaxExponent  \* the largest n for which 5^n is a u32

ASSUME PeerDiscoveryAssumptions ==
  /\ TierLen \in [Tiers -> Nat]
  /\ {ChannelCap, Retries} \subseteq Nat \ {0}
  /\ MaxExponent \in Nat

VARIABLES
  mode,     \* which branch of torrent_refresh runs
  tier,     \* the task of each tier: place, tracker index, failures, peers in hand
  seen,     \* already_seen_peers
  legacy,   \* the single loop: place, the last answer, peers to send
  queue,    \* the channel to the orchestrator
  orch,     \* the orchestrator's retries left, and whom it started tasks for
  handed,   \* how often each tier handed a peer on
  manager,  \* whether the torrent manager still runs
  logger,   \* whether the statistics logger still runs
  started   \* AddTorret messages that the client actor has begun to handle

vars == <<mode, tier, seen, legacy, queue, orch, handed, manager, logger, started>>

Init ==
  /\ mode \in {"tiers", "legacy"}
  /\ tier = [t \in Tiers |-> [pc |-> "ask", idx |-> 1, retry |-> 0, fresh |-> {}, timed |-> TRUE]]
  /\ seen = {}
  /\ legacy = [pc |-> "ask", known |-> FALSE, old |-> {}, out |-> {}]
  /\ queue = <<>>
  /\ orch = [retries |-> Retries, tried |-> {}]
  /\ handed = [t \in Tiers |-> [p \in Peers |-> 0]]
  /\ manager = TRUE
  /\ logger = TRUE
  /\ started = 1

----------------------------------------------------------------------------
(* The tasks of the tiers                                                  *)

\* A task that panicked does not come back.  Asking a tracker panics if the
\* URL has no host, if the body breaks off, if the answer has no peers, or if
\* the manager has stopped (UDP); the other places are named.
Dead == {"panicked", "no interval", "overflow", "no receiver"}

Tracker(t) == <<t, tier[t].idx>>

At(t, place) == mode = "tiers" /\ tier[t].pc = place

Moved(t, place) == [tier EXCEPT ![t].pc = place]

\* A tracker has not answered, or not properly: the next one is asked.
NextTracker(t) == [tier EXCEPT ![t].pc = "ask", ![t].idx = @ + 1, ![t].retry = @ + 1]

\* The answer names peers, and an interval or not.
Answered(t, peers, timed) ==
  [tier EXCEPT ![t].pc = "filter", ![t].fresh = peers, ![t].timed = timed]

\* An HTTP tracker.  Without the manager's statistics it is not asked.
AskHttp(t) ==
  /\ At(t, "ask") /\ tier[t].idx <= TierLen[t] /\ Tracker(t) \notin Udp
  /\ \/ tier' = NextTracker(t)
     \/ manager /\ tier' = Moved(t, "panicked")
     \/ manager /\ \E peers \in SUBSET Peers, timed \in BOOLEAN :
          tier' = Answered(t, peers, timed)
  /\ UNCHANGED <<mode, seen, legacy, queue, orch, handed, manager, logger, started>>

\* A UDP tracker: connect, then announce.  A datagram that is not the answer
\* to the request, duplicates of the one before included, fails the attempt.
ConnectUdp(t) ==
  /\ At(t, "ask") /\ tier[t].idx <= TierLen[t] /\ Tracker(t) \in Udp
  /\ tier' \in {NextTracker(t), Moved(t, "panicked"), Moved(t, "announce")}
  /\ UNCHANGED <<mode, seen, legacy, queue, orch, handed, manager, logger, started>>

AnnounceUdp(t) ==
  /\ At(t, "announce")
  /\ IF ~manager THEN tier' = Moved(t, "panicked")
     ELSE \/ tier' = NextTracker(t)
          \/ \E peers \in SUBSET Peers : tier' = Answered(t, peers, TRUE)
  /\ UNCHANGED <<mode, seen, legacy, queue, orch, handed, manager, logger, started>>

\* Variant: a task that panics leaves the lock taken, as a guard that is
\* forgotten would.
StuckLock == \E t \in Tiers : tier[t].pc \in {"send", "no interval"}

\* A task that panics drops its guard of the lock.
WriteLocked == \E t \in Tiers : tier[t].pc = "send"

\* retain: only peers at an address that is not in the list yet.
Unseen(peers) == {p \in peers : \A o \in seen : o[1] # p[1]}

Filter(t) ==
  /\ At(t, "filter") /\ ~WriteLocked
  /\ tier' = [tier EXCEPT ![t].pc = "extend", ![t].fresh = Unseen(@)]
  /\ UNCHANGED <<mode, seen, legacy, queue, orch, handed, manager, logger, started>>

\* Variant: the list is replaced, not extended.
Replaced(t) == tier[t].fresh

Extended(t) == seen \cup tier[t].fresh

\* The list is extended before the interval is looked at.
Extend(t) ==
  /\ At(t, "extend") /\ ~WriteLocked
  /\ seen' = Extended(t)
  /\ tier' = Moved(t, IF tier[t].timed THEN "send" ELSE "no interval")
  /\ UNCHANGED <<mode, legacy, queue, orch, handed, manager, logger, started>>

Receiving == orch.retries > 0

\* Variant: one message too many fits.
RoomPlusOne == Len(queue) <= ChannelCap

HasRoom == Len(queue) < ChannelCap

\* 5^tier_retry seconds, if that is a u32, unless the tracker gave a pause of
\* its own that is not 0.
Pause(t) == {"sleep"} \cup {place \in {"overflow"} : tier[t].retry > MaxExponent}

\* The lock is held until the channel has room, and released after.
Send(t) ==
  /\ At(t, "send")
  /\ \/ /\ Receiving /\ HasRoom
        /\ queue' = Append(queue, tier[t].fresh)
        /\ handed' = [handed EXCEPT ![t] =
                        [p \in Peers |-> @[p] + IF p \in tier[t].fresh THEN 1 ELSE 0]]
        /\ \E place \in Pause(t) :
             tier' = [tier EXCEPT ![t].pc = place, ![t].fresh = {}, ![t].timed = TRUE]
     \/ /\ ~Receiving
        /\ tier' = Moved(t, "no receiver")
        /\ UNCHANGED <<queue, handed>>
  /\ UNCHANGED <<mode, seen, legacy, orch, manager, logger, started>>

\* No tracker of the tier answered.
BackOff(t) ==
  /\ At(t, "ask") /\ tier[t].idx > TierLen[t]
  /\ \E place \in Pause(t) : tier' = Moved(t, place)
  /\ UNCHANGED <<mode, seen, legacy, queue, orch, handed, manager, logger, started>>

\* Variant: the failures of earlier rounds are not forgotten.
KeptRetry(t) == tier[t].retry

FirstRetry(t) == 0

Wake(t) ==
  /\ At(t, "sleep")
  /\ tier' = [tier EXCEPT ![t].pc = "ask", ![t].idx = 1, ![t].retry = FirstRetry(t)]
  /\ UNCHANGED <<mode, seen, legacy, queue, orch, handed, manager, logger, started>>

----------------------------------------------------------------------------
(* The single loop, if the torrent has no announce-list                    *)

\* Variant: an answer is remembered but news is not sent when there was one.
NothingNew(peers) == IF legacy.known THEN {} ELSE peers

\* What is new against the answer before.
News(peers) == IF legacy.known THEN peers \ legacy.old ELSE peers

\* An answer with peers; one without, or none, is asked for again.  The
\* first is sent as it is, a later one if it has news.
AskLegacy ==
  /\ mode = "legacy" /\ manager /\ legacy.pc = "ask"
  /\ \E peers \in SUBSET Peers :
       legacy' = [pc |-> IF legacy.known /\ News(peers) = {} THEN "ask" ELSE "send",
                  known |-> TRUE, old |-> peers, out |-> News(peers)]
  /\ UNCHANGED <<mode, tier, seen, queue, orch, handed, manager, logger, started>>

\* The loop panics as well when a body breaks off.
LegacyEnds ==
  /\ mode = "legacy" /\ manager /\ legacy.pc = "ask"
  /\ legacy' = [legacy EXCEPT !.pc = "panicked"]
  /\ UNCHANGED <<mode, tier, seen, queue, orch, handed, manager, logger, started>>

SendLegacy ==
  /\ mode = "legacy" /\ legacy.pc = "send" /\ HasRoom
  /\ queue' = Append(queue, legacy.out)
  /\ legacy' = [legacy EXCEPT !.pc = "ask", !.out = {}]
  /\ UNCHANGED <<mode, tier, seen, orch, handed, manager, logger, started>>

----------------------------------------------------------------------------
(* The orchestrator                                                        *)

\* Every answer resets the retries and starts a task per peer.
Receive ==
  /\ Receiving /\ queue # <<>>
  /\ orch' = [retries |-> Retries, tried |-> orch.tried \cup Head(queue)]
  /\ queue' = Tail(queue)
  /\ UNCHANGED <<mode, tier, seen, legacy, handed, manager, logger, started>>

\* The refresh keeps no sender for itself after it has started the tiers.
SendersGone ==
  IF mode = "tiers" THEN \A t \in Tiers : tier[t].pc \in Dead ELSE legacy.pc = "panicked"

Closed == queue = <<>> /\ SendersGone

ReceiveNone ==
  /\ Receiving /\ Closed
  /\ orch' = [orch EXCEPT !.retries = @ - 1]
  /\ UNCHANGED <<mode, tier, seen, legacy, queue, handed, manager, logger, started>>

----------------------------------------------------------------------------
(* The client actor and the other tasks it waits for                       *)

\* External: the manager's task panics.
ManagerStops ==
  /\ manager
  /\ manager' = FALSE
  /\ UNCHANGED <<mode, tier, seen, legacy, queue, orch, handed, logger, started>>

\* The logger unwraps what a stopped manager does not answer.
LoggerFails ==
  /\ logger /\ ~manager
  /\ logger' = FALSE
  /\ UNCHANGED <<mode, tier, seen, legacy, queue, orch, handed, manager, started>>

\* The refresh returns after starting the tiers; the single loop only panics.
RefreshEnded == mode = "tiers" \/ legacy.pc = "panicked"

\* Variant: the handler waits for the refresh and the logger only.
TwoJoined == RefreshEnded /\ ~logger

AllJoined == RefreshEnded /\ ~Receiving /\ ~logger

\* join_all has returned, and the actor takes the next AddTorret.
NextTorrent ==
  /\ started = 1 /\ AllJoined
  /\ started' = 2
  /\ UNCHANGED <<mode, tier, seen, legacy, queue, orch, handed, manager, logger>>

----------------------------------------------------------------------------

TierSteps(t) ==
  \/ AskHttp(t) \/ ConnectUdp(t) \/ AnnounceUdp(t)
  \/ Filter(t) \/ Extend(t) \/ Send(t) \/ BackOff(t) \/ Wake(t)

Next ==
  \/ \E t \in Tiers : TierSteps(t)
  \/ AskLegacy \/ LegacyEnds \/ SendLegacy
  \/ Receive \/ ReceiveNone
  \/ ManagerStops \/ LoggerFails \/ NextTorrent

Spec == Init /\ [][Next]_vars

\* The runtime polls every task that is ready.  The lock is fair: it queues
\* those who wait, so a task gets it though others take it again and again.
Fairness ==
  /\ \A t \in Tiers : SF_vars(Filter(t)) /\ SF_vars(Extend(t)) /\ WF_vars(Send(t))
  /\ WF_vars(SendLegacy)
  /\ WF_vars(Receive) /\ WF_vars(ReceiveNone)
  /\ WF_vars(LoggerFails) /\ WF_vars(NextTorrent)

FairSpec == Spec /\ Fairness

----------------------------------------------------------------------------
(* Properties                                                              *)

TypeOK ==
  /\ mode \in {"tiers", "legacy"}
  /\ tier \in [Tiers -> [pc : {"ask", "announce", "filter", "extend", "send", "sleep"} \cup Dead,
                         idx : Nat, retry : Nat, fresh : SUBSET Peers, timed : BOOLEAN]]
  /\ seen \subseteq Peers
  /\ legacy \in [pc : {"ask", "send", "panicked"}, known : BOOLEAN, old : SUBSET Peers, out : SUBSET Peers]
  /\ queue \in Seq(SUBSET Peers) /\ Len(queue) <= ChannelCap
  /\ orch \in [retries : 0 .. Retries, tried : SUBSET Peers]
  /\ handed \in [Tiers -> [Peers -> Nat]]
  /\ {manager, logger} \subseteq BOOLEAN
  /\ started \in {1, 2}

\* Tiers look at the list in one critical section and extend it in another,
\* so that two may hand the same peer on; but a tier never does so twice
\* (torrent_refresh.rs, lines 63-74).
OncePerTier == \A t \in Tiers, p \in Peers : handed[t][p] <= 1

InQueue == UNION {queue[k] : k \in DOMAIN queue}

\* A peer in the list is not asked for again by any tier.  So it must be on
\* its way to the orchestrator or have its task: only a tier that panicked
\* between extending the list and sending, for want of an interval, has
\* peers that nobody connects to (lines 69-74).  The single loop's last
\* answer is likewise taken care of (lines 117-135).
SeenIsHandedOn ==
  /\ \A p \in seen : \/ p \in InQueue \cup orch.tried
                     \/ \E t \in Tiers : tier[t].pc \in {"send", "no interval"} /\ p \in tier[t].fresh
  /\ legacy.old \subseteq legacy.out \cup InQueue \cup orch.tried

\* Tiers do not take each other down: no tier finds the orchestrator gone,
\* however many others have panicked, with the lock held or not, and a tier
\* small enough never overflows its back-off (lines 74, 80).
TierSurvives ==
  \A t \in Tiers :
    /\ tier[t].pc # "no receiver"
    /\ tier[t].pc = "overflow" => TierLen[t] > MaxExponent

\* The next torrent waits for the end of everything around the first: its
\* manager, every task that asks trackers, the orchestrator and the logger
\* (client_manager.rs, lines 72-99).
SecondTorrentWaits == started = 2 => ~manager /\ ~logger /\ ~Receiving /\ SendersGone

\* A new peer of a proper answer is connected to in the end, though others
\* hold the lock, a full channel delays the one who holds it, or tasks die
\* (lines 63-74).
EventuallyTried ==
  \A p \in Peers :
    (\/ \E t \in Tiers : tier[t].pc = "extend" /\ tier[t].timed /\ p \in tier[t].fresh
     \/ legacy.pc = "send" /\ p \in legacy.out) ~> p \in orch.tried

\* "wire it up to handle multiple torrents, the underlying services already
\* do" (README.md, lines 28-29): a torrent that was added is started.
EveryTorrentStarts == <>(started = 2)
=============================================================================
