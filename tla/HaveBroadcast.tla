--------------------------- MODULE HaveBroadcast ---------------------------
(***************************************************************************)
(* How one connection tells its peer which pieces we have: the bitfield    *)
(* that AddPeer returns goes out first, and after that the writer sends a  *)
(* Have for every new entry of the manager's log, of whose length a watch  *)
(* channel informs it.  The writer reads the channel and asks the manager  *)
(* for the entries in separate steps, while pieces go on completing.       *)
(* Pieces are numbered in the order in which they complete.                *)
(***************************************************************************)
EXTENDS Integers, FiniteSets

CONSTANT NumPieces

ASSUME HaveBroadcastAssumptions == NumPieces \in Nat

Pieces == 1 .. NumPieces

VARIABLES
  len,         \* downloaded_piece_index.len(), also the value of the channel
  pc,          \* where the writer is
  greeting,    \* the pieces in the bitfield are those up to here
  subscribed,  \* the log's length when the writer first read the channel
  seen,        \* the length the channel showed this writer last
  last_seen,
  to_send,     \* Have messages still to be sent in this round
  told         \* how often the peer was told of a piece by a Have

vars == <<len, pc, greeting, subscribed, seen, last_seen, to_send, told>>

Init ==
  /\ len = 0
  /\ pc = "start"
  /\ greeting = 0 /\ subscribed = 0 /\ seen = 0 /\ last_seen = 0
  /\ to_send = {}
  /\ told = [k \in Pieces |-> 0]

\* The manager flushed a piece, logs it and publishes the new length.
Finish ==
  /\ len < NumPieces
  /\ len' = len + 1
  /\ UNCHANGED <<pc, greeting, subscribed, seen, last_seen, to_send, told>>

\* AddPeer: the reply is a copy of the local bitfield.
AddPeer ==
  /\ pc = "start"
  /\ pc' = "greeting"
  /\ greeting' = len
  /\ UNCHANGED <<len, subscribed, seen, last_seen, to_send, told>>

\* Variant: one further than the log reaches.
PastTheLog == len + 1

FirstSeen == len

\* The writer has sent the bitfield and starts to follow the channel.
Subscribe ==
  /\ pc = "greeting"
  /\ pc' = "select"
  /\ subscribed' = len
  /\ seen' = len
  /\ last_seen' = FirstSeen
  /\ UNCHANGED <<len, greeting, to_send, told>>

\* changed() is ready; borrow_and_update gives the current length.
Wake ==
  /\ pc = "select"
  /\ seen # len
  /\ seen' = len
  /\ pc' = "fetch"
  /\ UNCHANGED <<len, greeting, subscribed, last_seen, to_send, told>>

\* Variant: the entries after the length that the channel showed.
AfterSeen == seen + 1 .. len

\* downloaded_piece_index[since..] when the manager handles the request.
Progress == last_seen + 1 .. len

Fetch ==
  /\ pc = "fetch"
  /\ pc' = "send"
  /\ to_send' = Progress
  /\ UNCHANGED <<len, greeting, subscribed, seen, last_seen, told>>

SendHave ==
  /\ pc = "send"
  /\ \E k \in to_send :
       /\ \A j \in to_send : k <= j
       /\ to_send' = to_send \ {k}
       /\ told' = [told EXCEPT ![k] = @ + 1]
  /\ UNCHANGED <<len, pc, greeting, subscribed, seen, last_seen>>

\* Variant: the next round starts where this one did.
SameSince == last_seen

\* Variant: the next round starts after what is logged by now.
LoggedSince == len

NextSince == seen

EndRound ==
  /\ pc = "send" /\ to_send = {}
  /\ pc' = "select"
  /\ last_seen' = NextSince
  /\ UNCHANGED <<len, greeting, subscribed, seen, to_send, told>>

Next == Finish \/ AddPeer \/ Subscribe \/ Wake \/ Fetch \/ SendHave \/ EndRound

Spec == Init /\ [][Next]_vars

\* The writer's select! takes a branch that stays ready, and no send blocks
\* for ever.
FairSpec == Spec /\ WF_vars(Wake \/ Fetch \/ SendHave \/ EndRound)

----------------------------------------------------------------------------
(* Properties                                                              *)

TypeOK ==
  /\ len \in 0 .. NumPieces
  /\ pc \in {"start", "greeting", "select", "fetch", "send"}
  /\ {greeting, subscribed, seen, last_seen} \subseteq 0 .. len
  /\ to_send \subseteq 1 .. len
  /\ told \in [Pieces -> Nat]

\* However many pieces complete between the read of the channel and the
\* manager's answer, the peer is told of a piece at most twice: a round may
\* repeat what the one before it fetched early, and no more (lines 265-276).
ToldAtMostTwice == \A k \in Pieces : told[k] <= 2

\* Between rounds, the log up to the length last seen was announced, from
\* the writer's subscription on, and nothing that was logged before it.
RoundsLeaveNoGap ==
  /\ pc = "select" => \A k \in subscribed + 1 .. seen : told[k] > 0
  /\ \A k \in 1 .. subscribed : told[k] = 0

\* Every piece completed after the subscription is announced in the end,
\* also when it completes while a round is under way (lines 265-276).
EventuallyTold ==
  \A k \in Pieces :
    (pc \in {"select", "fetch", "send"} /\ subscribed < k /\ k <= len) ~> told[k] > 0

\* The log is "of all the pieces we have downloaded in order to enable the
\* Have message sender" and "any contention causing old read is fine"
\* (torrent_manager.rs, lines 33-34): a peer that is up to date with the
\* channel knows of every piece, by the bitfield or by a Have.
PeerIsUpToDate ==
  pc = "select" /\ seen = len => \A k \in greeting + 1 .. len : told[k] > 0

\* The log that the connection follows is the ledger of TorrentManager, with
\* the pieces by their place in it (torrent_manager.rs, lines 263-276).
Ledger == INSTANCE PieceLedger WITH
  have <- 1 .. len, log <- [k \in 1 .. len |-> k], broken <- FALSE

LedgerSpec == Ledger!Spec
=============================================================================
