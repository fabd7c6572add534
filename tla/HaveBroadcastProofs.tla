------------------------- MODULE HaveBroadcastProofs -------------------------
(***************************************************************************)
(* Proofs about HaveBroadcast.  The invariant Rounds says, for each place  *)
(* of the writer, how often pieces below and above last_seen and seen were *)
(* announced; the counts of ToldAtMostTwice alone are not inductive.       *)
(***************************************************************************)
EXTENDS HaveBroadcast, SequenceTheorems, TLAPS

\* The marks are in order, and a waiting writer has caught up with what it saw.
Marks ==
  /\ subscribed <= last_seen
  /\ last_seen <= seen
  /\ pc # "send" => to_send = {}
  /\ pc \in {"start", "greeting"} => subscribed = 0 /\ seen = 0 /\ last_seen = 0
  /\ pc = "select" => last_seen = seen
  /\ \A k \in to_send : last_seen < k

\* What was announced how often.  A round starts with the pieces after
\* last_seen announced at most once, and those after seen not at all.
Counts ==
  \A k \in Pieces :
    /\ told[k] <= 2
    /\ k <= subscribed \/ k > len \/ pc \in {"start", "greeting"} => told[k] = 0
    /\ subscribed < k /\ k <= last_seen => told[k] > 0
    /\ pc \in {"select", "fetch"} /\ last_seen < k => told[k] <= 1
    /\ pc \in {"fetch", "send"} /\ seen < k => told[k] <= 1
    /\ pc = "fetch" /\ seen < k => told[k] = 0
    /\ pc = "send" /\ k \in to_send => told[k] <= 1 /\ (seen < k => told[k] = 0)
    /\ pc = "send" /\ k \notin to_send /\ last_seen < k /\ k <= seen => told[k] > 0

Rounds == TypeOK /\ Marks /\ Counts

\* Rounds is inductive (all handlers of the Wake::Have branch, lines 221-276).
LEMMA RoundsInit == Init => Rounds
<1> SUFFICES ASSUME Init PROVE Rounds
  OBVIOUS
<1> USE HaveBroadcastAssumptions DEF Init, Pieces
<1>1. TypeOK
  BY DEF TypeOK
<1>2. Marks
  BY DEF Marks
<1>3. Counts
  BY DEF Counts
<1> QED
  BY <1>1, <1>2, <1>3 DEF Rounds

LEMMA RoundsStep == Rounds /\ [Next]_vars => Rounds'
<1> SUFFICES ASSUME Rounds, [Next]_vars PROVE Rounds'
  OBVIOUS
<1> USE HaveBroadcastAssumptions
<1>rounds. TypeOK /\ Marks /\ Counts
  BY DEF Rounds
<1>1. CASE Finish
  <2> USE <1>1, <1>rounds DEF Finish, Pieces
  <2>1. TypeOK'
    BY DEF TypeOK
  <2>2. Marks'
    BY DEF Marks
  <2>3. Counts'
    BY DEF Counts, TypeOK
  <2> QED
    BY <2>1, <2>2, <2>3 DEF Rounds
<1>2. CASE AddPeer
  <2> USE <1>2, <1>rounds DEF AddPeer
  <2>1. TypeOK'
    BY DEF TypeOK
  <2>2. Marks'
    BY DEF Marks
  <2>3. Counts'
    BY DEF Counts
  <2> QED
    BY <2>1, <2>2, <2>3 DEF Rounds
<1>3. CASE Subscribe
  <2> USE <1>3, <1>rounds DEF Subscribe, FirstSeen, Pieces
  <2>1. TypeOK'
    BY DEF TypeOK
  <2>2. Marks'
    BY DEF Marks, TypeOK
  <2>3. Counts'
    BY DEF Counts, Marks, TypeOK
  <2> QED
    BY <2>1, <2>2, <2>3 DEF Rounds
<1>4. CASE Wake
  <2> USE <1>4, <1>rounds DEF Wake, Pieces
  <2>1. TypeOK'
    BY DEF TypeOK
  <2>2. Marks'
    BY DEF Marks, TypeOK
  <2>3. Counts'
    BY DEF Counts, Marks, TypeOK
  <2> QED
    BY <2>1, <2>2, <2>3 DEF Rounds
<1>5. CASE Fetch
  <2> USE <1>5, <1>rounds DEF Fetch, Progress, Pieces
  <2>1. TypeOK'
    BY DEF TypeOK
  <2>2. Marks'
    BY DEF Marks, TypeOK
  <2>3. Counts'
    BY DEF Counts, Marks, TypeOK
  <2> QED
    BY <2>1, <2>2, <2>3 DEF Rounds
<1>6. CASE SendHave
  <2>1. PICK k \in to_send : to_send' = to_send \ {k} /\ told' = [told EXCEPT ![k] = @ + 1]
    BY <1>6 DEF SendHave
  <2>2. UNCHANGED <<len, pc, greeting, subscribed, seen, last_seen>> /\ pc = "send"
    BY <1>6 DEF SendHave
  <2>3. k \in Pieces /\ told[k] \in Nat
    BY <1>rounds DEF TypeOK, Pieces
  <2>4. TypeOK'
    BY <1>rounds, <2>1, <2>2, <2>3 DEF TypeOK
  <2>5. Marks'
    BY <1>rounds, <2>1, <2>2 DEF Marks
  <2>6. \A j \in Pieces \ {k} : told'[j] = told[j] /\ (j \in to_send' <=> j \in to_send)
    BY <1>rounds, <2>1 DEF TypeOK
  <2>7. told'[k] = told[k] + 1 /\ k \notin to_send'
    BY <1>rounds, <2>1, <2>3 DEF TypeOK
  <2>8. told[k] <= 1 /\ (seen < k => told[k] = 0) /\ last_seen < k /\ subscribed < k /\ k <= len
    BY <1>rounds, <2>2, <2>3 DEF TypeOK, Marks, Counts
  <2> DEFINE Count(j) ==
        /\ told[j] <= 2
        /\ j <= subscribed \/ j > len \/ pc \in {"start", "greeting"} => told[j] = 0
        /\ subscribed < j /\ j <= last_seen => told[j] > 0
        /\ pc \in {"select", "fetch"} /\ last_seen < j => told[j] <= 1
        /\ pc \in {"fetch", "send"} /\ seen < j => told[j] <= 1
        /\ pc = "fetch" /\ seen < j => told[j] = 0
        /\ pc = "send" /\ j \in to_send => told[j] <= 1 /\ (seen < j => told[j] = 0)
        /\ pc = "send" /\ j \notin to_send /\ last_seen < j /\ j <= seen => told[j] > 0
  <2>9. \A j \in Pieces : Count(j)
    BY <1>rounds DEF Counts
  <2>10. ASSUME NEW j \in Pieces \ {k} PROVE Count(j)'
    BY <2>2, <2>6, <2>9
  <2>11. Count(k)'
    BY <1>rounds, <2>2, <2>3, <2>7, <2>8 DEF Pieces, TypeOK
  <2>12. Counts'
    BY <2>10, <2>11 DEF Counts, Pieces
  <2> QED
    BY <2>4, <2>5, <2>12 DEF Rounds
<1>7. CASE EndRound
  <2> USE <1>7, <1>rounds DEF EndRound, NextSince, Pieces
  <2>1. TypeOK'
    BY DEF TypeOK
  <2>2. Marks'
    BY DEF Marks, TypeOK
  <2>3. Counts'
    BY DEF Counts, Marks, TypeOK
  <2> QED
    BY <2>1, <2>2, <2>3 DEF Rounds
<1>8. CASE UNCHANGED vars
  BY <1>8 DEF vars, Rounds, TypeOK, Marks, Counts, Pieces
<1> QED
  BY <1>1, <1>2, <1>3, <1>4, <1>5, <1>6, <1>7, <1>8 DEF Next

LEMMA RoundsInductive == Spec => []Rounds
  BY RoundsInit, RoundsStep, PTL DEF Spec

\* The marks never pass the end of the log, so that the slice since.. that
\* the manager takes (torrent_manager.rs, line 353) is always in range.
THEOREM TypeCorrect == Spec => []TypeOK
<1>1. Rounds => TypeOK
  BY DEF Rounds
<1> QED
  BY <1>1, RoundsInductive, PTL

\* However pieces complete during a round, no peer is told of one more than
\* twice (lines 265-276).
THEOREM AtMostTwice == Spec => []ToldAtMostTwice
<1>1. Rounds => ToldAtMostTwice
  BY DEF Rounds, Counts, ToldAtMostTwice
<1> QED
  BY <1>1, RoundsInductive, PTL

\* Between rounds nothing since the subscription up to the length last seen
\* is left out, and nothing before it was announced (lines 265-276).
THEOREM NoGap == Spec => []RoundsLeaveNoGap
<1>1. Rounds => RoundsLeaveNoGap
  BY HaveBroadcastAssumptions DEF Rounds, TypeOK, Marks, Counts, RoundsLeaveNoGap, Pieces
<1> QED
  BY <1>1, RoundsInductive, PTL

----------------------------------------------------------------------------
(* The log as PieceLedger has it                                           *)

LEMMA LogGrows ==
  ASSUME NEW n \in Nat
  PROVE  Append([k \in 1 .. n |-> k], n + 1) = [k \in 1 .. n + 1 |-> k]
<1> DEFINE s == [k \in 1 .. n |-> k]
           t == [k \in 1 .. n + 1 |-> k]
<1>1. s \in Seq(Nat) /\ Len(s) = n
  OBVIOUS
<1>2. t \in Seq(Nat) /\ Len(t) = n + 1
  OBVIOUS
<1>3. Append(s, n + 1) \in Seq(Nat) /\ Len(Append(s, n + 1)) = n + 1
  BY <1>1
<1>4. \A k \in 1 .. n + 1 : Append(s, n + 1)[k] = t[k]
  BY <1>1
<1> HIDE DEF s, t
<1>5. Append(s, n + 1) = t
  BY <1>2, <1>3, <1>4, SeqEqual
<1> QED BY <1>5 DEF s, t

LEMMA LedgerStep ==
  ASSUME TypeOK, [Next]_vars
  PROVE  [Ledger!Next]_(Ledger!vars)
<1>1. CASE Finish
  <2>1. len \in Nat /\ len' = len + 1 /\ len + 1 \in Pieces
    BY <1>1, HaveBroadcastAssumptions DEF Finish, TypeOK, Pieces
  <2>2. PICK i \in Pieces : i = len + 1
    BY <2>1
  <2>3. 1 .. len' = 1 .. len \cup {i} /\ i \in Pieces \ 1 .. len
    BY <2>1, <2>2
  <2>4. [k \in 1 .. len' |-> k] = Append([k \in 1 .. len |-> k], i)
    BY <2>1, <2>2, LogGrows
  <2>5. Ledger!Store(i)
    BY <2>3, <2>4 DEF Ledger!Store
  <2> QED BY <2>3, <2>5 DEF Ledger!Next
<1>2. ASSUME UNCHANGED len PROVE UNCHANGED Ledger!vars
  BY <1>2 DEF Ledger!vars
<1>3. CASE AddPeer \/ Subscribe \/ Wake \/ Fetch \/ SendHave \/ EndRound \/ UNCHANGED vars
  BY <1>2, <1>3 DEF AddPeer, Subscribe, Wake, Fetch, SendHave, EndRound, vars
<1> QED BY <1>1, <1>3 DEF Next

\* The log that the writer follows is the ledger that TorrentManager keeps
\* while the disk works: nothing is taken from it and nothing is in it twice
\* (torrent_manager.rs, lines 263-276).
THEOREM FollowsTheLedger == Spec => LedgerSpec
<1>1. Init => Ledger!Init
  BY DEF Init, Ledger!Init
<1>2. TypeOK /\ [Next]_vars => [Ledger!Next]_(Ledger!vars)
  BY LedgerStep
<1> QED BY <1>1, <1>2, TypeCorrect, PTL DEF Spec, LedgerSpec, Ledger!Spec
=============================================================================
