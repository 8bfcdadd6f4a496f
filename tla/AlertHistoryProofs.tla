------------------------- MODULE AlertHistoryProofs -------------------------
(***************************************************************************)
(* What GET /alerts returns, for every MAX_HISTORY and any deliveries.     *)
(***************************************************************************)
EXTENDS AlertHistory, SequenceTheorems, TLAPS

HistoryInv == HistoryTypeOK /\ HistoryIsNewestFirst

(* The history after a delivery: the record first, then what was there, as *)
(* far as there is room.                                                   *)
LEMMA UnshiftTruncated ==
    ASSUME NEW S, NEW seq \in Seq(S), NEW record \in S, Len(seq) <= MaxHistory
    PROVE  LET after == Truncated(Unshift(record, seq))
           IN  /\ after \in Seq(S)
               /\ Len(after) = IF Len(seq) = MaxHistory THEN MaxHistory ELSE Len(seq) + 1
               /\ after[1] = record
               /\ \A i \in 2..Len(after) : after[i] = seq[i - 1]
<1> DEFINE longer == <<record>> \o seq
<1>1. /\ longer \in Seq(S) /\ Len(longer) = Len(seq) + 1
      /\ longer[1] = record
      /\ \A i \in 2..Len(longer) : longer[i] = seq[i - 1]
  OBVIOUS
<1>2. CASE Len(seq) = MaxHistory
  <2>1. Truncated(Unshift(record, seq)) = SubSeq(longer, 1, MaxHistory)
    BY <1>1, <1>2, HistoryAssumption DEF Truncated, Unshift
  <2>2. /\ SubSeq(longer, 1, MaxHistory) \in Seq(S)
        /\ Len(SubSeq(longer, 1, MaxHistory)) = MaxHistory
        /\ \A i \in 1..MaxHistory : SubSeq(longer, 1, MaxHistory)[i] = longer[i]
    <3> HIDE DEF longer
    <3> QED BY <1>1, <1>2, HistoryAssumption, SubSeqProperties
  <2> HIDE DEF longer
  <2> QED BY <1>1, <1>2, <2>1, <2>2, HistoryAssumption
<1>3. CASE Len(seq) # MaxHistory
  <2>1. Truncated(Unshift(record, seq)) = longer
    BY <1>1, <1>3, HistoryAssumption DEF Truncated, Unshift
  <2> HIDE DEF longer
  <2> QED BY <1>1, <1>3, <2>1
<1> QED BY <1>2, <1>3

(* A delivery keeps the history the newest of the deliveries. *)
LEMMA WebhookInv ==
    ASSUME HistoryInv, NEW n \in Notifications, Webhook(n)
    PROVE  HistoryInv'
<1>1. /\ history' \in Seq(Notifications)
      /\ Len(history') = IF Len(history) = MaxHistory THEN MaxHistory ELSE Len(history) + 1
      /\ history'[1] = n
      /\ \A i \in 2..Len(history') : history'[i] = history[i - 1]
  BY UnshiftTruncated DEF HistoryInv, HistoryTypeOK, Webhook
<1>2. /\ deliveries' \in Seq(Notifications)
      /\ Len(deliveries') = Len(deliveries) + 1
      /\ deliveries'[Len(deliveries) + 1] = n
      /\ \A i \in 1..Len(deliveries) : deliveries'[i] = deliveries[i]
  BY DEF HistoryInv, HistoryTypeOK, Webhook
<1>3. HistoryTypeOK'
  BY <1>1, <1>2, HistoryAssumption DEF HistoryInv, HistoryTypeOK, Webhook, Deliveries
<1>4. HistoryIsNewestFirst'
  <2> DEFINE d == Len(deliveries)
  <2>1. d \in Nat /\ Len(history) \in Nat
    BY DEF HistoryInv, HistoryTypeOK
  <2>2. /\ Len(history) = IF d < MaxHistory THEN d ELSE MaxHistory
        /\ \A i \in 1..Len(history) : history[i] = deliveries[d + 1 - i]
    BY DEF HistoryInv, HistoryIsNewestFirst
  <2>3. Len(history') = IF d + 1 < MaxHistory THEN d + 1 ELSE MaxHistory
    BY <1>1, <2>1, <2>2, HistoryAssumption
  <2>4. ASSUME NEW i \in 1..Len(history')
        PROVE  history'[i] = deliveries'[d + 2 - i]
    <3>1. CASE i = 1
      BY <3>1, <1>1, <1>2, <2>1
    <3>2. CASE i # 1
      <4>1. i - 1 \in 1..Len(history) /\ history'[i] = history[i - 1]
        BY <3>2, <2>1, <2>2, <2>3, <1>1, HistoryAssumption
      <4>2. history[i - 1] = deliveries[d + 2 - i] /\ d + 2 - i \in 1..d
        BY <4>1, <2>1, <2>2, HistoryAssumption
      <4> QED BY <4>1, <4>2, <1>2
    <3> QED BY <3>1, <3>2
  <2>5. \A i \in 1..Len(history') : history'[i] = deliveries'[Len(deliveries') + 1 - i]
    <3>1. \A i \in 1..Len(history') : Len(deliveries') + 1 - i = d + 2 - i
      BY <1>2, <2>1, <1>1
    <3> QED BY <2>4, <3>1
  <2>6. Len(history') = IF Len(deliveries') < MaxHistory THEN Len(deliveries') ELSE MaxHistory
    BY <1>2, <2>3
  <2>7. LET kept == IF Len(deliveries') < MaxHistory THEN Len(deliveries') ELSE MaxHistory
        IN  /\ Len(history') = kept
            /\ \A i \in 1..kept : history'[i] = deliveries'[Len(deliveries') + 1 - i]
    BY <2>5, <2>6
  <2> QED BY <2>7, Zenon DEF HistoryIsNewestFirst
<1> QED BY <1>3, <1>4 DEF HistoryInv

(* Every step preserves the invariant. *)
LEMMA HistoryStepInv == HistoryInv /\ [HistoryNext]_historyVars => HistoryInv'
<1> SUFFICES ASSUME HistoryInv, [HistoryNext]_historyVars PROVE HistoryInv'
  OBVIOUS
<1>1. ASSUME NEW n \in Notifications, Posts(n) \/ Answered(n) \/ DeliveryFails(n)
      PROVE  HistoryInv'
  <2>1. UNCHANGED <<history, deliveries, restarts>>
    BY <1>1 DEF Posts, Answered, DeliveryFails
  <2>2. delivery' \in [Notifications -> Deliveries] /\ delivered' \in 0..MaxDeliveries
    BY <1>1, HistoryAssumption
    DEF HistoryInv, HistoryTypeOK, Posts, Answered, DeliveryFails, Deliveries
  <2> QED BY <2>1, <2>2 DEF HistoryInv, HistoryTypeOK, HistoryIsNewestFirst
<1>2. CASE Restart
  BY <1>2, HistoryAssumption
  DEF HistoryInv, HistoryTypeOK, HistoryIsNewestFirst, Restart, Deliveries
<1>3. CASE UNCHANGED historyVars
  BY <1>3 DEF HistoryInv, HistoryTypeOK, HistoryIsNewestFirst, historyVars
<1> QED BY <1>1, <1>2, <1>3, WebhookInv DEF HistoryNext

(* The invariant of every delivery, retry and restart. *)
LEMMA HistoryInvariant == HistorySpec => []HistoryInv
<1>1. HistoryInit => HistoryInv
  BY HistoryAssumption
  DEF HistoryInit, HistoryInv, HistoryTypeOK, HistoryIsNewestFirst, Deliveries
<1> QED BY <1>1, HistoryStepInv, PTL DEF HistorySpec

(* The history never has more than MAX_HISTORY records, whatever is         *)
(* delivered again.                                                         *)
THEOREM HistoryTypeCorrect == HistorySpec => []HistoryTypeOK
<1>1. HistoryInv => HistoryTypeOK
  BY DEF HistoryInv
<1> QED BY <1>1, HistoryInvariant, PTL

(* GET /alerts returns the newest deliveries, newest first, over any retries *)
(* and restarts.                                                             *)
THEOREM HistoryCorrect == HistorySpec => []HistoryIsNewestFirst
<1>1. HistoryInv => HistoryIsNewestFirst
  BY DEF HistoryInv
<1> QED BY <1>1, HistoryInvariant, PTL
=============================================================================
