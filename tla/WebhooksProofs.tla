--------------------------- MODULE WebhooksProofs ---------------------------
(***************************************************************************)
(* Webhooks for any deliveries, replays, retries and time-outs, from       *)
(* the inductive invariant WebhookInv: a delivery that may still write a   *)
(* dead letter has not written that row yet (RowAhead), the age of its     *)
(* signature is bounded by the attempts it has made, and a row about to be *)
(* marked resolved was confirmed by the receiver or by an operator.        *)
(***************************************************************************)
EXTENDS Webhooks, FiniteSetTheorems, TLAPS

\* One more outcome.
LEMMA OneMore ==
  ASSUME NEW a \in Nat, NEW b \in Nat
  PROVE  (a + 1) + b = a + b + 1
OBVIOUS

\* The types of the configuration.
LEMMA WebhookConstants ==
  /\ MaxRetries \in Nat /\ BaseDelay \in Nat /\ MaxDelay \in Nat /\ Timeout \in Nat
  /\ JobRetries \in Nat /\ Tolerances \subseteq Nat
  /\ AgePerRetry \in Nat /\ WorstAge \in Nat
  /\ \A p \in Paths : p \in [Deliveries -> {"emit", "job", "writer"}]
  /\ \A k \in Kinds : k \in [Replays -> {"one", "batch", "job", "resolve"}]
<1>1. /\ MaxRetries \in Nat /\ BaseDelay \in Nat /\ MaxDelay \in Nat /\ Timeout \in Nat
      /\ JobRetries \in Nat /\ Tolerances \subseteq Nat
  BY WebhookAssumption
<1>2. AgePerRetry \in Nat
  BY <1>1 DEF AgePerRetry
<1>3. WorstAge \in Nat
  BY <1>1, <1>2 DEF WorstAge
<1> QED BY Zenon, <1>1, <1>2, <1>3, WebhookAssumption

\* Whatever the jitter, the sleep before a retry stays within a fifth above the cap.
LEMMA SleepBound ==
  ASSUME NEW n \in Nat, NEW s \in Jittered(Backoff(n))
  PROVE  s \in Int /\ s <= (6 * MaxDelay) \div 5
<1> DEFINE d == Backoff(n)
<1>1. BaseDelay * 2 ^ n \in Int
  <2>1. 2 ^ n \in Int
    OBVIOUS
  <2> QED BY <2>1, WebhookConstants
<1>2. d \in Int /\ d <= MaxDelay
  BY <1>1, WebhookConstants DEF Backoff, Least
<1>3. s \in ((4 * d) \div 5)..((6 * d) \div 5)
  BY DEF Jittered
<1> HIDE DEF d
<1> QED BY <1>2, <1>3, WebhookConstants

\* A delivery has finitely many rows, and one that is new adds one to them.
LEMMA RowsCounted ==
  ASSUME rows \subseteq Ids, NEW d \in Deliveries
  PROVE  /\ IsFiniteSet(RowsOf(d)) /\ Cardinality(RowsOf(d)) \in Nat
         /\ \A id \in Ids : id[1] = d /\ id \notin rows =>
              Cardinality(RowsOf(d) \cup {id}) = Cardinality(RowsOf(d)) + 1
<1> DEFINE all == {d} \X (1..(JobRetries + 1))
<1>0. JobRetries + 1 \in Int /\ 1 \in Int
  BY WebhookConstants
<1>1. IsFiniteSet(1..(JobRetries + 1)) /\ IsFiniteSet({d})
  BY Zenon, <1>0, FS_Interval, FS_Singleton
<1>2. IsFiniteSet(all)
  BY Zenon, <1>1, FS_Product
<1>3. RowsOf(d) \in SUBSET all
  BY DEF RowsOf, Ids
<1>4. IsFiniteSet(RowsOf(d))
  BY <1>2, <1>3, FS_Subset
<1>5. Cardinality(RowsOf(d)) \in Nat
  BY <1>4, FS_CardinalityType
<1>6. ASSUME NEW id \in Ids, id \notin rows PROVE Cardinality(RowsOf(d) \cup {id}) = Cardinality(RowsOf(d)) + 1
  <2>1. id \notin RowsOf(d)
    BY <1>6 DEF RowsOf
  <2> QED BY Zenon, <1>4, <2>1, FS_AddElement
<1> QED BY <1>4, <1>5, <1>6

\* Nothing is under way.
LEMMA WebhookStart == Init => WebhookInv
<1> SUFFICES ASSUME Init PROVE WebhookInv
  OBVIOUS
<1> USE WebhookConstants
<1>1. WebhookTypeOK
  <2>1. /\ pc \in [Deliveries -> DeliveryLabels] /\ at \in [Replays -> ReplayLabels]
        /\ attempt \in [Deliveries -> 0..MaxRetries] /\ age \in [Deliveries -> Int]
        /\ jobTry \in [Deliveries -> 0..(JobRetries + 1)]
    BY DEF Init, DeliveryLabels, ReplayLabels
  <2>2. /\ todo \in [Replays -> SUBSET Ids] /\ row \in [Replays -> SUBSET Ids] /\ redo \in [Replays -> Nat]
        /\ ended \in [Deliveries -> Nat] /\ ok \in [Deliveries -> Nat] /\ lost \in [Deliveries -> Nat]
    BY DEF Init, NoRow
  <2>3. refused \in BOOLEAN
    BY Zenon DEF Init
  <2> QED BY <2>1, <2>2, <2>3 DEF Init, WebhookTypeOK
<1>2. \A d \in Deliveries : RowsOf(d) = {}
  BY DEF Init, RowsOf
<1>3. OneOutcome
  <2>1. \A d \in Deliveries : Cardinality(RowsOf(d)) = 0
    BY <1>2, FS_EmptySet
  <2>2. \A d \in Deliveries : ok[d] = 0 /\ lost[d] = 0 /\ ended[d] = 0
    BY DEF Init
  <2> QED BY <2>1, <2>2 DEF OneOutcome
<1>4. \A d \in Deliveries : RowAhead(d)
  BY <1>2 DEF Init, RowAhead
<1>5. \A d \in Deliveries : age[d] <= attempt[d] * AgePerRetry
  BY DEF Init
<1> QED BY <1>1, <1>3, <1>4, <1>5 DEF Init, WebhookInv, FreshEnough, Justified

\* A step of one delivery preserves the invariant if that delivery is in order after it.
LEMMA OneDelivery ==
  ASSUME WebhookInv, WebhookTypeOK', NEW d \in Deliveries,
         UNCHANGED <<given, replay, resolved, rowHistory>>,
         \A e \in Deliveries \ {d} :
           /\ pc'[e] = pc[e] /\ attempt'[e] = attempt[e] /\ age'[e] = age[e] /\ jobTry'[e] = jobTry[e]
           /\ ended'[e] = ended[e] /\ ok'[e] = ok[e] /\ lost'[e] = lost[e] /\ RowsOf(e)' = RowsOf(e),
         RowAhead(d)', age'[d] <= attempt'[d] * AgePerRetry,
         path[d] \in {"emit", "job"} =>
           ok'[d] + Cardinality(RowsOf(d)') + lost'[d] = ended'[d],
         FreshEnough'
  PROVE  WebhookInv'
<1>1. \A e \in Deliveries : RowAhead(e)'
  <2> SUFFICES ASSUME NEW e \in Deliveries \ {d} PROVE RowAhead(e)'
    OBVIOUS
  <2>1. RowAhead(e) /\ path' = path
    BY DEF WebhookInv, given
  <2> QED BY Zenon, <2>1 DEF RowAhead
<1>2. \A e \in Deliveries : age'[e] <= attempt'[e] * AgePerRetry
  BY DEF WebhookInv
<1>3. OneOutcome'
  BY DEF WebhookInv, OneOutcome, given
<1>4. \A r \in Replays : Justified(r)'
  BY DEF WebhookInv, Justified, given, replay, rowHistory
<1>5. (resolved \subseteq confirmed \cup manual)'
  BY DEF WebhookInv, rowHistory
<1> QED BY Zenon, <1>1, <1>2, <1>3, <1>4, <1>5 DEF WebhookInv

\* Steps that move a delivery and write nothing.
LEMMA QuietDelivery ==
  ASSUME WebhookInv, NEW d \in Deliveries,
         UNCHANGED <<given, replay, table, faults, deliveryHistory, rowHistory>>,
         pc' \in [Deliveries -> DeliveryLabels], attempt' \in [Deliveries -> 0..MaxRetries],
         age' \in [Deliveries -> Int], jobTry' \in [Deliveries -> 0..(JobRetries + 1)], refused' \in BOOLEAN,
         \A e \in Deliveries \ {d} :
           pc'[e] = pc[e] /\ attempt'[e] = attempt[e] /\ age'[e] = age[e] /\ jobTry'[e] = jobTry[e],
         FreshEnough', age'[d] <= attempt'[d] * AgePerRetry,
         path[d] = "job" =>
           /\ pc'[d] = "idle" => jobTry'[d] <= JobRetries
           /\ pc'[d] \in {"send", "dead"} => jobTry'[d] > 0
           /\ \A id \in RowsOf(d) : id[2] <= jobTry'[d] /\ (pc'[d] \in {"send", "dead"} => id[2] < jobTry'[d]),
         path[d] = "emit" => RowsOf(d) = {} \/ pc'[d] = "done",
         path[d] = "writer" => pc'[d] \in {"idle", "done"}
  PROVE  WebhookInv'
<1>1. WebhookTypeOK'
  BY Zenon DEF WebhookInv, WebhookTypeOK, given, replay, table, deliveryHistory, rowHistory
<1>2. \A e \in Deliveries : RowsOf(e)' = RowsOf(e)
  BY DEF RowsOf, table
<1>3. path' = path
  BY DEF given
<1>4. RowAhead(d)'
  BY <1>2, <1>3 DEF RowAhead
<1>5. path[d] \in {"emit", "job"} => ok'[d] + Cardinality(RowsOf(d)') + lost'[d] = ended'[d]
  BY <1>2 DEF WebhookInv, OneOutcome, deliveryHistory
<1>6. UNCHANGED <<given, replay, resolved, rowHistory>>
  BY DEF table
<1>7. \A e \in Deliveries \ {d} :
           /\ pc'[e] = pc[e] /\ attempt'[e] = attempt[e] /\ age'[e] = age[e] /\ jobTry'[e] = jobTry[e]
           /\ ended'[e] = ended[e] /\ ok'[e] = ok[e] /\ lost'[e] = lost[e] /\ RowsOf(e)' = RowsOf(e)
  BY <1>2 DEF deliveryHistory
<1> QED BY Zenon, <1>1, <1>4, <1>5, <1>6, <1>7, OneDelivery

\* What the invariant says of the types of one delivery.
LEMMA DeliveryTypes ==
  ASSUME WebhookInv, NEW d \in Deliveries
  PROVE  /\ pc[d] \in DeliveryLabels /\ attempt[d] \in 0..MaxRetries /\ age[d] \in Int
         /\ jobTry[d] \in 0..(JobRetries + 1) /\ path[d] \in {"emit", "job", "writer"}
         /\ ended[d] \in Nat /\ ok[d] \in Nat /\ lost[d] \in Nat /\ tolerance \in Nat
         /\ refused \in BOOLEAN /\ faults \in Nat
         /\ pc \in [Deliveries -> DeliveryLabels] /\ attempt \in [Deliveries -> 0..MaxRetries]
         /\ age \in [Deliveries -> Int] /\ jobTry \in [Deliveries -> 0..(JobRetries + 1)]
         /\ \A id \in RowsOf(d) : id[2] \in Nat /\ id[1] = d
  BY WebhookConstants DEF WebhookInv, WebhookTypeOK, RowsOf, Ids

\* Looking up, starting, retrying, giving up and being refused leave the tries as they are.
LEMMA SendingSteps ==
  ASSUME WebhookInv, NEW d \in Deliveries, NEW res \in Results,
         EmitLooksUp(d) \/ JobStarts(d) \/ RequestRetried(d, res) \/ RequestFailed(d, res) \/ RequestRefused(d)
  PROVE  WebhookInv'
<1>0. /\ pc[d] \in DeliveryLabels /\ attempt[d] \in 0..MaxRetries /\ age[d] \in Int
      /\ jobTry[d] \in 0..(JobRetries + 1) /\ path[d] \in {"emit", "job", "writer"}
      /\ ended[d] \in Nat /\ ok[d] \in Nat /\ lost[d] \in Nat /\ tolerance \in Nat
      /\ refused \in BOOLEAN /\ faults \in Nat
      /\ pc \in [Deliveries -> DeliveryLabels] /\ attempt \in [Deliveries -> 0..MaxRetries]
      /\ age \in [Deliveries -> Int] /\ jobTry \in [Deliveries -> 0..(JobRetries + 1)]
      /\ \A id \in RowsOf(d) : id[2] \in Nat /\ id[1] = d
      /\ MaxRetries \in Nat /\ MaxDelay \in Nat /\ Timeout \in Nat /\ JobRetries \in Nat /\ AgePerRetry \in Nat
  BY DeliveryTypes, WebhookConstants
<1> USE <1>0
<1>1. RowAhead(d) /\ age[d] <= attempt[d] * AgePerRetry /\ FreshEnough
  BY DEF WebhookInv
<1>2. UNCHANGED <<given, replay, table, faults, deliveryHistory, rowHistory>>
  BY DEF EmitLooksUp, JobStarts, RequestRetried, RequestFailed, RequestRefused
<1>3. UNCHANGED refused => FreshEnough'
  BY <1>1, <1>2 DEF FreshEnough, given
<1>4. DeliveryLabels = {"idle", "tenant", "send", "dead", "done", "gone"}
  BY DEF DeliveryLabels
<1>5. CASE EmitLooksUp(d)
  <2>1. path[d] = "emit" /\ UNCHANGED <<jobTry, refused>> /\ pc[d] \in {"idle", "tenant"}
    BY <1>5 DEF EmitLooksUp
  <2>2. PICK l \in {"tenant", "send", "gone"} : pc' = [pc EXCEPT ![d] = l]
    BY <1>5 DEF EmitLooksUp, Goto
  <2>3. \/ UNCHANGED <<attempt, age>>
        \/ attempt' = [attempt EXCEPT ![d] = 0] /\ age' = [age EXCEPT ![d] = 0]
    BY <1>5 DEF EmitLooksUp
  <2>4. age'[d] <= attempt'[d] * AgePerRetry
    BY <1>1, <2>3
  <2>5. /\ attempt' \in [Deliveries -> 0..MaxRetries] /\ age' \in [Deliveries -> Int]
        /\ pc' \in [Deliveries -> DeliveryLabels] /\ pc'[d] = l
        /\ \A e \in Deliveries \ {d} : pc'[e] = pc[e] /\ attempt'[e] = attempt[e] /\ age'[e] = age[e]
    BY <1>4, <2>2, <2>3
  <2>6. RowsOf(d) = {}
    BY <1>1, <2>1 DEF RowAhead
  <2> QED BY Zenon, <1>2, <1>3, <2>1, <2>4, <2>5, <2>6, QuietDelivery
<1>6. CASE JobStarts(d)
  <2>1. path[d] = "job" /\ pc[d] = "idle" /\ UNCHANGED refused
    BY <1>6 DEF JobStarts
  <2>2. /\ pc' = [pc EXCEPT ![d] = "send"] /\ attempt' = [attempt EXCEPT ![d] = 0]
        /\ age' = [age EXCEPT ![d] = 0] /\ jobTry' = [jobTry EXCEPT ![d] = jobTry[d] + 1]
    BY <1>6 DEF JobStarts, Goto
  <2>3. jobTry[d] + 1 \in 0..(JobRetries + 1)
    BY <1>1, <2>1 DEF RowAhead
  <2>4. /\ attempt' \in [Deliveries -> 0..MaxRetries] /\ age' \in [Deliveries -> Int]
        /\ pc' \in [Deliveries -> DeliveryLabels] /\ jobTry' \in [Deliveries -> 0..(JobRetries + 1)]
        /\ pc'[d] = "send" /\ attempt'[d] = 0 /\ age'[d] = 0 /\ jobTry'[d] = jobTry[d] + 1
        /\ \A e \in Deliveries \ {d} : pc'[e] = pc[e] /\ attempt'[e] = attempt[e] /\ age'[e] = age[e]
             /\ jobTry'[e] = jobTry[e]
    BY <1>4, <2>2, <2>3
  <2>5. jobTry'[d] > 0 /\ age'[d] <= attempt'[d] * AgePerRetry
    BY <2>4
  <2>6. \A id \in RowsOf(d) : id[2] < jobTry'[d] /\ id[2] <= jobTry'[d]
    BY <1>1, <2>1, <2>4 DEF RowAhead
  <2> QED BY Zenon, <1>2, <1>3, <2>1, <2>4, <2>5, <2>6, QuietDelivery
<1>7. CASE RequestRetried(d, res)
  <2>1. pc[d] = "send" /\ attempt[d] < MaxRetries /\ UNCHANGED <<pc, jobTry, refused>>
    BY <1>7 DEF RequestRetried
  <2>2. PICK s \in Jittered(Backoff(attempt[d])) :
          age' = [age EXCEPT ![d] = IF path[d] = "job" THEN 0 ELSE @ + Took(res) + s]
    BY Zenon, <1>7 DEF RequestRetried
  <2>3. s \in Int /\ s <= (6 * MaxDelay) \div 5
    BY SleepBound
  <2>4. Took(res) \in Nat /\ Took(res) <= Timeout
    BY DEF Took
  <2> DEFINE more == attempt[d] * AgePerRetry
  <2>5. (attempt[d] + 1) * AgePerRetry = more + AgePerRetry /\ more \in Nat
    <3>1. attempt[d] \in Nat /\ AgePerRetry \in Nat
      OBVIOUS
    <3> HIDE <1>0
    <3> QED BY <3>1
  <2>6. age[d] <= more
    BY <1>1
  <2> HIDE DEF more
  <2>7. age' \in [Deliveries -> Int] /\ age'[d] <= more + AgePerRetry
    <3>1. age'[d] \in {0, age[d] + Took(res) + s} /\ age' \in [Deliveries -> Int]
      BY <2>2, <2>3, <2>4
    <3> QED BY <2>3, <2>4, <2>5, <2>6, <3>1 DEF AgePerRetry
  <2>8. attempt' = [attempt EXCEPT ![d] = attempt[d] + 1]
    BY Zenon, <1>7 DEF RequestRetried
  <2>9. attempt' \in [Deliveries -> 0..MaxRetries] /\ attempt'[d] = attempt[d] + 1
    BY <2>1, <2>8
  <2>10. age'[d] <= attempt'[d] * AgePerRetry
    BY Zenon, <2>5, <2>7, <2>9
  <2>11. /\ path[d] = "job" => /\ jobTry[d] > 0
                               /\ \A id \in RowsOf(d) : id[2] <= jobTry[d] /\ id[2] < jobTry[d]
         /\ path[d] = "emit" => RowsOf(d) = {}
         /\ path[d] # "writer"
    BY Zenon, <1>1, <2>1 DEF RowAhead
  <2>12. \A e \in Deliveries \ {d} : pc'[e] = pc[e] /\ attempt'[e] = attempt[e] /\ age'[e] = age[e]
           /\ jobTry'[e] = jobTry[e]
    BY Zenon, <2>1, <2>2, <2>8
  <2> QED BY Zenon, <1>2, <1>3, <2>1, <2>7, <2>9, <2>10, <2>11, <2>12, QuietDelivery
<1>8. CASE RequestFailed(d, res) \/ RequestRefused(d)
  <2>1. pc[d] = "send" /\ UNCHANGED <<attempt, age, jobTry>> /\ pc' = [pc EXCEPT ![d] = "dead"]
          /\ refused' \in BOOLEAN
    BY Zenon, <1>8 DEF RequestFailed, RequestRefused, Goto
  <2>2. FreshEnough'
    <3>1. CASE RequestFailed(d, res)
      BY <1>3, <3>1 DEF RequestFailed
    <3>2. CASE RequestRefused(d)
      <4>1. tolerance < age[d] /\ tolerance' = tolerance
        BY <3>2 DEF RequestRefused, verifySignature, given
      <4>2. attempt[d] * AgePerRetry <= WorstAge /\ attempt[d] * AgePerRetry \in Nat
        <5>1. attempt[d] \in Nat /\ attempt[d] <= MaxRetries
          OBVIOUS
        <5> QED BY <5>1 DEF WorstAge
      <4>3. tolerance < WorstAge
        BY <1>1, <4>1, <4>2, WebhookConstants
      <4> QED BY <4>1, <4>3, WebhookConstants DEF FreshEnough
    <3> QED BY Zenon, <1>8, <3>1, <3>2
  <2>3. /\ path[d] = "job" => /\ jobTry[d] > 0
                              /\ \A id \in RowsOf(d) : id[2] <= jobTry[d] /\ id[2] < jobTry[d]
        /\ path[d] = "emit" => RowsOf(d) = {}
        /\ path[d] # "writer"
    BY <1>1, <2>1 DEF RowAhead
  <2>4. /\ pc' \in [Deliveries -> DeliveryLabels] /\ pc'[d] = "dead"
        /\ \A e \in Deliveries \ {d} : pc'[e] = pc[e]
    BY <1>4, <2>1
  <2> QED BY Zenon, <1>1, <1>2, <2>1, <2>2, <2>3, <2>4, QuietDelivery
<1> QED BY Zenon, <1>5, <1>6, <1>7, <1>8

\* A try that comes to an end leaves one trace: a 2xx, a row that was not there, or
\* an insert that failed.
LEMMA EndingSteps ==
  ASSUME WebhookInv, NEW d \in Deliveries,
         Delivered(d) \/ WriteDeadLetter(d) \/ ServiceWritesDeadLetter(d)
  PROVE  WebhookInv'
<1>0. /\ pc[d] \in DeliveryLabels /\ attempt[d] \in 0..MaxRetries /\ age[d] \in Int
      /\ jobTry[d] \in 0..(JobRetries + 1) /\ path[d] \in {"emit", "job", "writer"}
      /\ ended[d] \in Nat /\ ok[d] \in Nat /\ lost[d] \in Nat /\ tolerance \in Nat
      /\ refused \in BOOLEAN /\ faults \in Nat
      /\ pc \in [Deliveries -> DeliveryLabels] /\ attempt \in [Deliveries -> 0..MaxRetries]
      /\ age \in [Deliveries -> Int] /\ jobTry \in [Deliveries -> 0..(JobRetries + 1)]
      /\ \A id \in RowsOf(d) : id[2] \in Nat /\ id[1] = d
      /\ MaxRetries \in Nat /\ MaxDelay \in Nat /\ Timeout \in Nat /\ JobRetries \in Nat /\ AgePerRetry \in Nat
  BY Zenon, DeliveryTypes, WebhookConstants
<1>1. RowAhead(d) /\ age[d] <= attempt[d] * AgePerRetry /\ FreshEnough /\ WebhookTypeOK
  BY DEF WebhookInv
<1>2. UNCHANGED <<given, replay, resolved, rowHistory, attempt, age, jobTry, refused>> /\ path' = path
  BY DEF Delivered, WriteDeadLetter, AfterDeadLetter, ServiceWritesDeadLetter, table, given
<1>3. FreshEnough'
  BY <1>1, <1>2 DEF FreshEnough, given
<1>t. ended \in [Deliveries -> Nat] /\ ok \in [Deliveries -> Nat] /\ lost \in [Deliveries -> Nat]
        /\ rows \subseteq Ids
  BY <1>1 DEF WebhookTypeOK
<1>d. WriteDeadLetter(d) =>
        DeadRow(d) \in Ids \ rows /\ DeadRow(d)[1] = d /\ (path[d] = "job" => DeadRow(d)[2] <= jobTry[d])
  <2> SUFFICES ASSUME WriteDeadLetter(d)
               PROVE  DeadRow(d) \in Ids \ rows /\ DeadRow(d)[1] = d
                 /\ (path[d] = "job" => DeadRow(d)[2] <= jobTry[d])
    OBVIOUS
  <2>1. pc[d] = "dead"
    BY DEF WriteDeadLetter
  <2>2. DeadRow(d) \in Ids /\ DeadRow(d)[1] = d /\ (path[d] = "job" => DeadRow(d)[2] = jobTry[d])
    BY <1>0, <1>1, <2>1 DEF DeadRow, RowAhead, Ids
  <2>3. DeadRow(d) \notin RowsOf(d)
    BY <1>0, <1>1, <2>1, <2>2 DEF RowAhead
  <2> QED BY <1>0, <2>2, <2>3 DEF RowsOf
<1>a. /\ pc' \in [Deliveries -> DeliveryLabels] /\ \A e \in Deliveries \ {d} : pc'[e] = pc[e]
      /\ pc'[d] = "done" \/ (pc'[d] = "idle" /\ path[d] = "job" /\ jobTry[d] <= JobRetries)
  <2>1. PICK l \in {"idle", "done"} : /\ pc' = [pc EXCEPT ![d] = l]
                                      /\ l = "idle" => path[d] = "job" /\ jobTry[d] <= JobRetries
    BY DEF Delivered, WriteDeadLetter, AfterDeadLetter, ServiceWritesDeadLetter, Goto
  <2>2. l \in DeliveryLabels
    BY DEF DeliveryLabels
  <2>3. pc' \in [Deliveries -> DeliveryLabels] /\ pc'[d] = l /\ \A e \in Deliveries \ {d} : pc'[e] = pc[e]
    BY <1>0, <2>1, <2>2
  <2> QED BY Zenon, <2>1, <2>3
<1>b. /\ ok' \in [Deliveries -> Nat] /\ lost' \in [Deliveries -> Nat] /\ ended' \in [Deliveries -> Nat]
           /\ faults' \in Nat
      /\ \A e \in Deliveries \ {d} : ok'[e] = ok[e] /\ lost'[e] = lost[e] /\ ended'[e] = ended[e]
  <2>1. ok' = ok \/ ok' = [ok EXCEPT ![d] = ok[d] + 1]
    BY Zenon DEF Delivered, WriteDeadLetter, AfterDeadLetter, ServiceWritesDeadLetter
  <2>2. lost' = lost \/ lost' = [lost EXCEPT ![d] = lost[d] + 1] \/ lost' = [lost EXCEPT ![d] = 1]
    BY Zenon DEF Delivered, WriteDeadLetter, ServiceWritesDeadLetter
  <2>3. ended' = [ended EXCEPT ![d] = ended[d] + 1] \/ ended' = [ended EXCEPT ![d] = 1]
    BY DEF Delivered, WriteDeadLetter, AfterDeadLetter, ServiceWritesDeadLetter
  <2>4. faults' \in Nat
    BY <1>0 DEF Delivered, WriteDeadLetter, Fault, ServiceWritesDeadLetter
  <2>5. ok' \in [Deliveries -> Nat] /\ \A e \in Deliveries \ {d} : ok'[e] = ok[e]
    BY <1>0, <1>t, <2>1
  <2>6. lost' \in [Deliveries -> Nat] /\ \A e \in Deliveries \ {d} : lost'[e] = lost[e]
    BY <1>0, <1>t, <2>2
  <2>7. ended' \in [Deliveries -> Nat] /\ \A e \in Deliveries \ {d} : ended'[e] = ended[e]
    BY <1>0, <1>t, <2>3
  <2> QED BY Zenon, <2>4, <2>5, <2>6, <2>7
<1>c. \/ rows' = rows
      \/ \E id \in Ids \ rows : rows' = rows \cup {id} /\ id[1] = d /\ (path[d] = "job" => id[2] <= jobTry[d])
  <2>1. CASE Delivered(d)
    BY <2>1 DEF Delivered, table
  <2>2. CASE WriteDeadLetter(d)
    BY Zenon, <1>d, <2>2 DEF WriteDeadLetter
  <2>3. CASE ServiceWritesDeadLetter(d)
    <3>1. path[d] = "writer" /\ (rows' = rows \/ rows' = rows \cup {<<d, 1>>})
      BY <2>3 DEF ServiceWritesDeadLetter
    <3>2. <<d, 1>> \in Ids /\ <<d, 1>>[1] = d
      BY <1>0 DEF Ids
    <3>3. CASE <<d, 1>> \in rows
      BY <3>1, <3>3
    <3>4. CASE <<d, 1>> \notin rows
      BY Zenon, <3>1, <3>2, <3>4
    <3> QED BY <3>3, <3>4
  <2> QED BY Zenon, <2>1, <2>2, <2>3
<1>4. path[d] # "writer" =>
        /\ ended'[d] = ended[d] + 1
        /\ \/ rows' = rows /\ ok'[d] + lost'[d] = ok[d] + lost[d] + 1
           \/ rows' # rows /\ ok'[d] = ok[d] /\ lost'[d] = lost[d]
  <2>1. CASE Delivered(d)
    <3>1. /\ ok' = [ok EXCEPT ![d] = ok[d] + 1] /\ lost' = lost
          /\ ended' = [ended EXCEPT ![d] = ended[d] + 1] /\ rows' = rows
      BY <2>1 DEF Delivered, table
    <3>2. ok'[d] = ok[d] + 1 /\ ended'[d] = ended[d] + 1 /\ lost'[d] = lost[d]
      BY <1>t, <3>1
    <3>3. (ok[d] + 1) + lost[d] = ok[d] + lost[d] + 1
      BY Zenon, <1>0, OneMore
    <3>4. ok'[d] + lost'[d] = ok[d] + lost[d] + 1
      BY Zenon, <3>2, <3>3
    <3> QED BY Zenon, <3>1, <3>2, <3>4
  <2>2. CASE WriteDeadLetter(d)
    <3>1. /\ ok' = ok /\ ended' = [ended EXCEPT ![d] = ended[d] + 1]
          /\ \/ rows' = rows \cup {DeadRow(d)} /\ lost' = lost
             \/ rows' = rows /\ lost' = [lost EXCEPT ![d] = lost[d] + 1]
      BY Zenon, <2>2 DEF WriteDeadLetter, AfterDeadLetter
    <3>2. ok'[d] = ok[d] /\ ended'[d] = ended[d] + 1
      BY Zenon, <1>t, <3>1
    <3>3. CASE rows' = rows \cup {DeadRow(d)} /\ lost' = lost
      <4>1. rows' # rows
        BY Zenon, <1>d, <2>2, <3>3
      <4> QED BY Zenon, <3>2, <3>3, <4>1
    <3>4. CASE rows' = rows /\ lost' = [lost EXCEPT ![d] = lost[d] + 1]
      <4>1. lost'[d] = lost[d] + 1
        BY <1>t, <3>4
      <4> QED BY <1>0, <3>2, <3>4, <4>1
    <3> QED BY Zenon, <3>1, <3>3, <3>4
  <2> QED BY Zenon, <2>1, <2>2 DEF ServiceWritesDeadLetter
<1>5. WebhookTypeOK'
  <2>1. rows' \subseteq Ids
    BY <1>t, <1>c
  <2> QED BY Zenon, <1>1, <1>2, <1>a, <1>b, <2>1 DEF WebhookTypeOK, given, replay, rowHistory
<1>6. \A c \in Deliveries \ {d} :
           /\ pc'[c] = pc[c] /\ attempt'[c] = attempt[c] /\ age'[c] = age[c] /\ jobTry'[c] = jobTry[c]
           /\ ended'[c] = ended[c] /\ ok'[c] = ok[c] /\ lost'[c] = lost[c] /\ RowsOf(c)' = RowsOf(c)
  BY <1>2, <1>a, <1>b, <1>c DEF RowsOf
<1>7. \/ rows' = rows /\ RowsOf(d)' = RowsOf(d)
      \/ \E id \in Ids \ rows : /\ id[1] = d /\ (path[d] = "job" => id[2] <= jobTry[d])
                                /\ rows' = rows \cup {id} /\ RowsOf(d)' = RowsOf(d) \cup {id}
  BY <1>c DEF RowsOf
<1>8. RowAhead(d)'
  <2>1. path[d] = "job" => \A id \in RowsOf(d)' : id[2] <= jobTry[d]
    BY Zenon, <1>0, <1>1, <1>7 DEF RowAhead
  <2> QED BY Zenon, <1>0, <1>2, <1>a, <2>1 DEF RowAhead
<1>9. path[d] \in {"emit", "job"} => ok'[d] + Cardinality(RowsOf(d)') + lost'[d] = ended'[d]
  <2> SUFFICES ASSUME path[d] \in {"emit", "job"} PROVE ok'[d] + Cardinality(RowsOf(d)') + lost'[d] = ended'[d]
    OBVIOUS
  <2> DEFINE N == Cardinality(RowsOf(d))
             M == Cardinality(RowsOf(d)')
  <2>1. N \in Nat /\ rows \subseteq Ids
    BY Zenon, <1>1, RowsCounted DEF WebhookTypeOK
  <2>2. ok[d] + N + lost[d] = ended[d]
    BY DEF WebhookInv, OneOutcome
  <2>3. (rows' = rows /\ M = N) \/ (rows' # rows /\ M = N + 1)
    <3>1. rows' = rows => M = N
      BY DEF RowsOf
    <3>2. ASSUME NEW id \in Ids \ rows, id[1] = d, rows' = rows \cup {id}, RowsOf(d)' = RowsOf(d) \cup {id}
          PROVE  rows' # rows /\ M = N + 1
      <4>1. Cardinality(RowsOf(d) \cup {id}) = N + 1
        BY Zenon, <2>1, <3>2, RowsCounted
      <4> QED BY <3>2, <4>1
    <3> HIDE DEF M, N
    <3> QED BY Zenon, <1>7, <3>1, <3>2
  <2>4. ok'[d] \in Nat /\ lost'[d] \in Nat
    BY <1>b
  <2> HIDE DEF N, M
  <2>5. ok'[d] + M + lost'[d] = ended'[d]
    BY <1>0, <1>4, <2>1, <2>2, <2>3, <2>4
  <2> QED BY <2>5 DEF M
<1> QED BY Zenon, <1>1, <1>2, <1>3, <1>5, <1>6, <1>8, <1>9, OneDelivery

\* Replays neither end tries nor write rows, and mark only what is justified.
LEMMA ReplaySteps ==
  ASSUME WebhookInv, NEW r \in Replays,
         ReplayStep(r) \/ ReplayBatch(r) \/ \E id \in Ids : ReplayOne(r, id)
  PROVE  WebhookInv'
<1> USE WebhookConstants
<1>1. UNCHANGED <<given, delivery, rows, deliveryHistory, refused>>
  BY Zenon DEF ReplayStep, ReplayBatch, ReplayOne, ReadRow, ReplayAccepted, ReplayFails, ResolveRow,
         ResolveFails, ReplayEnds, table
<1>2. /\ path' = path /\ kind' = kind /\ pc' = pc /\ attempt' = attempt /\ age' = age /\ jobTry' = jobTry
      /\ ended' = ended /\ ok' = ok /\ lost' = lost /\ tolerance' = tolerance /\ schema' = schema
  BY <1>1 DEF given, delivery, deliveryHistory
<1>3. \A d \in Deliveries : RowsOf(d)' = RowsOf(d)
  BY <1>1 DEF RowsOf
<1>4. OneOutcome' /\ FreshEnough' /\ \A d \in Deliveries : RowAhead(d)' /\ age'[d] <= attempt'[d] * AgePerRetry
  <2>1. OneOutcome'
    BY Zenon, <1>2, <1>3 DEF WebhookInv, OneOutcome
  <2>2. FreshEnough'
    BY Zenon, <1>1, <1>2 DEF WebhookInv, FreshEnough
  <2>3. \A d \in Deliveries : RowAhead(d)'
    BY Zenon, <1>2, <1>3 DEF WebhookInv, RowAhead
  <2> QED BY Zenon, <1>2, <2>1, <2>2, <2>3 DEF WebhookInv
<1>5. WebhookTypeOK /\ resolved \subseteq confirmed \cup manual /\ \A q \in Replays : Justified(q)
  BY DEF WebhookInv
<1> DEFINE Fine == /\ at' \in [Replays -> ReplayLabels] /\ todo' \in [Replays -> SUBSET Ids]
                   /\ row' \in [Replays -> SUBSET Ids] /\ redo' \in [Replays -> Nat] /\ faults' \in Nat
                   /\ resolved' \subseteq Ids /\ confirmed' \subseteq Ids /\ manual' \subseteq Ids
                   /\ resolved' \subseteq confirmed' \cup manual'
                   /\ confirmed \subseteq confirmed' /\ Justified(r)'
                   /\ \A q \in Replays \ {r} : at'[q] = at[q] /\ row'[q] = row[q]
<1>6. SUFFICES Fine
  <2>1. Fine => WebhookTypeOK'
    BY Zenon, <1>1, <1>2, <1>5 DEF WebhookTypeOK
  <2>2. Fine => \A q \in Replays : Justified(q)'
    BY Zenon, <1>2, <1>5 DEF Justified
  <2>3. Fine => (resolved \subseteq confirmed \cup manual)'
    OBVIOUS
  <2> HIDE DEF Fine
  <2> QED BY Zenon, <1>4, <2>1, <2>2, <2>3 DEF WebhookInv
<1>7. /\ at \in [Replays -> ReplayLabels] /\ todo \in [Replays -> SUBSET Ids]
      /\ row \in [Replays -> SUBSET Ids] /\ redo \in [Replays -> Nat] /\ faults \in Nat
      /\ rows \subseteq Ids /\ resolved \subseteq Ids /\ confirmed \subseteq Ids /\ manual \subseteq Ids
  BY <1>5 DEF WebhookTypeOK
<1>8. ReplayLabels = {"idle", "next", "send", "resolve", "done"}
  BY DEF ReplayLabels
<1>9. ASSUME NEW id \in Ids, CallFails(r, id), faults' \in Nat, UNCHANGED <<resolved, confirmed, manual>>
      PROVE  Fine
  <2>1. at' = [at EXCEPT ![r] = "next"] /\ row' = [row EXCEPT ![r] = {}]
    BY <1>9 DEF CallFails, Move, NoRow
  <2>2. todo' \in [Replays -> SUBSET Ids] /\ redo' \in [Replays -> Nat]
    BY <1>7, <1>9 DEF CallFails
  <2> QED BY Zenon, <1>5, <1>7, <1>8, <1>9, <2>1, <2>2 DEF Justified
<1>10. ASSUME NEW id \in todo[r], ReadRow(r, id) PROVE Fine
  <2>1. id \in Ids /\ UNCHANGED <<resolved, confirmed, manual, faults>>
    BY <1>7, <1>10 DEF ReadRow, table, rowHistory
  <2>2. CASE id \in rows \ resolved
    <3>1. TakeRow(r, id)
      BY Zenon, <1>10, <2>2 DEF ReadRow
    <3> DEFINE l == IF kind[r] = "resolve" THEN "resolve" ELSE "send"
    <3>2. /\ at' = [at EXCEPT ![r] = l] /\ row' = [row EXCEPT ![r] = {id}]
          /\ todo' = [todo EXCEPT ![r] = @ \ {id}] /\ redo' = redo
      BY <3>1 DEF TakeRow, Move
    <3>3. l \in ReplayLabels /\ (l = "resolve" => kind[r] = "resolve")
      BY <1>8
    <3>4. Justified(r)'
      BY Zenon, <1>2, <1>7, <3>2, <3>3 DEF Justified
    <3> HIDE DEF l
    <3> QED BY Zenon, <1>5, <1>7, <2>1, <3>2, <3>3, <3>4
  <2>3. CASE ~ (id \in rows \ resolved)
    <3>1. CallFails(r, id)
      BY Zenon, <1>10, <2>3 DEF ReadRow
    <3> QED BY Zenon, <1>7, <1>9, <2>1, <3>1
  <2> QED BY Zenon, <2>2, <2>3
<1>11. ASSUME ReplayFails(r) \/ ResolveFails(r) PROVE Fine
  <2>1. faults' \in Nat /\ UNCHANGED <<resolved, confirmed, manual>>
    <3>1. faults' \in {faults, faults + 1} /\ UNCHANGED <<resolved, confirmed, manual>>
      BY Zenon, <1>11 DEF ReplayFails, ResolveFails, Fault, table, rowHistory
    <3>2. faults \in Nat /\ faults + 1 \in Nat
      BY <1>7
    <3> QED BY Zenon, <3>1, <3>2
  <2>2. PICK id \in row[r] : CallFails(r, id)
    BY Zenon, <1>11 DEF ReplayFails, ResolveFails
  <2>3. id \in Ids
    BY <1>7
  <2> QED BY Zenon, <1>9, <2>1, <2>2, <2>3
<1>12. ASSUME ReplayAccepted(r) PROVE Fine
  <2>1. /\ at' = [at EXCEPT ![r] = "resolve"] /\ confirmed' = confirmed \cup row[r]
        /\ UNCHANGED <<todo, row, redo, faults, resolved, manual>>
    BY Zenon, <1>12 DEF ReplayAccepted, Move, table
  <2>2. Justified(r)'
    BY <2>1 DEF Justified
  <2> QED BY Zenon, <1>5, <1>7, <1>8, <2>1, <2>2
<1>13. ASSUME ResolveRow(r) PROVE Fine
  <2>1. /\ at[r] = "resolve" /\ at' = [at EXCEPT ![r] = "next"] /\ resolved' = resolved \cup row[r]
        /\ row' = [row EXCEPT ![r] = {}] /\ UNCHANGED <<todo, redo, faults, confirmed>>
        /\ manual' = IF kind[r] = "resolve" THEN manual \cup row[r] ELSE manual
    BY <1>13 DEF ResolveRow, Move, NoRow
  <2>2. kind[r] # "resolve" => row[r] \subseteq confirmed
    BY Zenon, <1>5, <2>1 DEF Justified
  <2>3. Justified(r)'
    BY <1>7, <2>1 DEF Justified
  <2>4. row[r] \subseteq Ids
    BY <1>7
  <2>5. manual' \subseteq Ids /\ manual \subseteq manual' /\ row[r] \subseteq confirmed \cup manual'
    BY Zenon, <1>7, <2>1, <2>2, <2>4
  <2> QED BY Zenon, <1>5, <1>7, <1>8, <2>1, <2>3, <2>4, <2>5
<1>14. ASSUME ReplayEnds(r) \/ ReplayBatch(r) \/ \E id \in Ids : ReplayOne(r, id) PROVE Fine
  <2>1. UNCHANGED <<row, redo, faults, resolved, confirmed, manual>>
    BY Zenon, <1>14 DEF ReplayEnds, ReplayBatch, ReplayOne, table, rowHistory
  <2>2. PICK l \in {"next", "done"} : at' = [at EXCEPT ![r] = l]
    BY Zenon, <1>14 DEF ReplayEnds, ReplayBatch, ReplayOne, Move
  <2>3. todo' \in [Replays -> SUBSET Ids]
    <3>1. \/ todo' = todo
          \/ \E s \in SUBSET Ids : todo' = [todo EXCEPT ![r] = s]
      <4>1. rows \ resolved \subseteq Ids
        BY <1>7
      <4>2. ReplayBatch(r) => todo' = todo \/ \E s \in SUBSET (rows \ resolved) : todo' = [todo EXCEPT ![r] = s]
        BY Zenon DEF ReplayBatch
      <4>3. (\E id \in Ids : ReplayOne(r, id)) => \E id \in Ids : todo' = [todo EXCEPT ![r] = {id}]
        BY Zenon DEF ReplayOne
      <4> QED BY Zenon, <1>14, <4>1, <4>2, <4>3 DEF ReplayEnds
    <3> QED BY <1>7, <3>1
  <2>4. Justified(r)'
    BY <1>7, <2>2 DEF Justified
  <2> QED BY Zenon, <1>5, <1>7, <1>8, <2>1, <2>2, <2>3, <2>4
<1> QED BY Zenon, <1>10, <1>11, <1>12, <1>13, <1>14 DEF ReplayStep

\* No step breaks the invariant.
LEMMA WebhookInductive == WebhookInv /\ [Next]_vars => WebhookInv'
<1> SUFFICES ASSUME WebhookInv, [Next]_vars PROVE WebhookInv'
  OBVIOUS
<1>1. ASSUME NEW d \in Deliveries, DeliveryStep(d) \/ ServiceWritesDeadLetter(d) PROVE WebhookInv'
  <2>1. "2xx" \in Results
    BY DEF Results
  <2> QED BY <1>1, <2>1, SendingSteps, EndingSteps DEF DeliveryStep, SendStep
<1>2. ASSUME NEW r \in Replays, ReplayStep(r) \/ ReplayBatch(r) \/ \E id \in Ids : ReplayOne(r, id)
      PROVE WebhookInv'
  BY <1>2, ReplaySteps
<1>3. CASE UNCHANGED vars
  BY Zenon, <1>3 DEF vars, given, delivery, replay, table, deliveryHistory, rowHistory, WebhookInv,
     WebhookTypeOK,
     OneOutcome, FreshEnough, RowsOf, RowAhead, Justified
<1> QED BY <1>1, <1>2, <1>3 DEF Next

\* The inductive invariant of the deliveries and the replays.
THEOREM WebhookInvariant == Spec => []WebhookInv
BY WebhookStart, WebhookInductive, PTL DEF Spec

\* webhooks.js and webhookDelivery.js: no try of a delivery is lost in silence and
\* none leaves two traces.
THEOREM EveryTryAccounted == Spec => []OneOutcome
<1>1. WebhookInv => OneOutcome
  BY DEF WebhookInv
<1> QED BY <1>1, WebhookInvariant, PTL

\* withRetry() in webhooks.js: delays and time-outs that fit the receiver's tolerance
\* never make a signature too old.
THEOREM SignaturesStayFresh == Spec => []FreshEnough
<1>1. WebhookInv => FreshEnough
  BY Zenon DEF WebhookInv
<1> QED BY <1>1, WebhookInvariant, PTL

\* A quiet row stays quiet: who reads it later finds it resolved.
LEMMA QuietStays ==
  ASSUME WebhookInv, [Next]_vars, NEW id \in Ids, Quiet(id)
  PROVE  Quiet(id)'
<1>1. id \in resolved /\ \A r \in Replays : row[r] # {id}
  BY DEF Quiet
<1>2. row \in [Replays -> SUBSET Ids]
  BY DEF WebhookInv, WebhookTypeOK
<1> SUFFICES id \in resolved' /\ \A r \in Replays : row'[r] # {id}
  BY DEF Quiet
<1>3. CASE \E d \in Deliveries : DeliveryStep(d) \/ ServiceWritesDeadLetter(d)
  <2>1. UNCHANGED <<row, resolved>>
    BY Zenon, <1>3 DEF DeliveryStep, SendStep, EmitLooksUp, JobStarts, Delivered, RequestRetried, RequestFailed,
                RequestRefused, WriteDeadLetter, AfterDeadLetter, ServiceWritesDeadLetter, replay, table
  <2> QED BY Zenon, <1>1, <2>1
<1>4. ASSUME NEW r \in Replays, ReplayStep(r) \/ ReplayBatch(r) \/ \E o \in Ids : ReplayOne(r, o)
      PROVE  id \in resolved' /\ \A q \in Replays : row'[q] # {id}
  <2>1. resolved \subseteq resolved'
    BY Zenon, <1>4 DEF ReplayStep, ReplayBatch, ReplayOne, ReadRow, ReplayAccepted, ReplayFails, ResolveRow,
                ResolveFails, ReplayEnds, table
  <2>2. \/ UNCHANGED row
        \/ row' = [row EXCEPT ![r] = {}]
        \/ \E o \in rows \ resolved : row' = [row EXCEPT ![r] = {o}]
    <3>1. ASSUME NEW o \in todo[r], ReadRow(r, o)
          PROVE  row' = [row EXCEPT ![r] = {}] \/ \E p \in rows \ resolved : row' = [row EXCEPT ![r] = {p}]
      BY <3>1 DEF ReadRow, TakeRow, CallFails, NoRow
    <3>2. ASSUME ReplayFails(r) \/ ResolveFails(r) \/ ResolveRow(r) PROVE row' = [row EXCEPT ![r] = {}]
      BY Zenon, <3>2 DEF ReplayFails, ResolveFails, ResolveRow, CallFails, NoRow
    <3>3. ASSUME ReplayAccepted(r) \/ ReplayEnds(r) \/ ReplayBatch(r) \/ \E o \in Ids : ReplayOne(r, o)
          PROVE UNCHANGED row
      BY Zenon, <3>3 DEF ReplayAccepted, ReplayEnds, ReplayBatch, ReplayOne
    <3> QED BY Zenon, <1>4, <3>1, <3>2, <3>3 DEF ReplayStep
  <2> QED BY <1>1, <1>2, <2>1, <2>2
<1>5. CASE UNCHANGED vars
  BY Zenon, <1>1, <1>5 DEF vars, replay, table
<1> QED BY <1>3, <1>4, <1>5 DEF Next

\* replayWebhook(), resolveDeadLetter() and the routes over them: rows are resolved
\* with a reason, and for good.
THEOREM RowsResolvedForGood == Spec => ResolvedForGood
<1>1. WebhookInv /\ WebhookInv' /\ [Next]_vars
      => [\A id \in Ids : /\ id \in resolved' => id \in confirmed' \cup manual'
                          /\ Quiet(id) => Quiet(id)']_vars
  BY Zenon, QuietStays DEF WebhookInv
<1> QED BY <1>1, WebhookInvariant, PTL DEF Spec, ResolvedForGood
====
