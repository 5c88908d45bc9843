------------------------- MODULE CommandOutboxProofs -------------------------
(***************************************************************************)
(* Proofs about CommandOutbox, for every number of commands, recipients    *)
(* and replicas and every value of the lease, retry and batch parameters.  *)
(***************************************************************************)
EXTENDS CommandOutbox, TLAPS

LEMMA RetryDelayNat ==
    ASSUME NEW a \in 1 .. MaxAttempts PROVE RetryDelay(a) \in Nat
  BY RetryAssumption

(***************************************************************************)
(* The type invariant is inductive by itself.                              *)
(***************************************************************************)
LEMMA TypeInit == Init => TypeOK
  BY BoundsAssumption DEF Init, TypeOK, NewRow, Row, Active, Final, Phase, PC

LEMMA TypeNext == TypeOK /\ [Next]_vars => TypeOK'
<1> SUFFICES ASSUME TypeOK, [Next]_vars PROVE TypeOK'
  OBVIOUS
<1> USE BoundsAssumption DEF TypeOK, enqueueVars, dispatchVars, brokerVars
<1>1. ASSUME NEW c \in Command, Enqueue(c) PROVE TypeOK'
  BY <1>1 DEF Enqueue, LockRecipient, InsertRow, CommitEnqueue, RollbackEnqueue,
              NewRow, Row, Active, Phase
<1>2. ASSUME NEW c \in Command, Broker(c) PROVE TypeOK'
  BY <1>2 DEF Broker, BrokerStores, BrokerLoses, ConfirmSend
<1>3. ASSUME NEW d \in Dispatcher, NEW S \in SUBSET Command, ClaimBatch(d, S)
      PROVE TypeOK'
  <2>1. \A c \in S : row[c] \in Row /\ row[c].status \in Active
    BY <1>3 DEF ClaimBatch, Oldest, Claimable, Due
  <2>2. \A c \in S : row[c].attempts \in 0 .. MaxAttempts - 1
    BY <2>1 DEF Row, Active, Final
  <2>3. row' \in [Command -> Row]
    BY <1>3, <2>1, <2>2 DEF ClaimBatch, Row, Active, Final
  <2>4. batch' \in [Dispatcher -> SUBSET Claim]
    BY <1>3, <2>2 DEF ClaimBatch, Claim
  <2> QED BY <1>3, <2>3, <2>4 DEF ClaimBatch, PC
<1>4. ASSUME NEW d \in Dispatcher, NEW k \in batch[d], Handle(d, k) PROVE TypeOK'
  <2>0. /\ k \in Claim /\ k.id \in Command /\ k.attempts \in 0 .. MaxAttempts - 1
        /\ batch' = [batch EXCEPT ![d] = @ \ {k}] => batch' \in [Dispatcher -> SUBSET Claim]
    BY DEF Claim
  <2>1. CASE Renew(d, k)
    <3>1. [k EXCEPT !.claimUntil = now + Lease] \in Claim
      BY <2>0 DEF Claim
    <3>2. row' \in [Command -> Row]
      BY <2>1, <2>0 DEF Renew, Row
    <3> QED BY <2>1, <3>1, <3>2 DEF Renew, PC
  <2>2. CASE LeaseLost(d, k)
    BY <2>2, <2>0 DEF LeaseLost, NextClaim, PC
  <2>3. CASE Publish(d, k) \/ PublishSucceeds(d, k) \/ PublishFails(d, k)
    BY <2>3, <2>0 DEF Publish, PublishSucceeds, PublishFails, PC
  <2>4. CASE MarkPublished(d, k)
    <3>1. row' \in [Command -> Row]
      BY <2>4, <2>0 DEF MarkPublished, Row, Final, Active
    <3> QED BY <2>4, <2>0, <3>1 DEF MarkPublished, NextClaim, PC
  <2>5. CASE MarkPublishedFails(d, k)
    BY <2>5, <2>0 DEF MarkPublishedFails, NextClaim, PC
  <2>6. CASE RecordFailure(d, k)
    <3>1. now + RetryDelay(k.attempts + 1) \in Nat
      BY <2>0, RetryDelayNat
    <3>2. row' \in [Command -> Row]
      BY <2>6, <2>0, <3>1 DEF RecordFailure, Exhausted, Row, Final, Active
    <3> QED BY <2>6, <2>0, <3>2 DEF RecordFailure, NextClaim, PC
  <2>7. CASE FailMessage(d, k)
    BY <2>7, <2>0 DEF FailMessage, NextClaim, PC
  <2> QED BY <1>4, <2>1, <2>2, <2>3, <2>4, <2>5, <2>6, <2>7 DEF Handle
<1>5. ASSUME NEW d \in Dispatcher, EndBatch(d) \/ Abandon(d) PROVE TypeOK'
  BY <1>5 DEF EndBatch, Abandon, PC
<1>6. CASE Tick
  BY <1>6 DEF Tick
<1>7. CASE UNCHANGED vars
  BY <1>7 DEF vars
<1> QED BY <1>1, <1>2, <1>3, <1>4, <1>5, <1>6, <1>7 DEF Next

\* Every reachable state is type correct: in particular no row exceeds its
\* retry budget and no active row has exhausted it (dispatchCompany).
THEOREM TypeCorrect == Spec => []TypeOK
  BY TypeInit, TypeNext, PTL DEF Spec

-----------------------------------------------------------------------------
(***************************************************************************)
(* What the advisory lock buys: created_at values are distinct and, within *)
(* a recipient, a row that is not committed yet is the newest one.  So no  *)
(* commit ever slips a row in front of a committed one.                    *)
(***************************************************************************)
Inserted(c) == created[c] # 0

EnqueueInv ==
    /\ \A c \in Command : created[c] <= serial
    /\ \A c \in Command : phase[c] \in {"idle", "locked"} => ~Inserted(c)
    /\ \A c \in Command : phase[c] \in {"inserted", "committed"} => Inserted(c)
    /\ \A c, e \in Command : Inserted(c) /\ created[c] = created[e] => c = e
    /\ \A c, e \in Command :
         c # e /\ SameRecipient(c, e) /\ HoldsLock(c) => ~HoldsLock(e)
    /\ \A c, e \in Command :
         c # e /\ SameRecipient(c, e) /\ phase[e] = "inserted" => created[c] < created[e]

(***************************************************************************)
(* Cleared(c): nothing that c has to wait for is still active.  Everything *)
(* a dispatcher holds, and everything ever published, is cleared; and what *)
(* is recorded as published has been stored.                               *)
(***************************************************************************)
Cleared(c) ==
    /\ Committed(c)
    /\ \A e \in Command : Precedes(e, c) => row[e].status \in Final

OrderInv ==
    /\ \A d \in Dispatcher : \A k \in batch[d] : Cleared(k.id)
    /\ \A c \in wire \cup accepted : Cleared(c)
    /\ \A c \in Command : row[c].status = "published" => c \in accepted
    /\ \A d \in Dispatcher : \A k \in batch[d] :
         pc[d] = "stored" /\ First(d, k) => k.id \in accepted

(***************************************************************************)
(* The lease token: a claim that is not current has expired, or its row is *)
(* final; so the token of a new claim differs from every token around.     *)
(***************************************************************************)
ClaimInv ==
    /\ \A d \in Dispatcher : pc[d] = "idle" => batch[d] = {}
    /\ \A d \in Dispatcher : \A k, m \in batch[d] : k.id = m.id => k = m
    /\ \A d \in Dispatcher : \A k \in batch[d] :
         \/ Current(k)
         \/ k.claimUntil <= now
         \/ row[k.id].status \in Final
    /\ \A d, f \in Dispatcher : \A k \in batch[d], m \in batch[f] :
         d # f /\ k.id = m.id /\ Current(k) => ~Current(m)

-----------------------------------------------------------------------------
LEMMA SameRecipientSymmetric ==
    ASSUME NEW c, NEW e, SameRecipient(c, e) PROVE SameRecipient(e, c)
  BY DEF SameRecipient

\* Only a step of an enqueueing transaction touches the order of the rows.
LEMMA EnqueueFrame ==
    ASSUME [Next]_vars PROVE (\E c \in Command : Enqueue(c)) \/ UNCHANGED enqueueVars
  BY DEF Next, vars, Broker, BrokerStores, BrokerLoses, ConfirmSend, ClaimBatch, Handle,
         Renew, LeaseLost, Publish, PublishSucceeds, PublishFails, MarkPublished,
         MarkPublishedFails, RecordFailure, FailMessage, EndBatch, Abandon, Tick

LEMMA EnqueueInit == Init => EnqueueInv
  BY DEF Init, EnqueueInv, Inserted, HoldsLock

LEMMA EnqueueNext == TypeOK /\ EnqueueInv /\ [Next]_vars => EnqueueInv'
<1> SUFFICES ASSUME TypeOK, EnqueueInv, [Next]_vars PROVE EnqueueInv'
  OBVIOUS
<1> USE DEF TypeOK, EnqueueInv, Inserted, HoldsLock
<1>1. ASSUME NEW c \in Command, LockRecipient(c) PROVE EnqueueInv'
  BY <1>1, SameRecipientSymmetric DEF LockRecipient, SameRecipient, Phase
<1>2. ASSUME NEW c \in Command, InsertRow(c) PROVE EnqueueInv'
  BY <1>2, SameRecipientSymmetric DEF InsertRow, SameRecipient, Phase
<1>3. ASSUME NEW c \in Command, CommitEnqueue(c) PROVE EnqueueInv'
  BY <1>3 DEF CommitEnqueue, SameRecipient, Phase
<1>4. ASSUME NEW c \in Command, RollbackEnqueue(c) PROVE EnqueueInv'
  BY <1>4 DEF RollbackEnqueue, SameRecipient, Phase
<1>5. CASE UNCHANGED enqueueVars
  BY <1>5 DEF enqueueVars, SameRecipient
<1> QED BY <1>1, <1>2, <1>3, <1>4, <1>5, EnqueueFrame DEF Enqueue

\* A commit never puts a row in front of a committed one.
LEMMA PrecedesStable ==
    ASSUME TypeOK, EnqueueInv, [Next]_vars,
           NEW e \in Command, NEW c \in Command, Committed(c), Precedes(e, c)'
    PROVE  Precedes(e, c)
<1> USE DEF TypeOK, Precedes, Committed
<1>1. CASE UNCHANGED enqueueVars
  BY <1>1 DEF enqueueVars, SameRecipient
<1>2. ASSUME NEW x \in Command, Enqueue(x) PROVE Precedes(e, c)
  BY <1>2, SameRecipientSymmetric
     DEF Enqueue, LockRecipient, InsertRow, CommitEnqueue, RollbackEnqueue,
         EnqueueInv, HoldsLock, SameRecipient
<1> QED BY <1>1, <1>2, EnqueueFrame

\* A committed command stays committed.
LEMMA CommittedStable ==
    ASSUME TypeOK, [Next]_vars, NEW c \in Command, Committed(c) PROVE Committed(c)'
<1> USE DEF TypeOK, Committed
<1>1. CASE UNCHANGED enqueueVars
  BY <1>1 DEF enqueueVars
<1>2. ASSUME NEW x \in Command, Enqueue(x) PROVE Committed(c)'
  BY <1>2 DEF Enqueue, LockRecipient, InsertRow, CommitEnqueue, RollbackEnqueue, HoldsLock
<1> QED BY <1>1, <1>2, EnqueueFrame

-----------------------------------------------------------------------------
(***************************************************************************)
(* Final rows.                                                             *)
(***************************************************************************)
LEMMA FinalRowKept ==
    ASSUME TypeOK, [Next]_vars,
           NEW c \in Command, Committed(c), row[c].status \in Final
    PROVE  row'[c] = row[c]
<1> USE DEF TypeOK, Committed, Final, Active
<1>1. ASSUME NEW x \in Command, Enqueue(x) PROVE row'[c] = row[c]
  BY <1>1 DEF Enqueue, LockRecipient, InsertRow, CommitEnqueue, RollbackEnqueue
<1>2. ASSUME NEW d \in Dispatcher, NEW S \in SUBSET Command, ClaimBatch(d, S)
      PROVE  row'[c] = row[c]
  BY <1>2 DEF ClaimBatch, Oldest, Claimable, Due
<1>3. ASSUME NEW d \in Dispatcher, NEW k \in batch[d], Handle(d, k)
      PROVE  row'[c] = row[c]
  <2>1. k.id \in Command
    BY DEF Claim
  <2> QED
    BY <1>3, <2>1 DEF Handle, Renew, LeaseLost, Publish, PublishSucceeds, PublishFails,
          MarkPublished, MarkPublishedFails, RecordFailure, FailMessage, Current
<1>4. ASSUME NEW d \in Dispatcher, EndBatch(d) \/ Abandon(d) PROVE row'[c] = row[c]
  BY <1>4 DEF EndBatch, Abandon
<1>5. ASSUME NEW x \in Command, Broker(x) PROVE row'[c] = row[c]
  BY <1>5 DEF Broker, BrokerStores, BrokerLoses, ConfirmSend
<1>6. CASE Tick \/ UNCHANGED vars
  BY <1>6 DEF Tick, vars
<1> QED BY <1>1, <1>2, <1>3, <1>4, <1>5, <1>6 DEF Next

\* A published or failed row is never written again (the claim tokens of
\* dispatchCompany's updates, and its claim condition).
THEOREM FinalRowsNeverChange == Spec => FinalIsFinal
<1>1. TypeOK /\ [Next]_vars
        => [\A c \in Command :
              Committed(c) /\ row[c].status \in Final => row'[c] = row[c]]_vars
  BY FinalRowKept
<1> QED BY <1>1, TypeCorrect, PTL DEF Spec, FinalIsFinal

\* What is cleared stays cleared.
LEMMA ClearedStable ==
    ASSUME TypeOK, EnqueueInv, [Next]_vars, NEW c \in Command, Cleared(c)
    PROVE  Cleared(c)'
<1>1. Committed(c)'
  BY CommittedStable DEF Cleared
<1>2. ASSUME NEW e \in Command, Precedes(e, c)' PROVE row'[e].status \in Final
  <2>1. Precedes(e, c)
    BY <1>2, PrecedesStable DEF Cleared
  <2>2. row[e].status \in Final /\ Committed(e)
    BY <2>1 DEF Cleared, Precedes
  <2> QED BY <2>2, FinalRowKept
<1> QED BY <1>1, <1>2 DEF Cleared

-----------------------------------------------------------------------------
(***************************************************************************)
(* The order of a conversation.                                            *)
(***************************************************************************)
LEMMA OrderInit == Init => OrderInv
  BY DEF Init, OrderInv, NewRow

LEMMA OrderNext == TypeOK /\ EnqueueInv /\ OrderInv /\ [Next]_vars => OrderInv'
<1> SUFFICES ASSUME TypeOK, EnqueueInv, OrderInv, [Next]_vars PROVE OrderInv'
  OBVIOUS
<1> DEFINE BatchCleared == \A d \in Dispatcher : \A k \in batch[d] : Cleared(k.id)
           SentCleared == \A c \in wire \cup accepted : Cleared(c)
           PublishedStored == \A c \in Command : row[c].status = "published" => c \in accepted
           AckStored == \A d \in Dispatcher : \A k \in batch[d] :
                          pc[d] = "stored" /\ First(d, k) => k.id \in accepted
<1>0. \A c \in Command : Cleared(c) => Cleared(c)'
  BY ClearedStable
<1>1. ASSUME NEW x \in Command, Enqueue(x) PROVE OrderInv'
  <2>1. UNCHANGED <<pc, batch, wire, accepted>> /\ \A c \in Command :
          row'[c] = row[c] \/ row'[c].status = "pending"
    BY <1>1 DEF Enqueue, LockRecipient, InsertRow, CommitEnqueue, RollbackEnqueue,
                dispatchVars, brokerVars, NewRow, TypeOK
  <2>2. BatchCleared' /\ SentCleared'
    BY <2>1, <1>0 DEF OrderInv, TypeOK, Claim
  <2>3. PublishedStored'
    BY <2>1 DEF OrderInv
  <2>4. AckStored'
    <3> SUFFICES ASSUME NEW d \in Dispatcher, NEW k \in batch[d],
                        pc[d] = "stored", First(d, k)'
                 PROVE  k.id \in accepted
      BY <2>1
    <3>1. \A m \in batch[d] : m.id \in Command /\ created'[m.id] = created[m.id]
      BY <1>1 DEF OrderInv, Cleared, Committed, TypeOK, Claim, Enqueue, LockRecipient,
                  InsertRow, CommitEnqueue, RollbackEnqueue
    <3> QED BY <2>1, <3>1 DEF First, OrderInv
  <2> QED BY <2>2, <2>3, <2>4 DEF OrderInv
<1>2. ASSUME NEW x \in Command, Broker(x) PROVE OrderInv'
  <2>1. UNCHANGED <<created, row, pc, batch>> /\ accepted \subseteq accepted'
        /\ wire' \cup accepted' \subseteq wire \cup accepted
    BY <1>2 DEF Broker, BrokerStores, BrokerLoses, ConfirmSend, enqueueVars,
                dispatchVars, brokerVars
  <2> QED BY <2>1, <1>0 DEF OrderInv, TypeOK, Claim, First
<1>3. ASSUME NEW d \in Dispatcher, NEW S \in SUBSET Command, ClaimBatch(d, S)
      PROVE OrderInv'
  <2>1. \A c \in S : Cleared(c)
    BY <1>3 DEF ClaimBatch, Oldest, Claimable, EarlierActive, Cleared, TypeOK, Row
  <2>2. BatchCleared'
    BY <1>3, <2>1, <1>0 DEF ClaimBatch, OrderInv, TypeOK, Claim
  <2>3. SentCleared' /\ PublishedStored'
    BY <1>3, <1>0 DEF ClaimBatch, OrderInv, TypeOK, brokerVars
  <2>4. AckStored'
    BY <1>3 DEF ClaimBatch, OrderInv, TypeOK, brokerVars, enqueueVars, First
  <2> QED BY <2>2, <2>3, <2>4 DEF OrderInv
<1>4. ASSUME NEW d \in Dispatcher, NEW k \in batch[d], Handle(d, k) PROVE OrderInv'
  <2>0. k \in Claim /\ k.id \in Command /\ Cleared(k.id)
    BY DEF OrderInv, TypeOK, Claim
  <2>1. CASE Renew(d, k)
    <3>1. BatchCleared' /\ SentCleared'
      BY <2>1, <2>0, <1>0 DEF Renew, OrderInv, TypeOK, Claim, brokerVars
    <3>2. PublishedStored' /\ AckStored'
      BY <2>1, <2>0 DEF Renew, OrderInv, TypeOK, brokerVars, enqueueVars, First, Row
    <3> QED BY <3>1, <3>2 DEF OrderInv
  <2>2. CASE Publish(d, k)
    BY <2>2, <2>0, <1>0 DEF Publish, OrderInv, TypeOK, Claim, enqueueVars, First
  <2>3. CASE PublishSucceeds(d, k)
    <3>1. ASSUME NEW m \in batch[d], First(d, m) PROVE m.id = k.id
      <4>1. m.id \in Command /\ created[m.id] \in Nat /\ created[k.id] \in Nat
        BY <2>0 DEF TypeOK, Claim
      <4>2. created[k.id] = created[m.id]
        BY <2>3, <3>1, <4>1 DEF PublishSucceeds, First
      <4>3. Inserted(k.id)
        BY <2>0 DEF Cleared, Committed, EnqueueInv
      <4> QED BY <2>0, <4>1, <4>2, <4>3 DEF EnqueueInv
    <3> QED
      BY <2>3, <2>0, <1>0, <3>1
         DEF PublishSucceeds, OrderInv, TypeOK, Claim, enqueueVars, brokerVars, First
  <2>4. CASE PublishFails(d, k)
    BY <2>4, <1>0 DEF PublishFails, OrderInv, TypeOK, Claim, enqueueVars, brokerVars, First
  <2>5. ASSUME NextClaim(d, k), UNCHANGED <<created, wire, accepted>>,
               \A c \in Command : row'[c].status = "published" => c \in accepted
        PROVE OrderInv'
    BY <2>5, <1>0 DEF NextClaim, OrderInv, TypeOK, Claim, First
  <2>6. CASE LeaseLost(d, k) \/ MarkPublishedFails(d, k) \/ FailMessage(d, k)
    BY <2>5, <2>6 DEF LeaseLost, MarkPublishedFails, FailMessage, enqueueVars,
                      brokerVars, OrderInv
  <2>7. CASE MarkPublished(d, k)
    <3>1. k.id \in accepted
      BY <2>7 DEF MarkPublished, OrderInv
    <3>2. \A c \in Command : row'[c].status = "published" => c \in accepted
      BY <2>7, <2>0, <3>1 DEF MarkPublished, OrderInv, TypeOK, Row
    <3> QED BY <2>5, <2>7, <3>2 DEF MarkPublished, enqueueVars, brokerVars
  <2>8. CASE RecordFailure(d, k)
    <3>1. \A c \in Command : row'[c].status = "published" => c \in accepted
      BY <2>8, <2>0 DEF RecordFailure, OrderInv, TypeOK
    <3>2. CASE NextClaim(d, k)
      BY <2>5, <2>8, <3>1, <3>2 DEF RecordFailure, enqueueVars, brokerVars
    <3>3. CASE batch' = batch /\ pc' = [pc EXCEPT ![d] = "exhausted"]
      BY <2>8, <3>1, <3>3, <1>0
         DEF RecordFailure, OrderInv, TypeOK, Claim, enqueueVars, brokerVars, First
    <3> QED BY <2>8, <3>2, <3>3 DEF RecordFailure
  <2> QED BY <1>4, <2>1, <2>2, <2>3, <2>4, <2>6, <2>7, <2>8 DEF Handle
<1>5. ASSUME NEW d \in Dispatcher, EndBatch(d) \/ Abandon(d) PROVE OrderInv'
  BY <1>5, <1>0 DEF EndBatch, Abandon, OrderInv, TypeOK, Claim, enqueueVars, brokerVars, First
<1>6. CASE Tick \/ UNCHANGED vars
  BY <1>6, <1>0 DEF Tick, vars, OrderInv, TypeOK, Claim, enqueueVars, dispatchVars,
              brokerVars, First
<1> QED BY <1>1, <1>2, <1>3, <1>4, <1>5, <1>6 DEF Next

\* A conversation is never reordered: when a command is in the stream, every
\* earlier command to its recipient is in the stream or has failed for good.
THEOREM ConversationOrder == Spec => []RecipientOrder
<1>1. OrderInv => RecipientOrder
  BY DEF OrderInv, RecipientOrder, Cleared, Final
<1> QED
  BY <1>1, TypeCorrect, EnqueueInit, EnqueueNext, OrderInit, OrderNext, PTL DEF Spec

-----------------------------------------------------------------------------
(***************************************************************************)
(* The fencing token.                                                      *)
(***************************************************************************)
LEMMA ClaimInit == Init => ClaimInv
  BY DEF Init, ClaimInv

\* Dropping a claim of a loop keeps the invariant when the rows keep their
\* claims, or only the row of the dropped claim is released.
LEMMA ClaimDropped ==
    ASSUME TypeOK, ClaimInv, NEW d \in Dispatcher, NEW k \in batch[d], NextClaim(d, k),
           now' = now,
           \/ row' = row
           \/ /\ Current(k)
              /\ row'[k.id].status # "claimed"
              /\ \A c \in Command : c # k.id => row'[c] = row[c]
    PROVE  ClaimInv'
  BY DEF TypeOK, ClaimInv, NextClaim, Current, Claim, Final

LEMMA ClaimNext ==
    TypeOK /\ EnqueueInv /\ OrderInv /\ ClaimInv /\ [Next]_vars => ClaimInv'
<1> SUFFICES ASSUME TypeOK, EnqueueInv, OrderInv, ClaimInv, [Next]_vars PROVE ClaimInv'
  OBVIOUS
<1> USE BoundsAssumption
<1>1. ASSUME NEW x \in Command, Enqueue(x) PROVE ClaimInv'
  <2>1. \A d \in Dispatcher : \A k \in batch[d] : row'[k.id] = row[k.id]
    BY <1>1 DEF OrderInv, Cleared, Committed, TypeOK, Claim, Enqueue, LockRecipient,
                InsertRow, CommitEnqueue, RollbackEnqueue
  <2>2. UNCHANGED <<now, pc, batch>>
    BY <1>1 DEF Enqueue, LockRecipient, InsertRow, CommitEnqueue, RollbackEnqueue,
                dispatchVars
  <2> QED BY <2>1, <2>2 DEF ClaimInv, Current
<1>2. ASSUME NEW d \in Dispatcher, NEW S \in SUBSET Command, ClaimBatch(d, S)
      PROVE ClaimInv'
  <2>0. batch[d] = {} /\ now \in Nat /\ now' = now
    BY <1>2 DEF ClaimBatch, ClaimInv, TypeOK
  <2>1. ASSUME NEW f \in Dispatcher, NEW m \in batch[f], m.id \in S
        PROVE  m.claimUntil <= now /\ ~Current(m)'
    <3>1. m.id \in Command /\ m.claimUntil \in Nat
      BY DEF TypeOK, Claim
    <3>2. row[m.id].status \in Active /\ row[m.id].next_attempt_at <= now
      BY <1>2, <2>1 DEF ClaimBatch, Oldest, Claimable, Due
    <3>3. m.claimUntil <= now
      BY <3>2 DEF ClaimInv, Current, Active, Final
    <3>4. row'[m.id].next_attempt_at = now + Lease
      BY <1>2, <2>1, <3>1 DEF ClaimBatch
    <3> QED BY <2>0, <3>1, <3>3, <3>4 DEF Current
  <2>2. \A k \in batch'[d] : k.id \in S /\ Current(k)'
    BY <1>2 DEF ClaimBatch, Current, TypeOK
  <2>3. \A f \in Dispatcher : f # d => batch'[f] = batch[f] /\ pc'[f] = pc[f]
    BY <1>2 DEF ClaimBatch, TypeOK
  <2>4. \A c \in Command : c \notin S => row'[c] = row[c]
    BY <1>2 DEF ClaimBatch
  <2>5. \A k, m \in batch'[d] : k.id = m.id => k = m
    BY <1>2 DEF ClaimBatch, TypeOK
  <2>6. pc'[d] # "idle"
    BY <1>2 DEF ClaimBatch, TypeOK
  <2>7. \A f \in Dispatcher : \A m \in batch[f] : m.id \in Command
    BY DEF TypeOK, Claim
  <2>8. \A f \in Dispatcher : f # d => \A m \in batch'[f] :
          Current(m)' \/ m.claimUntil <= now' \/ row'[m.id].status \in Final
    BY <2>0, <2>1, <2>3, <2>4, <2>7 DEF ClaimInv, Current
  <2>9. \A f, g \in Dispatcher : \A k \in batch'[f], m \in batch'[g] :
          f # g /\ k.id = m.id /\ Current(k)' => ~Current(m)'
    <3> SUFFICES ASSUME NEW f \in Dispatcher, NEW g \in Dispatcher,
                        NEW k \in batch'[f], NEW m \in batch'[g],
                        f # g, k.id = m.id, Current(k)', Current(m)'
                 PROVE  FALSE
      OBVIOUS
    <3>1. CASE f = d
      BY <3>1, <2>1, <2>2, <2>3
    <3>2. CASE g = d
      BY <3>2, <2>1, <2>2, <2>3
    <3>3. CASE f # d /\ g # d /\ k.id \in S
      BY <3>3, <2>1, <2>3
    <3>4. CASE f # d /\ g # d /\ k.id \notin S
      BY <3>4, <2>3, <2>4, <2>7 DEF ClaimInv, Current
    <3> QED BY <3>1, <3>2, <3>3, <3>4
  <2> QED BY <2>2, <2>3, <2>5, <2>6, <2>8, <2>9 DEF ClaimInv
<1>3. ASSUME NEW d \in Dispatcher, NEW k \in batch[d], Handle(d, k) PROVE ClaimInv'
  <2>0. k \in Claim /\ k.id \in Command
    BY DEF TypeOK, Claim
  <2>1. CASE Renew(d, k)
    <3> DEFINE r == [k EXCEPT !.claimUntil = now + Lease]
    <3>1. r.id = k.id /\ r.claimUntil = now + Lease
      BY <2>0 DEF Claim
    <3>2. Current(r)'
      BY <2>1, <2>0, <3>1 DEF Renew, Current, TypeOK, Row
    <3>3. ASSUME NEW f \in Dispatcher, NEW m \in batch[f], m.id = k.id, m # k \/ f # d
          PROVE  m.claimUntil <= now /\ f # d
      BY <2>1, <3>3 DEF Renew, ClaimInv, Current, Final
    <3>4. \A c \in Command : c # k.id => row'[c] = row[c]
      BY <2>1, <2>0 DEF Renew, TypeOK
    <3>5. row'[k.id].next_attempt_at = now + Lease /\ now' = now /\ now \in Nat
      BY <2>1, <2>0 DEF Renew, TypeOK, Row
    <3>6. /\ pc'[d] # "idle"
          /\ batch'[d] = (batch[d] \ {k}) \cup {r}
          /\ \A f \in Dispatcher : f # d => batch'[f] = batch[f] /\ pc'[f] = pc[f]
      BY <2>1 DEF Renew, TypeOK
    <3>7. \A f \in Dispatcher : \A m \in batch[f] : m.id \in Command /\ m.claimUntil \in Nat
      BY DEF TypeOK, Claim
    <3>8. ASSUME NEW f \in Dispatcher, NEW m \in batch'[f]
          PROVE  \/ f = d /\ m = r
                 \/ /\ m \in batch[f] /\ m.id # k.id /\ (Current(m)' <=> Current(m))
                    /\ row'[m.id] = row[m.id]
                 \/ m \in batch[f] /\ f # d /\ m.claimUntil <= now /\ ~Current(m)'
      BY <3>3, <3>4, <3>5, <3>6, <3>7 DEF Current
    <3>9. \A f \in Dispatcher : \A m \in batch'[f] :
            Current(m)' \/ m.claimUntil <= now' \/ row'[m.id].status \in Final
      BY <3>2, <3>5, <3>8 DEF ClaimInv
    <3>10. \A f \in Dispatcher : \A l, m \in batch'[f] : l.id = m.id => l = m
      <4>1. \A l, m \in batch[d] : l.id = m.id => l = m
        BY DEF ClaimInv
      <4>2. \A l \in batch'[d] : l = r \/ (l \in batch[d] /\ l # k /\ l.id # r.id)
        BY <3>1, <3>6, <4>1
      <4>3. \A l, m \in batch'[d] : l.id = m.id => l = m
        BY <4>1, <4>2
      <4> QED BY <3>6, <4>3 DEF ClaimInv
    <3>11. \A f, g \in Dispatcher : \A l \in batch'[f], m \in batch'[g] :
             f # g /\ l.id = m.id /\ Current(l)' => ~Current(m)'
      <4> SUFFICES ASSUME NEW f \in Dispatcher, NEW g \in Dispatcher,
                          NEW l \in batch'[f], NEW m \in batch'[g],
                          f # g, l.id = m.id, Current(l)', Current(m)'
                   PROVE  FALSE
        OBVIOUS
      <4>1. (f = d /\ l = r) \/ (l \in batch[f] /\ l.id # k.id /\ Current(l))
        BY <3>8
      <4>2. (g = d /\ m = r) \/ (m \in batch[g] /\ m.id # k.id /\ Current(m))
        BY <3>8
      <4> QED BY <3>1, <4>1, <4>2 DEF ClaimInv
    <3> QED BY <3>6, <3>9, <3>10, <3>11 DEF ClaimInv
  <2>2. CASE Publish(d, k) \/ PublishSucceeds(d, k) \/ PublishFails(d, k)
    BY <2>2 DEF Publish, PublishSucceeds, PublishFails, ClaimInv, Current, TypeOK
  <2>3. CASE LeaseLost(d, k) \/ MarkPublishedFails(d, k) \/ FailMessage(d, k)
    BY <2>3, ClaimDropped DEF LeaseLost, MarkPublishedFails, FailMessage
  <2>4. CASE MarkPublished(d, k)
    <3>1. \/ row' = row
          \/ /\ Current(k) /\ row'[k.id].status # "claimed"
             /\ \A c \in Command : c # k.id => row'[c] = row[c]
      BY <2>4, <2>0 DEF MarkPublished, TypeOK, Row
    <3>2. NextClaim(d, k) /\ now' = now
      BY <2>4 DEF MarkPublished
    <3> QED BY <3>1, <3>2, ClaimDropped
  <2>5. CASE RecordFailure(d, k)
    <3>1. \/ row' = row /\ NextClaim(d, k)
          \/ /\ Current(k) /\ row'[k.id].status # "claimed"
             /\ \A c \in Command : c # k.id => row'[c] = row[c]
             /\ \/ NextClaim(d, k)
                \/ /\ row'[k.id].status \in Final
                   /\ batch' = batch /\ pc' = [pc EXCEPT ![d] = "exhausted"]
      BY <2>5, <2>0 DEF RecordFailure, TypeOK, Final
    <3>2. now' = now
      BY <2>5 DEF RecordFailure
    <3>3. CASE NextClaim(d, k)
      BY <3>1, <3>2, <3>3, ClaimDropped
    <3>4. CASE /\ row'[k.id].status \in Final /\ Current(k)
               /\ batch' = batch /\ pc' = [pc EXCEPT ![d] = "exhausted"]
               /\ \A c \in Command : c # k.id => row'[c] = row[c]
      BY <3>2, <3>4 DEF ClaimInv, TypeOK, Current, Claim, Final
    <3> QED BY <3>1, <3>3, <3>4
  <2> QED BY <1>3, <2>1, <2>2, <2>3, <2>4, <2>5 DEF Handle
<1>4. ASSUME NEW d \in Dispatcher, EndBatch(d) \/ Abandon(d) PROVE ClaimInv'
  BY <1>4 DEF EndBatch, Abandon, ClaimInv, Current, TypeOK
<1>5. CASE Tick
  BY <1>5 DEF Tick, dispatchVars, ClaimInv, Current, TypeOK, Claim
<1>6. ASSUME NEW x \in Command, Broker(x) PROVE ClaimInv'
  BY <1>6 DEF Broker, BrokerStores, BrokerLoses, ConfirmSend, dispatchVars, ClaimInv, Current
<1>7. CASE UNCHANGED vars
  BY <1>7 DEF vars, dispatchVars, ClaimInv, Current
<1> QED BY <1>1, <1>2, <1>3, <1>4, <1>5, <1>6, <1>7 DEF Next

\* At most one dispatcher's claim on a row is current, whatever expires or
\* stalls: next_attempt_at is a fencing token (dispatchCompany's updates).
THEOREM ClaimsAreFenced == Spec => []ClaimExclusive
<1>1. ClaimInv => ClaimExclusive
  BY DEF ClaimInv, ClaimExclusive
<1> QED
  BY <1>1, TypeCorrect, EnqueueInit, EnqueueNext, OrderInit, OrderNext,
     ClaimInit, ClaimNext, PTL DEF Spec

-----------------------------------------------------------------------------
(***************************************************************************)
(* The retry budget: a current claim carries the attempt count of its row. *)
(***************************************************************************)
CountInv ==
    \A d \in Dispatcher : \A k \in batch[d] :
        Current(k) => row[k.id].attempts = k.attempts

\* How a step may write a committed row: it releases the row, spending one
\* attempt of a current claim, or it leases the row anew.
RowReleased(c) ==
    /\ row'[c].status # "claimed"
    /\ row'[c].attempts = row[c].attempts + 1

RowLeased(c) ==
    /\ row[c].status \in Active
    /\ row'[c].attempts = row[c].attempts
    /\ row'[c].next_attempt_at = now + Lease

LEMMA RowStep ==
    ASSUME TypeOK, CountInv, [Next]_vars, NEW c \in Command, Committed(c)
    PROVE  row'[c] = row[c] \/ RowReleased(c) \/ RowLeased(c)
<1> USE DEF TypeOK, Committed
<1>1. ASSUME NEW x \in Command, Enqueue(x) PROVE row'[c] = row[c]
  BY <1>1 DEF Enqueue, LockRecipient, InsertRow, CommitEnqueue, RollbackEnqueue
<1>2. ASSUME NEW d \in Dispatcher, NEW S \in SUBSET Command, ClaimBatch(d, S)
      PROVE  row'[c] = row[c] \/ RowLeased(c)
  BY <1>2 DEF ClaimBatch, Oldest, Claimable, Due, RowLeased
<1>3. ASSUME NEW d \in Dispatcher, NEW k \in batch[d], Handle(d, k)
      PROVE  row'[c] = row[c] \/ RowReleased(c) \/ RowLeased(c)
  <2>0. k.id \in Command /\ k.attempts \in Nat /\ row[c] \in Row
    BY BoundsAssumption DEF Claim
  <2>1. CASE Renew(d, k)
    BY <2>0, <2>1 DEF Renew, Current, RowLeased, Active, Row
  <2>2. CASE MarkPublished(d, k)
    <3>1. CASE c = k.id /\ Current(k)
      <4>1. row[c].attempts = k.attempts
        BY <3>1 DEF CountInv
      <4>2. row'[c].status = "published" /\ row'[c].attempts = k.attempts + 1
        BY <2>2, <2>0, <3>1 DEF MarkPublished, Row
      <4> QED BY <4>1, <4>2 DEF RowReleased
    <3>2. CASE ~(c = k.id /\ Current(k))
      BY <2>2, <2>0, <3>2 DEF MarkPublished
    <3> QED BY <3>1, <3>2
  <2>3. CASE RecordFailure(d, k)
    <3>1. CASE c = k.id /\ Current(k)
      <4>1. row[c].attempts = k.attempts
        BY <3>1 DEF CountInv
      <4>2. row'[c].status \in {"failed", "pending"} /\ row'[c].attempts = k.attempts + 1
        BY <2>3, <2>0, <3>1 DEF RecordFailure
      <4> QED BY <4>1, <4>2 DEF RowReleased
    <3>2. CASE ~(c = k.id /\ Current(k))
      BY <2>3, <2>0, <3>2 DEF RecordFailure
    <3> QED BY <3>1, <3>2
  <2>4. CASE row' = row
    BY <2>4
  <2> QED
    BY <1>3, <2>1, <2>2, <2>3, <2>4
       DEF Handle, LeaseLost, Publish, PublishSucceeds, PublishFails, MarkPublishedFails,
           FailMessage
<1>4. ASSUME NEW d \in Dispatcher, EndBatch(d) \/ Abandon(d) PROVE row'[c] = row[c]
  BY <1>4 DEF EndBatch, Abandon
<1>5. ASSUME NEW x \in Command, Broker(x) PROVE row'[c] = row[c]
  BY <1>5 DEF Broker, BrokerStores, BrokerLoses, ConfirmSend
<1>6. CASE Tick \/ UNCHANGED vars
  BY <1>6 DEF Tick, vars
<1> QED BY <1>1, <1>2, <1>3, <1>4, <1>5, <1>6 DEF Next

\* A claim that a step leaves with its loop is current afterwards only if it
\* was current before: a lost lease is never found again.
LEMMA CurrentWasCurrent ==
    ASSUME TypeOK, OrderInv, ClaimInv, CountInv, [Next]_vars,
           NEW d \in Dispatcher, NEW k \in batch[d], Current(k)'
    PROVE  Current(k)
<1>1. /\ k.id \in Command /\ k.claimUntil \in Nat /\ Committed(k.id) /\ now \in Nat
      /\ Lease \in Nat \ {0}
  BY BoundsAssumption DEF TypeOK, Claim, OrderInv, Cleared
<1>2. CASE row'[k.id] = row[k.id]
  BY <1>2 DEF Current
<1>3. CASE RowReleased(k.id)
  BY <1>3 DEF Current, RowReleased
<1>4. CASE RowLeased(k.id)
  <2>1. k.claimUntil = now + Lease
    BY <1>4 DEF Current, RowLeased
  <2>2. ~(k.claimUntil <= now)
    BY <1>1, <2>1
  <2>3. row[k.id].status \notin Final
    BY <1>4 DEF RowLeased, Active, Final
  <2> QED BY <2>2, <2>3 DEF ClaimInv
<1> QED BY <1>1, <1>2, <1>3, <1>4, RowStep

LEMMA CountInit == Init => CountInv
  BY DEF Init, CountInv

LEMMA CountNext ==
    TypeOK /\ OrderInv /\ ClaimInv /\ CountInv /\ [Next]_vars => CountInv'
<1> SUFFICES ASSUME TypeOK, OrderInv, ClaimInv, CountInv, [Next]_vars,
                    NEW d \in Dispatcher, NEW k \in batch'[d], Current(k)'
             PROVE  row'[k.id].attempts = k.attempts
  BY DEF CountInv
<1>1. CASE k \in batch[d]
  <2>1. k.id \in Command /\ Committed(k.id)
    BY <1>1 DEF TypeOK, Claim, OrderInv, Cleared
  <2>2. Current(k) /\ row[k.id].attempts = k.attempts
    BY <1>1, CurrentWasCurrent DEF CountInv
  <2>3. ~RowReleased(k.id)
    BY DEF RowReleased, Current
  <2>4. row'[k.id] = row[k.id] \/ RowLeased(k.id)
    BY <2>1, <2>3, RowStep
  <2> QED BY <2>2, <2>4 DEF RowLeased
<1>2. CASE k \notin batch[d]
  <2>1. ASSUME NEW f \in Dispatcher, NEW S \in SUBSET Command, ClaimBatch(f, S)
        PROVE  row'[k.id].attempts = k.attempts
    <3>1. f = d
      BY <1>2, <2>1 DEF ClaimBatch, TypeOK
    <3>2. PICK c \in S : k = [id |-> c, attempts |-> row[c].attempts, claimUntil |-> now + Lease]
      BY <2>1, <3>1 DEF ClaimBatch, TypeOK
    <3> QED BY <2>1, <3>2 DEF ClaimBatch
  <2>2. ASSUME NEW f \in Dispatcher, NEW m \in batch[f], Renew(f, m)
        PROVE  row'[k.id].attempts = k.attempts
    <3>0. m \in Claim /\ m.id \in Command /\ row[m.id] \in Row
      BY DEF TypeOK, Claim
    <3>1. f = d
      BY <1>2, <2>2 DEF Renew, TypeOK
    <3>2. k = [m EXCEPT !.claimUntil = now + Lease]
      BY <1>2, <2>2, <3>1 DEF Renew, TypeOK
    <3>3. k.id = m.id /\ k.attempts = m.attempts
      BY <3>0, <3>2 DEF Claim
    <3>4. row[m.id].attempts = m.attempts
      BY <2>2 DEF Renew, CountInv
    <3>5. row'[m.id].attempts = row[m.id].attempts
      BY <2>2, <3>0 DEF Renew, TypeOK, Row
    <3> QED BY <3>3, <3>4, <3>5
  <2>3. ASSUME NEW f \in Dispatcher, NEW m \in batch[f], Handle(f, m), ~Renew(f, m)
        PROVE  FALSE
    BY <1>2, <2>3 DEF Handle, LeaseLost, Publish, PublishSucceeds, PublishFails, MarkPublished,
          MarkPublishedFails, RecordFailure, FailMessage, NextClaim, TypeOK
  <2>4. ASSUME NEW f \in Dispatcher, EndBatch(f) \/ Abandon(f) PROVE FALSE
    BY <1>2, <2>4 DEF EndBatch, Abandon, TypeOK
  <2>5. ASSUME NEW x \in Command, Enqueue(x) \/ Broker(x) PROVE FALSE
    BY <1>2, <2>5 DEF Enqueue, LockRecipient, InsertRow, CommitEnqueue, RollbackEnqueue,
          Broker, BrokerStores, BrokerLoses, ConfirmSend, dispatchVars
  <2>6. CASE Tick \/ UNCHANGED vars
    BY <1>2, <2>6 DEF Tick, vars, dispatchVars
  <2> QED BY <2>1, <2>2, <2>3, <2>4, <2>5, <2>6 DEF Next
<1> QED BY <1>1, <1>2

OutboxInv == TypeOK /\ EnqueueInv /\ OrderInv /\ ClaimInv /\ CountInv

LEMMA OutboxInvariant == Spec => []OutboxInv
<1>1. Init => OutboxInv
  BY TypeInit, EnqueueInit, OrderInit, ClaimInit, CountInit DEF OutboxInv
<1>2. OutboxInv /\ [Next]_vars => OutboxInv'
  BY TypeNext, EnqueueNext, OrderNext, ClaimNext, CountNext DEF OutboxInv
<1> QED BY <1>1, <1>2, PTL DEF Spec

\* Every write of a committed row leaves its attempt count alone or adds one to
\* it: no stale loop gives attempts back or spends one twice
\* (the claim tokens of dispatchCompany's updates).
THEOREM AttemptsSpentOneByOne == Spec => AttemptsCounted
<1>1. OutboxInv /\ [Next]_vars
        => [\A c \in Command :
              Committed(c) =>
                row'[c].attempts \in {row[c].attempts, row[c].attempts + 1}]_vars
  BY RowStep DEF OutboxInv, RowReleased, RowLeased
<1> QED BY <1>1, OutboxInvariant, PTL DEF Spec, AttemptsCounted

-----------------------------------------------------------------------------
(***************************************************************************)
(* The message of a command.  It exists from the commit on; it fails only  *)
(* for a row that has used up its budget, which no step writes again.      *)
(***************************************************************************)
UsedUp(c) == row[c].status = "failed" /\ row[c].attempts = MaxAttempts

MessageInv ==
    /\ \A c \in Command : message[c] # "none" => Committed(c)
    /\ \A d \in Dispatcher : \A k \in batch[d] :
         pc[d] = "exhausted" /\ First(d, k) => UsedUp(k.id)
    /\ \A c \in Command : message[c] = "failed" => UsedUp(c)

\* The claims of a turn are worked through in one order only.
LEMMA FirstIsUnique ==
    ASSUME TypeOK, EnqueueInv, OrderInv,
           NEW d \in Dispatcher, NEW k \in batch[d], NEW m \in batch[d],
           First(d, k), First(d, m)
    PROVE  m.id = k.id
<1>1. /\ k.id \in Command /\ m.id \in Command
      /\ created[m.id] \in Nat /\ created[k.id] \in Nat
  BY DEF TypeOK, Claim
<1>2. created[k.id] = created[m.id]
  BY <1>1 DEF First
<1>3. Inserted(k.id)
  BY <1>1 DEF OrderInv, Cleared, Committed, EnqueueInv
<1> QED BY <1>1, <1>2, <1>3 DEF EnqueueInv

\* Only these steps change what a message shows.
LEMMA MessageStep ==
    ASSUME TypeOK, [Next]_vars, NEW c \in Command, message'[c] # message[c]
    PROVE  \/ CommitEnqueue(c) /\ message'[c] = "pending"
           \/ ConfirmSend(c) /\ message'[c] = "sent"
           \/ /\ message[c] = "pending" /\ message'[c] = "failed"
              /\ \E d \in Dispatcher : \E k \in batch[d] : k.id = c /\ FailMessage(d, k)
<1> USE DEF TypeOK
<1>1. ASSUME NEW x \in Command, CommitEnqueue(x) PROVE x = c /\ message'[c] = "pending"
  BY <1>1 DEF CommitEnqueue
<1>2. ASSUME NEW x \in Command, ConfirmSend(x) PROVE x = c /\ message'[c] = "sent"
  BY <1>2 DEF ConfirmSend
<1>3. ASSUME NEW d \in Dispatcher, NEW k \in batch[d], FailMessage(d, k)
      PROVE  k.id = c /\ message[c] = "pending" /\ message'[c] = "failed"
  BY <1>3 DEF FailMessage, Claim
<1>4. \/ \E x \in Command : CommitEnqueue(x) \/ ConfirmSend(x)
      \/ \E d \in Dispatcher : \E k \in batch[d] : FailMessage(d, k)
  <2>1. message' # message
    OBVIOUS
  <2> QED
    BY <2>1
       DEF Next, vars, Enqueue, LockRecipient, InsertRow, RollbackEnqueue, Broker,
           BrokerStores, BrokerLoses, ClaimBatch, Handle, Renew, LeaseLost, Publish,
           PublishSucceeds, PublishFails, MarkPublished, MarkPublishedFails,
           RecordFailure, EndBatch, Abandon, Tick
<1> HIDE DEF TypeOK
<1> QED BY <1>1, <1>2, <1>3, <1>4

LEMMA UsedUpStable ==
    ASSUME TypeOK, [Next]_vars, NEW c \in Command, Committed(c), UsedUp(c)
    PROVE  UsedUp(c)'
  BY FinalRowKept DEF UsedUp, Final

LEMMA MessageInit == Init => MessageInv
  BY DEF Init, MessageInv

LEMMA MessageNext == OutboxInv /\ MessageInv /\ [Next]_vars => MessageInv'
<1> SUFFICES ASSUME OutboxInv, MessageInv, [Next]_vars PROVE MessageInv'
  OBVIOUS
<1> USE DEF OutboxInv
<1>1. ASSUME NEW c \in Command, message'[c] # "none" PROVE Committed(c)'
  <2>1. CASE message'[c] = message[c]
    BY <1>1, <2>1, CommittedStable DEF MessageInv
  <2>2. CASE CommitEnqueue(c)
    BY <2>2 DEF CommitEnqueue, Committed, TypeOK
  <2>3. CASE message[c] \in {"pending", "failed"}
    BY <2>3, CommittedStable DEF MessageInv
  <2> QED BY <2>1, <2>2, <2>3, MessageStep DEF ConfirmSend
<1>2. ASSUME NEW d \in Dispatcher, NEW k \in batch'[d], pc'[d] = "exhausted", First(d, k)'
      PROVE  UsedUp(k.id)'
  <2>1. ASSUME NEW m \in batch[d], RecordFailure(d, m) PROVE UsedUp(k.id)'
    <3>0. m.id \in Command /\ m.attempts \in 0 .. MaxAttempts - 1 /\ MaxAttempts \in Nat
      BY BoundsAssumption DEF TypeOK, Claim
    <3>1. /\ Exhausted(m.attempts + 1) /\ First(d, m) /\ batch' = batch
          /\ created' = created
          /\ row' = [row EXCEPT ![m.id] =
                       [status |-> "failed", attempts |-> m.attempts + 1,
                        next_attempt_at |-> now + RetryDelay(m.attempts + 1)]]
      BY <1>2, <2>1 DEF RecordFailure, NextClaim, TypeOK, enqueueVars
    <3>2. k.id = m.id
      BY <1>2, <3>1, FirstIsUnique DEF First
    <3>3. m.attempts + 1 = MaxAttempts
      BY <3>0, <3>1 DEF Exhausted
    <3> QED BY <3>0, <3>1, <3>2, <3>3 DEF UsedUp, TypeOK
  <2>2. ASSUME pc'[d] = pc[d], batch'[d] = batch[d],
               \A m \in batch[d] : created'[m.id] = created[m.id]
        PROVE  UsedUp(k.id)'
    <3>1. k \in batch[d] /\ First(d, k) /\ pc[d] = "exhausted"
      BY <1>2, <2>2 DEF First
    <3>2. k.id \in Command /\ Committed(k.id)
      BY <3>1 DEF TypeOK, Claim, OrderInv, Cleared
    <3>3. UsedUp(k.id)
      BY <3>1 DEF MessageInv
    <3> QED BY <3>2, <3>3, UsedUpStable
  <2>3. ASSUME NEW x \in Command, Enqueue(x) PROVE UsedUp(k.id)'
    <3>1. \A m \in batch[d] : created'[m.id] = created[m.id]
      BY <2>3 DEF OrderInv, Cleared, Committed, TypeOK, Claim, Enqueue, LockRecipient,
                  InsertRow, CommitEnqueue, RollbackEnqueue
    <3> QED BY <2>2, <2>3, <3>1 DEF Enqueue, LockRecipient, InsertRow, CommitEnqueue,
                  RollbackEnqueue, dispatchVars
  <2>4. ASSUME NEW f \in Dispatcher, NEW S \in SUBSET Command, ClaimBatch(f, S)
        PROVE  UsedUp(k.id)'
    <3>1. f # d
      BY <1>2, <2>4 DEF ClaimBatch, TypeOK
    <3> QED BY <2>2, <2>4, <3>1 DEF ClaimBatch, TypeOK, enqueueVars
  <2>5. ASSUME NEW f \in Dispatcher, NEW m \in batch[f], Handle(f, m) PROVE UsedUp(k.id)'
    <3>1. CASE f = d
      <4>1. RecordFailure(d, m)
        BY <1>2, <2>5, <3>1 DEF Handle, Renew, LeaseLost, Publish, PublishSucceeds,
              PublishFails, MarkPublished, MarkPublishedFails, FailMessage, NextClaim, TypeOK
      <4> QED BY <2>1, <3>1, <4>1
    <3>2. CASE f # d
      BY <2>2, <2>5, <3>2 DEF Handle, Renew, LeaseLost, Publish, PublishSucceeds,
            PublishFails, MarkPublished, MarkPublishedFails, RecordFailure, FailMessage,
            NextClaim, TypeOK, enqueueVars
    <3> QED BY <3>1, <3>2
  <2>6. ASSUME NEW f \in Dispatcher, EndBatch(f) \/ Abandon(f) PROVE UsedUp(k.id)'
    <3>1. f # d
      BY <1>2, <2>6 DEF EndBatch, Abandon, TypeOK
    <3> QED BY <2>2, <2>6, <3>1 DEF EndBatch, Abandon, TypeOK, enqueueVars
  <2>7. CASE UNCHANGED <<enqueueVars, dispatchVars>>
    BY <2>2, <2>7 DEF enqueueVars, dispatchVars
  <2> QED BY <2>3, <2>4, <2>5, <2>6, <2>7
             DEF Next, Broker, BrokerStores, BrokerLoses, ConfirmSend, Tick, vars
<1>3. ASSUME NEW c \in Command, message'[c] = "failed" PROVE UsedUp(c)'
  <2>1. CASE message[c] = "failed"
    BY <2>1, UsedUpStable DEF MessageInv
  <2>2. ASSUME NEW d \in Dispatcher, NEW k \in batch[d], k.id = c, FailMessage(d, k)
        PROVE  UsedUp(c)'
    <3>1. UsedUp(c) /\ Committed(c)
      BY <2>2 DEF FailMessage, MessageInv, OrderInv, Cleared
    <3> QED BY <3>1, UsedUpStable
  <2> QED BY <1>3, <2>1, <2>2, MessageStep
<1> QED BY <1>1, <1>2, <1>3 DEF MessageInv

\* A message is shown as failed only when its row has failed for good, with the
\* whole retry budget spent (the exhausted branch of dispatchCompany).
THEOREM FailureIsFinal == Spec => []FailedMeansExhausted
<1>1. MessageInv => FailedMeansExhausted
  BY DEF MessageInv, FailedMeansExhausted, UsedUp
<1> QED BY <1>1, OutboxInvariant, MessageInit, MessageNext, PTL DEF Spec

\* A confirmed send is never shown as failed or pending again: the exhausted
\* branch writes pending messages only, and a commit only a new one.
THEOREM ConfirmationIsFinal == Spec => ConfirmedStaysSent
<1>1. OutboxInv /\ MessageInv /\ [Next]_vars
        => [\A c \in Command : message[c] = "sent" => message'[c] = "sent"]_vars
  <2> SUFFICES ASSUME OutboxInv, MessageInv, [Next]_vars,
                      NEW c \in Command, message[c] = "sent", message'[c] # "sent"
               PROVE  FALSE
    OBVIOUS
  <2>1. Committed(c)
    BY DEF MessageInv
  <2> QED BY <2>1, MessageStep DEF OutboxInv, CommitEnqueue, Committed
<1> QED BY <1>1, OutboxInvariant, MessageInit, MessageNext, PTL
           DEF Spec, ConfirmedStaysSent

-----------------------------------------------------------------------------
(***************************************************************************)
(* The outbox implements ConversationLog.                                  *)
(***************************************************************************)

\* A cleared command satisfies the guard of the abstract Store and Drop.
LEMMA ClearedIsNext ==
    ASSUME TypeOK, EnqueueInv, OrderInv, NEW c \in Command, Cleared(c)
    PROVE  Place[c] # 0 /\ Log!AllBeforeSettled(c)
<1>1. Committed(c) /\ Inserted(c) /\ Place[c] = created[c]
  BY DEF Cleared, Committed, EnqueueInv, Place
<1>2. ASSUME NEW e \in Command, Log!Before(e, c) PROVE e \in accepted \cup Dropped
  <2>1. Committed(e) /\ created[e] < created[c] /\ SameRecipient(e, c)
    BY <1>1, <1>2 DEF Log!Before, Log!SameConversation, SameRecipient, Place, TypeOK
  <2>2. row[e].status \in Final
    BY <1>1, <2>1 DEF Cleared, Precedes
  <2> QED BY <2>1, <2>2 DEF Final, OrderInv, Dropped
<1> QED BY <1>1, <1>2 DEF Inserted, Log!AllBeforeSettled

\* The place of a committed command, and the set of failed rows, change with a
\* commit and with the exhausted branch only.
LEMMA PlaceStep ==
    ASSUME TypeOK, [Next]_vars, ~\E c \in Command : CommitEnqueue(c)
    PROVE  UNCHANGED Place
<1> SUFFICES ASSUME NEW c \in Command PROVE Place'[c] = Place[c]
  BY DEF Place
<1> USE DEF TypeOK, Place, Committed
<1>1. CASE UNCHANGED enqueueVars
  BY <1>1 DEF enqueueVars
<1>2. ASSUME NEW x \in Command, LockRecipient(x) \/ InsertRow(x) \/ RollbackEnqueue(x)
      PROVE  Place'[c] = Place[c]
  BY <1>2 DEF LockRecipient, InsertRow, RollbackEnqueue, HoldsLock
<1> QED BY <1>1, <1>2, EnqueueFrame DEF Enqueue

\* Only the INSERT writes a row before its commit, so a commit brings in a
\* pending row.
LEMMA UncommittedRow ==
    ASSUME OutboxInv, [Next]_vars, NEW c \in Command, ~Committed(c)
    PROVE  row'[c] = row[c] \/ InsertRow(c)
<1> USE DEF OutboxInv, TypeOK
<1>1. ASSUME NEW x \in Command, Enqueue(x) PROVE row'[c] = row[c] \/ InsertRow(c)
  BY <1>1 DEF Enqueue, LockRecipient, InsertRow, CommitEnqueue, RollbackEnqueue
<1>2. ASSUME NEW d \in Dispatcher, NEW S \in SUBSET Command, ClaimBatch(d, S)
      PROVE  row'[c] = row[c]
  BY <1>2 DEF ClaimBatch, Oldest, Claimable
<1>3. ASSUME NEW d \in Dispatcher, NEW k \in batch[d], Handle(d, k)
      PROVE  row'[c] = row[c]
  <2>1. k.id \in Command /\ k.id # c
    BY DEF Claim, OrderInv, Cleared
  <2> QED
    BY <1>3, <2>1 DEF Handle, Renew, LeaseLost, Publish, PublishSucceeds, PublishFails,
          MarkPublished, MarkPublishedFails, RecordFailure, FailMessage
<1>4. CASE row' = row
  BY <1>4
<1> QED BY <1>1, <1>2, <1>3, <1>4
           DEF Next, EndBatch, Abandon, Broker, BrokerStores, BrokerLoses, ConfirmSend,
               Tick, vars

FreshInv == \A c \in Command : phase[c] = "inserted" => row[c].status = "pending"

LEMMA FreshInit == Init => FreshInv
  BY DEF Init, FreshInv

LEMMA FreshNext == OutboxInv /\ FreshInv /\ [Next]_vars => FreshInv'
<1> SUFFICES ASSUME OutboxInv, FreshInv, [Next]_vars,
                    NEW c \in Command, phase'[c] = "inserted"
             PROVE  row'[c].status = "pending"
  BY DEF FreshInv
<1>1. CASE InsertRow(c)
  BY <1>1 DEF InsertRow, NewRow, OutboxInv, TypeOK
<1>2. CASE ~InsertRow(c)
  <2>1. phase[c] = "inserted"
    <3>1. CASE UNCHANGED enqueueVars
      BY <3>1 DEF enqueueVars
    <3>2. ASSUME NEW x \in Command, Enqueue(x) PROVE phase[c] = "inserted"
      BY <1>2, <3>2 DEF Enqueue, LockRecipient, InsertRow, CommitEnqueue,
            RollbackEnqueue, OutboxInv, TypeOK
    <3> QED BY <3>1, <3>2, EnqueueFrame
  <2>2. row'[c] = row[c]
    BY <1>2, <2>1, UncommittedRow DEF Committed
  <2> QED BY <2>1, <2>2 DEF FreshInv
<1> QED BY <1>1, <1>2

\* A row fails in the exhausted branch only, for a claim that is current.
LEMMA FailedStep ==
    ASSUME OutboxInv, FreshInv, [Next]_vars, NEW c \in Command, c \notin Dropped, c \in Dropped'
    PROVE  \E d \in Dispatcher : \E k \in batch[d] : k.id = c /\ RecordFailure(d, k)
<1> USE DEF OutboxInv, TypeOK
<1>0. Committed(c)' /\ row'[c].status = "failed" /\ ~(Committed(c) /\ row[c].status = "failed")
  BY DEF Dropped
<1>1. ASSUME NEW x \in Command, Enqueue(x) PROVE FALSE
  BY <1>0, <1>1 DEF Enqueue, LockRecipient, InsertRow, CommitEnqueue, RollbackEnqueue,
        Committed, FreshInv
<1>2. CASE UNCHANGED enqueueVars
  <2>0. Committed(c) /\ row[c].status # "failed"
    BY <1>0, <1>2 DEF enqueueVars, Committed
  <2>1. ASSUME NEW d \in Dispatcher, NEW S \in SUBSET Command, ClaimBatch(d, S) PROVE FALSE
    BY <1>0, <2>0, <2>1 DEF ClaimBatch
  <2>2. ASSUME NEW d \in Dispatcher, NEW k \in batch[d], Handle(d, k)
        PROVE  k.id = c /\ RecordFailure(d, k)
    <3>1. k.id \in Command
      BY DEF Claim
    <3>2. CASE Renew(d, k)
      BY <1>0, <2>0, <3>1, <3>2 DEF Renew, Row
    <3>3. CASE MarkPublished(d, k)
      BY <1>0, <2>0, <3>1, <3>3 DEF MarkPublished, Row
    <3>4. CASE RecordFailure(d, k)
      BY <1>0, <2>0, <3>1, <3>4 DEF RecordFailure
    <3>5. row' # row
      BY <1>0, <2>0
    <3> QED BY <2>2, <3>2, <3>3, <3>4, <3>5
               DEF Handle, LeaseLost, Publish, PublishSucceeds, PublishFails,
                   MarkPublishedFails, FailMessage
  <2>3. row' # row
    BY <1>0, <2>0
  <2>4. ~\E x \in Command : Enqueue(x)
    BY <1>1
  <2> QED BY <2>1, <2>2, <2>3, <2>4
             DEF Next, EndBatch, Abandon, Broker, BrokerStores, BrokerLoses, ConfirmSend,
                 Tick, vars
<1> QED BY <1>1, <1>2, EnqueueFrame

LEMMA LogInit == Init => Log!Init
  BY DEF Init, Log!Init, Place, Dropped, Committed

LEMMA LogStep ==
    ASSUME OutboxInv, FreshInv, [Next]_vars PROVE [Log!Next]_(Log!vars)
<1> USE DEF OutboxInv
<1>1. ASSUME NEW c \in Command, CommitEnqueue(c) PROVE Log!Accept(c)
  <2>1. Place[c] = 0 /\ Place'[c] = created[c] /\ created[c] \in Nat \ {0}
    BY <1>1 DEF CommitEnqueue, Place, Committed, TypeOK, EnqueueInv, Inserted
  <2>2. Place' = [Place EXCEPT ![c] = Place'[c]]
    BY <1>1 DEF CommitEnqueue, Place, Committed, TypeOK
  <2>3. ASSUME NEW f \in Command, Log!SameConversation(f, c) PROVE Place[f] < Place'[c]
    <3>1. CASE f = c
      BY <2>1, <3>1
    <3>2. CASE f # c
      <4>1. created[f] < created[c] /\ created[f] \in Nat
        BY <1>1, <2>3, <3>2
           DEF CommitEnqueue, EnqueueInv, SameRecipient, Log!SameConversation, TypeOK
      <4>2. Place[f] \in {0, created[f]}
        BY DEF Place
      <4> QED BY <2>1, <4>1, <4>2
    <3> QED BY <3>1, <3>2
  <2>4. UNCHANGED <<accepted, Dropped>>
    <3>1. row'[c].status # "failed"
      BY <1>1 DEF CommitEnqueue, FreshInv
    <3> QED BY <1>1, <3>1 DEF CommitEnqueue, Dropped, Committed, TypeOK, brokerVars
  <2> QED BY <2>1, <2>2, <2>3, <2>4 DEF Log!Accept
<1>2. ASSUME NEW c \in Command, BrokerStores(c) PROVE Log!Store(c)
  <2>1. Place[c] # 0 /\ Log!AllBeforeSettled(c)
    BY <1>2, ClearedIsNext DEF BrokerStores, OrderInv
  <2>2. UNCHANGED <<Place, Dropped>> /\ accepted' = accepted \cup {c}
    BY <1>2 DEF BrokerStores, enqueueVars, Place, Dropped, Committed
  <2> QED BY <2>1, <2>2 DEF Log!Store
<1>3. ASSUME NEW d \in Dispatcher, NEW k \in batch[d], RecordFailure(d, k), k.id \in Dropped'
      PROVE  Log!Drop(k.id)
  <2>0. k.id \in Command /\ Cleared(k.id)
    BY DEF OrderInv, TypeOK, Claim
  <2>1. Place[k.id] # 0 /\ Log!AllBeforeSettled(k.id)
    BY <2>0, ClearedIsNext
  <2>2. UNCHANGED <<Place, accepted>>
    BY <1>3 DEF RecordFailure, enqueueVars, brokerVars, Place, Committed
  <2>3. \A c \in Command : c # k.id => (c \in Dropped' <=> c \in Dropped)
    BY <1>3, <2>0 DEF RecordFailure, enqueueVars, Dropped, Committed, TypeOK
  <2>4. Dropped' = Dropped \cup {k.id}
    <3>1. Dropped \subseteq Command /\ Dropped' \subseteq Command
      BY DEF Dropped
    <3> QED BY <1>3, <2>0, <2>3, <3>1
  <2> QED BY <2>1, <2>2, <2>4 DEF Log!Drop
<1>4. CASE /\ ~\E c \in Command : CommitEnqueue(c) \/ BrokerStores(c)
           /\ Dropped' \subseteq Dropped
  <2>1. UNCHANGED Place
    BY <1>4, PlaceStep
  <2>2. UNCHANGED accepted
    BY <1>4 DEF Next, vars, Enqueue, LockRecipient, InsertRow, RollbackEnqueue, Broker,
         BrokerLoses, ConfirmSend, ClaimBatch, Handle, Renew, LeaseLost, Publish,
         PublishSucceeds, PublishFails, MarkPublished, MarkPublishedFails, RecordFailure,
         FailMessage, EndBatch, Abandon, Tick, brokerVars
  <2>3. Dropped \subseteq Dropped'
    BY FinalRowKept, CommittedStable DEF Dropped, Final
  <2> QED BY <1>4, <2>1, <2>2, <2>3 DEF Log!vars
<1>5. CASE \E c \in Command : c \notin Dropped /\ c \in Dropped'
  <2>0. PICK d \in Dispatcher : \E k \in batch[d] : RecordFailure(d, k) /\ k.id \in Dropped'
    BY <1>5, FailedStep
  <2>1. PICK k \in batch[d] : RecordFailure(d, k) /\ k.id \in Dropped'
    BY <2>0
  <2>2. k.id \in Command
    BY DEF TypeOK, Claim
  <2> QED BY <1>3, <2>1, <2>2 DEF Log!Next
<1> QED
  <2>1. Dropped' \subseteq Command
    BY DEF Dropped
  <2> QED BY <1>1, <1>2, <1>4, <1>5, <2>1 DEF Log!Next

\* The outbox keeps an ordered log per conversation: every replica, retry, lease
\* and late publication is a step of ConversationLog or no step at all
\* (enqueueCommand, dispatchCompany).
THEOREM OutboxKeepsOrder == Spec => KeepsOrder
<1>1. OutboxInv /\ FreshInv /\ [Next]_vars => [Log!Next]_(Log!vars)
  BY LogStep
<1> QED BY <1>1, LogInit, OutboxInvariant, FreshInit, FreshNext, PTL
           DEF Spec, KeepsOrder, Log!Spec
=============================================================================
