------------------------- MODULE SendSchedulerProofs -------------------------
(***************************************************************************)
(* For any messages, contacts and limits: the scheduler's accounts are     *)
(* exact and the commands of a contact start in stream order.              *)
(*                                                                         *)
(* The argument: the queues, the round robin list and activeIDs describe   *)
(* the same commands (Consistent); what is ready, being prepared, holds a  *)
(* buffer or is being sent is the head of its queue (HeadsOnly); so a turn *)
(* of the loop changes one queue at one end and every account by one. The  *)
(* order of a contact rests on what a command has in front of it when it   *)
(* is admitted: everything published before it was delivered before it and *)
(* is started or in the same queue (Known, Lined).                         *)
(***************************************************************************)
EXTENDS SendScheduler, TLAPS, SequenceTheorems, FiniteSetTheorems, WellFoundedInduction

QueuedIn(q) == UNION {ToSet(q[k]) : k \in Contact}
HeadOf(q, j) == q[Key(Message(j))] # <<>> /\ Head(q[Key(Message(j))]) = j

\* The queues, the round robin list and the ids in them agree.
Consistent(q, o, ids) ==
    /\ q \in [Contact -> Seq(Job)]
    /\ o \in Seq(Contact)
    /\ \A k \in Contact : IsInjective(q[k]) /\ \A j \in ToSet(q[k]) : Key(Message(j)) = k
    /\ ids \ {NoId} = {Id[Message(j)] : j \in QueuedIn(q)} \ {NoId}
    /\ \A i, j \in QueuedIn(q) :
         Id[Message(i)] = Id[Message(j)] /\ Id[Message(i)] # NoId => i = j
    /\ ToSet(o) = {k \in Contact : q[k] # <<>>}
    /\ IsInjective(o)

\* What is ready, in preparation or in memory is at the head of its queue.
HeadsOnly(q, rd, pr, bf) ==
    /\ \A j \in rd : HeadOf(q, j) /\ pr[j] = "none"
    /\ \A j \in Job : pr[j] # "none" => HeadOf(q, j)
    /\ \A j \in bf : HeadOf(q, j) /\ (j \in rd \/ pr[j] \in {"download", "offer"})

\* Slots belong to queued commands and the fetcher, media slots to buffers.
Accounts ==
    /\ IsFiniteSet(Queued)
    /\ fetcher # "stopped" =>
          slots = Cardinality(Queued) + (IF fetcher = "slot" THEN 0 ELSE 1)
    /\ phase = "running" => fetcher # "stopped"
    /\ phase = "stopping" => fetcher # "slot"
    /\ IsFiniteSet(buffers)
    /\ mediaSlots = Cardinality(buffers)

\* What is offered is a delivery after all those in the queues.
Numbered ==
    /\ \A j \in Queued : j[2] <= deliveries[Message(j)]
    /\ fetcher = "offer" => offer \notin Queued /\ offer[2] <= deliveries[Message(offer)]

\* What the sender works on.
Sent(s, h, rd, x) ==
    /\ s = None <=> h = "none"
    /\ s # None => s \in rd /\ Command(Message(s)) \in x
    /\ h = "settled" /\ Message(s) \notin Control => stream[Message(s)] = "done"

\* m goes to the same contact as n and was published before n and all its copies.
Before(m, n) == To[m] = To[n] /\ \A o \in Msg : Command(o) = Command(n) => m < o

Started(x) == \A m, n \in Msg : Before(m, n) /\ Command(n) \in x => Command(m) \in x
Lined(q, x) ==
    \A k \in Contact : \A i \in 1 .. Len(q[k]) : \A m \in Msg :
        Before(m, Message(q[k][i])) =>
            Command(m) \in x \/ \E j \in 1 .. i - 1 : Command(Message(q[k][j])) = Command(m)
Known(q, x) ==
    \A m \in Msg : deliveries[m] > 0 =>
        \/ Command(m) \in x
        \/ \E j \in QueuedIn(q) : Command(Message(j)) = Command(m)
        \/ fetcher = "offer" /\ Command(Message(offer)) = Command(m)
InTurn ==
    /\ \A m, n \in Msg : m < n /\ deliveries[n] > 0 => deliveries[m] > 0
    /\ fetcher = "offer" => deliveries[Message(offer)] > 0

OrderKept ==
    restarts = 0 =>
        /\ Started(executed) /\ Lined(queue, executed)
        /\ phase = "running" => Known(queue, executed)
        /\ InTurn

IInv ==
    /\ TypeOK
    /\ Consistent(queue, order, activeIds)
    /\ HeadsOnly(queue, ready, prep, buffers)
    /\ Accounts
    /\ Numbered
    /\ Sent(sending, handler, ready, executed)
    /\ OrderKept

-----------------------------------------------------------------------------
(***************************************************************************)
(* Sequences without repetitions.                                          *)
(***************************************************************************)

\* A nonempty set of naturals contains its minimum.
LEMMA MinIsElement ==
  ASSUME NEW I, I \subseteq Nat, I # {}
  PROVE  Min(I) \in I
<1> DEFINE R == {ss \in Nat \X Nat : ss[1] < ss[2]}
<1>1. IsWellFoundedOn(R, Nat)
  BY NatLessThanWellFounded DEF OpToRel
<1>2. PICK x \in I : \A y \in I : ~(<<y, x>> \in R)
  <2> HIDE DEF R
  <2> QED BY <1>1, WFMin
<1>3. ASSUME NEW y \in I, y < x
      PROVE  FALSE
  <2>1. <<y, x>> \in Nat \X Nat /\ <<y, x>>[1] = y /\ <<y, x>>[2] = x
    OBVIOUS
  <2>2. <<y, x>> \in R
    BY <2>1, <1>3
  <2>3. QED
    BY <1>2, <2>2
<1>5. \A y \in I : x <= y
  BY <1>3
<1>4. QED
  BY <1>5 DEF Min

\* What Append, the end of every queue and of the list, does to a sequence.
LEMMA AppendFacts ==
  ASSUME NEW S, NEW s \in Seq(S), NEW e \in S
  PROVE  /\ Append(s, e) \in Seq(S)
         /\ Append(s, e) # <<>>
         /\ ToSet(Append(s, e)) = ToSet(s) \cup {e}
         /\ IsInjective(s) /\ e \notin ToSet(s) => IsInjective(Append(s, e))
         /\ Head(Append(s, e)) = IF s = <<>> THEN e ELSE Head(s)
<1>1. /\ Append(s, e) \in Seq(S)
      /\ Append(s, e) # <<>>
      /\ Len(Append(s, e)) = Len(s) + 1
      /\ \A i \in 1 .. Len(s) : Append(s, e)[i] = s[i]
      /\ Append(s, e)[Len(s) + 1] = e
  BY AppendProperties
<1>2. /\ Len(s) \in Nat /\ DOMAIN s = 1 .. Len(s)
      /\ DOMAIN Append(s, e) = 1 .. Len(s) + 1
  BY <1>1, LenProperties
<1>3. ToSet(Append(s, e)) = ToSet(s) \cup {e}
  BY <1>1, <1>2 DEF ToSet
<1>4. IsInjective(s) /\ e \notin ToSet(s) => IsInjective(Append(s, e))
  BY <1>1, <1>2 DEF ToSet, IsInjective
<1>5. QED
  BY <1>1, <1>3, <1>4, HeadTailAppend

\* What removing the head of a queue does.
LEMMA TailFacts ==
  ASSUME NEW S, NEW s \in Seq(S), s # <<>>, IsInjective(s)
  PROVE  /\ Tail(s) \in Seq(S)
         /\ Head(s) \in S /\ Head(s) \in ToSet(s)
         /\ ToSet(Tail(s)) = ToSet(s) \ {Head(s)}
         /\ IsInjective(Tail(s))
         /\ Head(s) = s[1]
         /\ Len(s) \in Nat \ {0} /\ Len(Tail(s)) = Len(s) - 1
         /\ \A i \in 1 .. Len(Tail(s)) : Tail(s)[i] = s[i + 1]
<1>1. /\ Head(s) \in S /\ Tail(s) \in Seq(S) /\ Len(Tail(s)) = Len(s) - 1
      /\ \A i \in 1 .. Len(Tail(s)) : Tail(s)[i] = s[i + 1]
  BY HeadTailProperties
<1>2. Len(s) \in Nat \ {0} /\ DOMAIN s = 1 .. Len(s) /\ DOMAIN Tail(s) = 1 .. Len(s) - 1
  BY <1>1, LenProperties, EmptySeq
<1>3. Head(s) = s[1]
  OBVIOUS
<1>4. IsInjective(Tail(s))
  BY <1>1, <1>2 DEF IsInjective
<1>5. ToSet(Tail(s)) \subseteq ToSet(s) \ {Head(s)}
  BY <1>1, <1>2, <1>3 DEF ToSet, IsInjective
<1>6. ASSUME NEW x \in ToSet(s) \ {Head(s)}
      PROVE  x \in ToSet(Tail(s))
  <2>1. PICK i \in 1 .. Len(s) : s[i] = x
    BY <1>2 DEF ToSet
  <2>2. i - 1 \in 1 .. Len(s) - 1 /\ Tail(s)[i - 1] = x
    BY <2>1, <1>1, <1>2, <1>3
  <2>3. QED
    BY <2>2, <1>2 DEF ToSet
<1>7. Head(s) \in ToSet(s)
  BY <1>2, <1>3 DEF ToSet
<1>8. ToSet(Tail(s)) = ToSet(s) \ {Head(s)}
  BY <1>5, <1>6
<1>9. QED
  BY <1>1, <1>2, <1>3, <1>4, <1>7, <1>8

\* The elements of a sequence in a different cyclic order.
LEMMA SameCycle ==
  ASSUME NEW s, NEW r, NEW n \in Nat, NEW i \in 1 .. n,
         DOMAIN s = 1 .. n, DOMAIN r = 1 .. n,
         \A j \in 1 .. n : r[j] = IF j <= n - i THEN s[i + j] ELSE s[j - (n - i)]
  PROVE  /\ ToSet(r) = ToSet(s)
         /\ IsInjective(s) => IsInjective(r)
<1> DEFINE at(j) == IF j <= n - i THEN i + j ELSE j - (n - i)
<1>1. IsInjective(s) => IsInjective(r)
  <2>1. \A j \in 1 .. n : at(j) \in 1 .. n /\ r[j] = s[at(j)]
    OBVIOUS
  <2>2. \A j, k \in 1 .. n : at(j) = at(k) => j = k
    OBVIOUS
  <2> HIDE DEF at
  <2>3. QED
    BY <2>1, <2>2 DEF IsInjective
<1>2. \A j \in 1 .. n : \E k \in 1 .. n : r[j] = s[k]
  OBVIOUS
<1>3. ASSUME NEW j \in 1 .. n
      PROVE  \E k \in 1 .. n : s[j] = r[k]
  <2>1. CASE j > i
    <3>1. j - i \in 1 .. n /\ r[j - i] = s[j]
      BY <2>1
    <3>2. QED
      BY <3>1
  <2>2. CASE ~(j > i)
    <3>1. j + (n - i) \in 1 .. n /\ r[j + (n - i)] = s[j]
      BY <2>2
    <3>2. QED
      BY <3>1
  <2>3. QED
    BY <2>1, <2>2
<1>4. ToSet(r) = {r[j] : j \in 1 .. n} /\ ToSet(s) = {s[j] : j \in 1 .. n}
  BY DEF ToSet
<1>5. ToSet(r) = ToSet(s)
  BY <1>2, <1>3, <1>4, Zenon
<1>6. QED
  BY <1>1, <1>5

\* The served contact and those before it go to the back of the list.
LEMMA RotateFacts ==
  ASSUME NEW S, NEW s \in Seq(S), NEW i \in 1 .. Len(s)
  PROVE  LET r == SubSeq(s, i + 1, Len(s)) \o SubSeq(s, 1, i)
         IN  /\ r \in Seq(S)
             /\ ToSet(r) = ToSet(s)
             /\ IsInjective(s) => IsInjective(r)
<1> DEFINE n == Len(s)
           back == SubSeq(s, i + 1, n)
           front == SubSeq(s, 1, i)
           r == back \o front
<1>1. n \in Nat /\ i \in 1 .. n /\ DOMAIN s = 1 .. n /\ \A j \in 1 .. n : s[j] \in S
  BY LenProperties, ElementOfSeq
<1>2. /\ back \in Seq(S)
      /\ Len(back) = IF i + 1 <= n THEN n - (i + 1) + 1 ELSE 0
      /\ \A j \in 1 .. n - (i + 1) + 1 : back[j] = s[i + 1 + j - 1]
  <2>1. i + 1 \in Int /\ n \in Int /\ \A j \in i + 1 .. n : s[j] \in S
    BY <1>1
  <2>2. QED
    BY <2>1, SubSeqProperties
<1>3. /\ front \in Seq(S)
      /\ Len(front) = IF 1 <= i THEN i - 1 + 1 ELSE 0
      /\ \A j \in 1 .. i - 1 + 1 : front[j] = s[1 + j - 1]
  <2>1. \A j \in 1 .. i : s[j] \in S
    BY <1>1
  <2>2. QED
    BY <2>1, <1>1, SubSeqProperties
<1> SUFFICES /\ r \in Seq(S)
             /\ ToSet(r) = ToSet(s)
             /\ IsInjective(s) => IsInjective(r)
  OBVIOUS
<1> HIDE DEF n, back, front
<1>4. Len(back) = n - i /\ \A j \in 1 .. n - i : back[j] = s[i + j]
  BY <1>1, <1>2
<1>5. Len(front) = i /\ \A j \in 1 .. i : front[j] = s[j]
  BY <1>1, <1>3
<1>6. /\ r \in Seq(S) /\ Len(r) = Len(back) + Len(front)
      /\ \A j \in 1 .. Len(back) + Len(front) :
            r[j] = IF j <= Len(back) THEN back[j] ELSE front[j - Len(back)]
  BY <1>2, <1>3, ConcatProperties
<1> HIDE DEF r
<1>7. Len(r) = n /\ DOMAIN r = 1 .. n
  BY <1>1, <1>4, <1>5, <1>6, LenProperties
<1>8. ASSUME NEW j \in 1 .. n
      PROVE  r[j] = IF j <= n - i THEN s[i + j] ELSE s[j - (n - i)]
  <2>1. j \in 1 .. Len(back) + Len(front)
    BY <1>1, <1>4, <1>5
  <2>2. CASE j <= n - i
    <3>1. j \in 1 .. n - i
      BY <2>2, <1>1
    <3>2. r[j] = back[j]
      BY <2>1, <2>2, <1>4, <1>6
    <3>3. QED
      BY <2>2, <3>1, <3>2, <1>4
  <2>3. CASE ~(j <= n - i)
    <3>1. j - (n - i) \in 1 .. i
      BY <2>3, <1>1
    <3>2. r[j] = front[j - (n - i)]
      BY <2>1, <2>3, <1>4, <1>6
    <3>3. QED
      BY <2>3, <3>1, <3>2, <1>5
  <2>4. QED
    BY <2>2, <2>3
<1>9. QED
  BY <1>1, <1>6, <1>7, <1>8, SameCycle

\* A contact whose queue has become empty leaves the list.
LEMMA RemoveFacts ==
  ASSUME NEW S, NEW s \in Seq(S), NEW e \in ToSet(s), IsInjective(s)
  PROVE  /\ RemoveFirst(s, e) \in Seq(S)
         /\ ToSet(RemoveFirst(s, e)) = ToSet(s) \ {e}
         /\ IsInjective(RemoveFirst(s, e))
<1> DEFINE n == Len(s)
           I == {i \in 1 .. n : s[i] = e}
           i == Min(I)
           front == SubSeq(s, 1, i - 1)
           back == SubSeq(s, i + 1, n)
           r == front \o back
<1>1. n \in Nat /\ DOMAIN s = 1 .. n /\ \A j \in 1 .. n : s[j] \in S
  BY LenProperties, ElementOfSeq
<1>2. I # {} /\ I \subseteq Nat
  BY <1>1 DEF ToSet
<1>3. i \in I
  <2> HIDE DEF I
  <2> QED BY <1>2, MinIsElement
<1>4. RemoveFirst(s, e) = r
  <2>1. \E j \in 1 .. Len(s) : s[j] = e
    BY <1>2
  <2>2. QED
    BY <1>2, <2>1 DEF RemoveFirst, RemoveAt, SelectInSeq
<1>5. i \in 1 .. n /\ s[i] = e
  BY <1>3
<1> HIDE DEF i, I
<1>6. /\ front \in Seq(S)
      /\ Len(front) = IF 1 <= i - 1 THEN i - 1 - 1 + 1 ELSE 0
      /\ \A j \in 1 .. i - 1 - 1 + 1 : front[j] = s[1 + j - 1]
  <2>1. i - 1 \in Int /\ \A j \in 1 .. i - 1 : s[j] \in S
    BY <1>1, <1>5
  <2>2. QED
    BY <2>1, SubSeqProperties
<1>7. /\ back \in Seq(S)
      /\ Len(back) = IF i + 1 <= n THEN n - (i + 1) + 1 ELSE 0
      /\ \A j \in 1 .. n - (i + 1) + 1 : back[j] = s[i + 1 + j - 1]
  <2>1. i + 1 \in Int /\ n \in Int /\ \A j \in i + 1 .. n : s[j] \in S
    BY <1>1, <1>5
  <2>2. QED
    BY <2>1, SubSeqProperties
<1> SUFFICES r \in Seq(S) /\ ToSet(r) = ToSet(s) \ {e} /\ IsInjective(r)
  BY <1>4
<1> HIDE DEF n, back, front
<1>8. Len(front) = i - 1 /\ \A j \in 1 .. i - 1 : front[j] = s[j]
  BY <1>1, <1>5, <1>6
<1>9. Len(back) = n - i /\ \A j \in 1 .. n - i : back[j] = s[i + j]
  BY <1>1, <1>5, <1>7
<1>10. /\ r \in Seq(S) /\ Len(r) = Len(front) + Len(back)
       /\ \A j \in 1 .. Len(front) + Len(back) :
             r[j] = IF j <= Len(front) THEN front[j] ELSE back[j - Len(front)]
  BY <1>6, <1>7, ConcatProperties
<1> HIDE DEF r
<1>11. Len(r) = n - 1 /\ DOMAIN r = 1 .. n - 1
  BY <1>1, <1>5, <1>8, <1>9, <1>10, LenProperties
<1>12. ASSUME NEW j \in 1 .. n - 1
       PROVE  r[j] = IF j < i THEN s[j] ELSE s[j + 1]
  <2>1. j \in 1 .. Len(front) + Len(back)
    BY <1>1, <1>5, <1>8, <1>9
  <2>2. CASE j < i
    <3>1. j \in 1 .. i - 1
      BY <2>2, <1>1, <1>5
    <3>2. r[j] = front[j]
      BY <2>1, <3>1, <1>5, <1>8, <1>10
    <3>3. QED
      BY <2>2, <3>1, <3>2, <1>8
  <2>3. CASE ~(j < i)
    <3>1. j - (i - 1) \in 1 .. n - i /\ ~(j <= i - 1) /\ i + (j - (i - 1)) = j + 1
      BY <2>3, <1>1, <1>5
    <3>2. r[j] = back[j - (i - 1)]
      BY <2>1, <3>1, <1>8, <1>10
    <3>3. back[j - (i - 1)] = s[j + 1]
      BY <3>1, <1>9
    <3>4. QED
      BY <2>3, <3>2, <3>3
  <2>4. QED
    BY <2>2, <2>3
<1>13. IsInjective(r)
  BY <1>1, <1>5, <1>11, <1>12 DEF IsInjective
<1>14. \A j \in 1 .. n - 1 : \E k \in 1 .. n : r[j] = s[k] /\ k # i
  BY <1>1, <1>5, <1>12
<1>15. ASSUME NEW k \in 1 .. n, k # i
       PROVE  \E j \in 1 .. n - 1 : r[j] = s[k]
  <2>1. CASE k < i
    <3>1. k \in 1 .. n - 1
      BY <2>1, <1>1, <1>5
    <3>2. QED
      BY <2>1, <3>1, <1>12
  <2>2. CASE k > i
    <3>1. k - 1 \in 1 .. n - 1 /\ ~(k - 1 < i) /\ (k - 1) + 1 = k
      BY <2>2, <1>1, <1>5
    <3>2. QED
      BY <3>1, <1>12
  <2>3. QED
    BY <2>1, <2>2, <1>15, <1>1, <1>5
<1>16. ASSUME NEW x \in ToSet(r)
       PROVE  x \in ToSet(s) \ {e}
  <2>1. PICK j \in 1 .. n - 1 : r[j] = x
    BY <1>11 DEF ToSet
  <2>2. PICK k \in 1 .. n : s[k] = x /\ k # i
    BY <2>1, <1>14
  <2>3. QED
    BY <2>2, <1>1, <1>5 DEF ToSet, IsInjective
<1>17. ToSet(s) \ {e} \subseteq ToSet(r)
  BY <1>1, <1>5, <1>11, <1>15 DEF ToSet
<1>18. QED
  BY <1>10, <1>13, <1>16, <1>17

-----------------------------------------------------------------------------
(***************************************************************************)
(* The queues.                                                             *)
(***************************************************************************)
LEMMA JobFacts ==
  /\ \A j \in Job : Message(j) \in Msg /\ j[2] \in 1 .. MaxDeliver /\ j # None
  /\ \A m \in Msg : \A d \in 1 .. MaxDeliver : <<m, d>> \in Job /\ Message(<<m, d>>) = m
  BY MsgAssumption DEF Job, Message

LEMMA KeyType == \A j \in Job : Key(Message(j)) \in Contact
  BY JobFacts DEF Key, Contact

\* An element of a queue is queued, once, under its own contact.
LEMMA QueuedFacts ==
  ASSUME NEW q, NEW o, NEW ids, Consistent(q, o, ids)
  PROVE  /\ QueuedIn(q) \subseteq Job
         /\ \A m \in Job : m \in QueuedIn(q) <=> m \in ToSet(q[Key(Message(m))])
         /\ \A k \in Contact : ToSet(q[k]) \subseteq Job
         /\ \A m \in Job : HeadOf(q, m) => m \in QueuedIn(q)
<1>1. ASSUME NEW k \in Contact
      PROVE  ToSet(q[k]) \subseteq Job
  <2>1. q[k] \in Seq(Job)
    BY DEF Consistent
  <2>2. QED
    BY <2>1, LenProperties DEF ToSet
<1>2. QueuedIn(q) \subseteq Job
  BY <1>1 DEF QueuedIn
<1>3. \A m \in Job : m \in QueuedIn(q) <=> m \in ToSet(q[Key(Message(m))])
  BY KeyType DEF QueuedIn, Consistent
<1>4. ASSUME NEW m \in Job, HeadOf(q, m)
      PROVE  m \in QueuedIn(q)
  <2>1. q[Key(Message(m))] \in Seq(Job) /\ q[Key(Message(m))] # <<>> /\ IsInjective(q[Key(Message(m))])
    BY <1>4, KeyType DEF Consistent, HeadOf
  <2>2. m \in ToSet(q[Key(Message(m))])
    BY <1>4, <2>1, TailFacts DEF HeadOf
  <2>3. QED
    BY <2>2, <1>3
<1>5. QED
  BY <1>1, <1>2, <1>3, <1>4

\* What there is when m is put at the end of its queue.
Admitted(q, o, ids, m) ==
    LET k == Key(Message(m))
        p == [q EXCEPT ![k] = Append(@, m)]
    IN  /\ Consistent(p, IF q[k] = <<>> THEN Append(o, k) ELSE o, ids \cup {Id[Message(m)]})
        /\ QueuedIn(p) = QueuedIn(q) \cup {m}
        /\ m \notin QueuedIn(q)

\* Admitting a command that is not queued yet.
LEMMA AdmitQueue ==
  ASSUME NEW q, NEW o, NEW ids, Consistent(q, o, ids), NEW m \in Job,
         m \notin QueuedIn(q), Id[Message(m)] = NoId \/ Id[Message(m)] \notin ids
  PROVE  Admitted(q, o, ids, m)
<1> DEFINE k == Key(Message(m))
           p == [q EXCEPT ![k] = Append(@, m)]
           l == IF q[k] = <<>> THEN Append(o, k) ELSE o
<1>1. k \in Contact /\ q[k] \in Seq(Job) /\ IsInjective(q[k])
  BY KeyType DEF Consistent
<1>2. m \notin QueuedIn(q) /\ m \notin ToSet(q[k])
  BY <1>1 DEF QueuedIn
<1>3. /\ Append(q[k], m) \in Seq(Job) /\ Append(q[k], m) # <<>>
      /\ ToSet(Append(q[k], m)) = ToSet(q[k]) \cup {m}
      /\ IsInjective(Append(q[k], m))
  BY <1>1, <1>2, AppendFacts
<1>4. /\ p \in [Contact -> Seq(Job)]
      /\ \A c \in Contact : p[c] = IF c = k THEN Append(q[k], m) ELSE q[c]
  BY <1>1, <1>3 DEF Consistent
<1>5. QueuedIn(p) = QueuedIn(q) \cup {m}
  <2>1. ASSUME NEW x \in QueuedIn(p)
        PROVE  x \in QueuedIn(q) \cup {m}
    <3>1. PICK c \in Contact : x \in ToSet(p[c])
      BY DEF QueuedIn
    <3>2. x \in ToSet(q[c]) \/ x = m
      BY <3>1, <1>3, <1>4
    <3>3. QED
      BY <3>2 DEF QueuedIn
  <2>2. ASSUME NEW x \in QueuedIn(q) \cup {m}
        PROVE  x \in QueuedIn(p)
    <3>1. CASE x = m
      <4>1. x \in ToSet(p[k])
        BY <3>1, <1>1, <1>3, <1>4
      <4>2. QED
        BY <4>1, <1>1 DEF QueuedIn
    <3>2. CASE x \in QueuedIn(q)
      <4>1. PICK c \in Contact : x \in ToSet(q[c])
        BY <3>2 DEF QueuedIn
      <4>2. x \in ToSet(p[c])
        BY <4>1, <1>3, <1>4
      <4>3. QED
        BY <4>2 DEF QueuedIn
    <3>3. QED
      BY <3>1, <3>2
  <2>3. QED
    BY <2>1, <2>2
<1>6. \A c \in Contact : IsInjective(p[c]) /\ \A n \in ToSet(p[c]) : Key(Message(n)) = c
  BY <1>3, <1>4 DEF Consistent
<1>7. (ids \cup {Id[Message(m)]}) \ {NoId} = {Id[Message(n)] : n \in QueuedIn(p)} \ {NoId}
  <2>1. ids \ {NoId} = {Id[Message(n)] : n \in QueuedIn(q)} \ {NoId}
    BY DEF Consistent
  <2> HIDE DEF p
  <2>2. {Id[Message(n)] : n \in QueuedIn(p)} = {Id[Message(n)] : n \in QueuedIn(q)} \cup {Id[Message(m)]}
    BY <1>5
  <2> QED BY <2>1, <2>2
<1>8. \A x, y \in QueuedIn(p) :
        Id[Message(x)] = Id[Message(y)] /\ Id[Message(x)] # NoId => x = y
  BY <1>5 DEF Consistent
<1>9. l \in Seq(Contact) /\ ToSet(l) = {c \in Contact : p[c] # <<>>} /\ IsInjective(l)
  <2>1. o \in Seq(Contact) /\ ToSet(o) = {c \in Contact : q[c] # <<>>} /\ IsInjective(o)
    BY DEF Consistent
  <2>2. CASE q[k] = <<>>
    <3>1. k \notin ToSet(o) /\ l = Append(o, k)
      BY <2>1, <2>2
    <3>2. l \in Seq(Contact) /\ ToSet(l) = ToSet(o) \cup {k} /\ IsInjective(l)
      BY <2>1, <3>1, <1>1, AppendFacts
    <3>3. QED
      BY <2>1, <3>2, <1>1, <1>3, <1>4
  <2>3. CASE q[k] # <<>>
    <3>1. l = o
      BY <2>3
    <3>2. \A c \in Contact : p[c] # <<>> <=> q[c] # <<>>
      BY <2>3, <1>3, <1>4
    <3>3. QED
      BY <3>1, <3>2, <2>1
  <2>4. QED
    BY <2>2, <2>3
<1>10. QED
  <2>1. Consistent(p, l, ids \cup {Id[Message(m)]})
    BY <1>4, <1>6, <1>7, <1>8, <1>9 DEF Consistent
  <2>2. QED
    BY <2>1, <1>2, <1>5 DEF Admitted

\* What is left when the head m of a queue is removed.
Finished(q, o, ids, m) ==
    LET k == Key(Message(m))
        p == [q EXCEPT ![k] = Tail(q[k])]
    IN  /\ Consistent(p, IF Tail(q[k]) = <<>> THEN RemoveFirst(o, k) ELSE o, ids \ {Id[Message(m)]})
        /\ QueuedIn(p) = QueuedIn(q) \ {m}
        /\ m \in QueuedIn(q)

\* Removing the head of a queue.
LEMMA FinishQueue ==
  ASSUME NEW q, NEW o, NEW ids, Consistent(q, o, ids), NEW m \in Job, HeadOf(q, m)
  PROVE  Finished(q, o, ids, m)
<1> DEFINE k == Key(Message(m))
           p == [q EXCEPT ![k] = Tail(q[k])]
           l == IF Tail(q[k]) = <<>> THEN RemoveFirst(o, k) ELSE o
<1>1. /\ k \in Contact /\ q[k] \in Seq(Job) /\ IsInjective(q[k])
      /\ q[k] # <<>> /\ Head(q[k]) = m
  BY KeyType DEF Consistent, HeadOf
<1>2. m \in QueuedIn(q)
  BY QueuedFacts
<1>3. /\ Tail(q[k]) \in Seq(Job)
      /\ ToSet(Tail(q[k])) = ToSet(q[k]) \ {m}
      /\ IsInjective(Tail(q[k]))
  BY <1>1, TailFacts
<1>4. /\ p \in [Contact -> Seq(Job)]
      /\ \A c \in Contact : p[c] = IF c = k THEN Tail(q[k]) ELSE q[c]
  BY <1>1, <1>3 DEF Consistent
<1>5. QueuedIn(p) = QueuedIn(q) \ {m}
  <2>1. ASSUME NEW x \in QueuedIn(p)
        PROVE  x \in QueuedIn(q) \ {m}
    <3>1. PICK c \in Contact : x \in ToSet(p[c])
      BY DEF QueuedIn
    <3>2. x \in ToSet(q[c]) /\ x # m
      BY <3>1, <1>3, <1>4 DEF Consistent
    <3>3. QED
      BY <3>2 DEF QueuedIn
  <2>2. ASSUME NEW x \in QueuedIn(q) \ {m}
        PROVE  x \in QueuedIn(p)
    <3>1. PICK c \in Contact : x \in ToSet(q[c])
      BY <2>2 DEF QueuedIn
    <3>2. x \in ToSet(p[c])
      BY <2>2, <3>1, <1>3, <1>4
    <3>3. QED
      BY <3>2 DEF QueuedIn
  <2>3. QED
    BY <2>1, <2>2
<1>6. \A c \in Contact : IsInjective(p[c]) /\ \A n \in ToSet(p[c]) : Key(Message(n)) = c
  BY <1>3, <1>4 DEF Consistent
<1>7. (ids \ {Id[Message(m)]}) \ {NoId} = {Id[Message(n)] : n \in QueuedIn(p)} \ {NoId}
  <2>1. \A n \in QueuedIn(q) : Id[Message(n)] = Id[Message(m)] /\ Id[Message(n)] # NoId => n = m
    BY <1>2 DEF Consistent
  <2>2. ids \ {NoId} = {Id[Message(n)] : n \in QueuedIn(q)} \ {NoId}
    BY DEF Consistent
  <2> HIDE DEF p
  <2>3. ASSUME NEW i, i # NoId
        PROVE  i \in ids \ {Id[Message(m)]} <=> \E n \in QueuedIn(p) : Id[Message(n)] = i
    <3>1. i \in ids <=> \E n \in QueuedIn(q) : Id[Message(n)] = i
      BY <2>2, <2>3
    <3>2. \A n \in QueuedIn(p) : Id[Message(n)] = i => Id[Message(m)] # i
      BY <1>2, <1>5, <2>1, <2>3
    <3> QED BY <3>1, <3>2, <1>5
  <2>4. QED
    BY <2>3
<1>8. \A x, y \in QueuedIn(p) :
        Id[Message(x)] = Id[Message(y)] /\ Id[Message(x)] # NoId => x = y
  BY <1>5 DEF Consistent
<1>9. l \in Seq(Contact) /\ ToSet(l) = {c \in Contact : p[c] # <<>>} /\ IsInjective(l)
  <2>1. o \in Seq(Contact) /\ ToSet(o) = {c \in Contact : q[c] # <<>>} /\ IsInjective(o)
    BY DEF Consistent
  <2>2. CASE Tail(q[k]) = <<>>
    <3>1. k \in ToSet(o) /\ l = RemoveFirst(o, k)
      BY <2>1, <2>2, <1>1
    <3>2. l \in Seq(Contact) /\ ToSet(l) = ToSet(o) \ {k} /\ IsInjective(l)
      BY <2>1, <3>1, RemoveFacts
    <3>3. QED
      BY <2>1, <2>2, <3>2, <1>1, <1>4
  <2>3. CASE Tail(q[k]) # <<>>
    <3>1. l = o
      BY <2>3
    <3>2. \A c \in Contact : p[c] # <<>> <=> q[c] # <<>>
      BY <2>3, <1>1, <1>4
    <3>3. QED
      BY <3>1, <3>2, <2>1
  <2>4. QED
    BY <2>2, <2>3
<1>10. QED
  <2>1. Consistent(p, l, ids \ {Id[Message(m)]})
    BY <1>4, <1>6, <1>7, <1>8, <1>9 DEF Consistent
  <2>2. QED
    BY <2>1, <1>2, <1>5 DEF Finished

-----------------------------------------------------------------------------
(***************************************************************************)
(* The end of a turn: the sender keeps its job, or takes the head of a     *)
(* queue that may run; the list keeps its members.                         *)
(***************************************************************************)
LEMMA Turn ==
  ASSUME NEW q, NEW o, NEW able, NEW s, NEW ids, Consistent(q, o, ids),
         RoundRobin(q, o, able, s)
  PROVE  /\ queue' = q
         /\ Consistent(queue', order', ids)
         /\ \/ /\ sending' = s /\ executed' = executed
               /\ handler' = IF s = None THEN "none" ELSE handler
            \/ /\ s = None
               /\ \E k \in Contact :
                     /\ q[k] # <<>> /\ Head(q[k]) \in able /\ sending' = Head(q[k])
                     /\ executed' = executed \cup {Command(Message(Head(q[k])))}
               /\ handler' = "running"
<1> DEFINE I == {i \in 1 .. Len(o) : q[o[i]] # <<>> /\ Head(q[o[i]]) \in able}
           j == IF I # {} THEN Min(I) ELSE 0
<1>1. /\ queue' = q
      /\ IF s # None \/ j = 0
           THEN /\ order' = o /\ sending' = s
                /\ UNCHANGED executed
                /\ handler' = IF s = None THEN "none" ELSE handler
           ELSE /\ order' = SubSeq(o, j + 1, Len(o)) \o SubSeq(o, 1, j)
                /\ sending' = Head(q[o[j]])
                /\ executed' = executed \cup {Command(Message(Head(q[o[j]])))}
                /\ handler' = "running"
  BY DEF RoundRobin, SelectInSeq
<1>2. CASE s # None \/ j = 0
  BY <1>1, <1>2
<1>3. CASE ~(s # None \/ j = 0)
  <2>1. I # {} /\ I \subseteq Nat
    BY <1>3
  <2>2. j \in I
    <3>1. j = Min(I)
      BY <2>1
    <3>2. QED
      <4> HIDE DEF I
      <4> QED BY <2>1, <3>1, MinIsElement
  <2>3. j \in 1 .. Len(o) /\ q[o[j]] # <<>> /\ Head(q[o[j]]) \in able
    BY <2>2
  <2> HIDE DEF j, I
  <2>4. o \in Seq(Contact)
    BY DEF Consistent
  <2>5. o[j] \in Contact
    BY <2>3, <2>4, ElementOfSeq
  <2>6. /\ order' \in Seq(Contact) /\ ToSet(order') = ToSet(o)
        /\ IsInjective(o) => IsInjective(order')
    BY <1>1, <1>3, <2>3, <2>4, RotateFacts
  <2>7. Consistent(queue', order', ids)
    BY <1>1, <2>6 DEF Consistent
  <2>8. QED
    BY <1>1, <1>3, <2>3, <2>5, <2>7
<1>4. QED
  BY <1>2, <1>3

\* The sender after a turn, whose event has left its job alone or ended it.
LEMMA TurnSent ==
  ASSUME NEW q, NEW o, NEW able, NEW s, NEW ids, NEW rd, Consistent(q, o, ids),
         RoundRobin(q, o, able, s), able \subseteq rd, TypeOK,
         Sent(sending, handler, ready, executed),
         s = None \/ (s = sending /\ s \in rd)
  PROVE  /\ sending' = None <=> handler' = "none"
         /\ sending' # None => sending' \in rd /\ Command(Message(sending')) \in executed'
         /\ handler' = "settled" /\ Message(sending') \notin Control => stream[Message(sending')] = "done"
         /\ sending' \in Job \cup {None}
         /\ handler' \in {"none", "running", "settled", "unsettled"}
         /\ executed' \subseteq {Command(m) : m \in Msg}
         /\ executed \subseteq executed'
<1>1. CASE /\ sending' = s /\ executed' = executed
           /\ handler' = IF s = None THEN "none" ELSE handler
  BY <1>1 DEF Sent, TypeOK
<1>2. ASSUME NEW k \in Contact,
             q[k] # <<>>, Head(q[k]) \in able, sending' = Head(q[k]),
             executed' = executed \cup {Command(Message(Head(q[k])))}, handler' = "running"
      PROVE  /\ sending' = None <=> handler' = "none"
             /\ sending' # None => sending' \in rd /\ Command(Message(sending')) \in executed'
             /\ handler' = "settled" /\ Message(sending') \notin Control => stream[Message(sending')] = "done"
             /\ sending' \in Job \cup {None}
             /\ handler' \in {"none", "running", "settled", "unsettled"}
             /\ executed' \subseteq {Command(m) : m \in Msg}
             /\ executed \subseteq executed'
  <2>1. q[k] \in Seq(Job)
    BY DEF Consistent
  <2>2. Head(q[k]) \in Job
    BY <2>1, <1>2, HeadTailProperties
  <2>3. Head(q[k]) # None
    BY <2>2, JobFacts
  <2>4. QED
    BY <1>2, <2>2, <2>3, JobFacts DEF TypeOK
<1>3. QED
  BY <1>1, <1>2, Turn

\* The command a turn starts has nothing unstarted in front of it.
LEMMA TurnOrder ==
  ASSUME NEW q, NEW o, NEW able, NEW s, NEW ids, Consistent(q, o, ids),
         RoundRobin(q, o, able, s), Started(executed), Lined(q, executed)
  PROVE  Started(executed') /\ Lined(q, executed')
<1>1. ASSUME NEW k \in Contact, q[k] # <<>>,
             executed' = executed \cup {Command(Message(Head(q[k])))}
      PROVE  Started(executed') /\ Lined(q, executed')
  <2>1. q[k] \in Seq(Job) /\ IsInjective(q[k])
    BY DEF Consistent
  <2>2. Head(q[k]) \in Job /\ Head(q[k]) = q[k][1] /\ 1 \in 1 .. Len(q[k])
    BY <1>1, <2>1, TailFacts
  <2>3. ASSUME NEW m \in Msg, Before(m, Message(Head(q[k])))
        PROVE  Command(m) \in executed
    BY <2>2, <2>3 DEF Lined
  <2>4. ASSUME NEW m \in Msg, NEW n \in Msg, Before(m, n),
               Command(n) = Command(Message(Head(q[k])))
        PROVE  Command(m) \in executed
    <3>1. Before(m, Message(Head(q[k])))
      BY <2>2, <2>4, CopyAssumption, JobFacts DEF Before
    <3>2. QED
      BY <2>3, <3>1
  <2>5. Started(executed')
    BY <1>1, <2>4 DEF Started
  <2>6. Lined(q, executed')
    BY <1>1 DEF Lined
  <2>7. QED
    BY <2>5, <2>6
<1>2. CASE executed' = executed
  BY <1>2
<1>3. QED
  BY <1>1, <1>2, Turn

-----------------------------------------------------------------------------
(***************************************************************************)
(* Every step keeps the invariant. First the steps that leave the queues   *)
(* and the sender's job alone.                                             *)
(***************************************************************************)

\* Steps that change the broker, the fetcher or the handler's progress only.
LEMMA OutsideKeeps ==
  ASSUME IInv, TypeOK',
         UNCHANGED <<queue, order, activeIds, ready, prep, buffers, mediaSlots,
                     sending, executed>>
  PROVE  /\ Consistent(queue, order, activeIds)'
         /\ HeadsOnly(queue, ready, prep, buffers)'
         /\ Queued' = Queued
         /\ Started(executed)' /\ Lined(queue, executed)'
              <=> Started(executed) /\ Lined(queue, executed)
  BY DEF IInv, Consistent, HeadsOnly, Queued, Started, Lined, Before, HeadOf, QueuedIn

\* The broker's steps.
LEMMA PublishKeeps ==
  ASSUME NEW m \in Msg, IInv, Publish(m)
  PROVE  IInv'
<1>1. TypeOK'
  BY LimitAssumption
     DEF IInv, TypeOK, Publish, boundVars, brokerVars, fetchVars, prepVars, loopVars
<1>2. UNCHANGED <<queue, order, activeIds, ready, prep, buffers, mediaSlots, sending, executed>>
  BY DEF Publish, boundVars, brokerVars, fetchVars, prepVars, loopVars
<1>3. Accounts'
  BY FS_CardinalityType, <1>1, <1>2, OutsideKeeps
     DEF IInv, Accounts, TypeOK, Publish, boundVars, brokerVars, fetchVars, prepVars,
         loopVars
<1>4. Sent(sending, handler, ready, executed)'
  BY <1>2 DEF IInv, Sent, TypeOK, Publish, boundVars, brokerVars, fetchVars, prepVars, loopVars
<1>5. OrderKept'
  BY <1>1, <1>2, OutsideKeeps
     DEF IInv, OrderKept, Known, InTurn, QueuedIn, TypeOK, Publish, boundVars, brokerVars, fetchVars,
         prepVars, loopVars
<1>6. Numbered'
  BY <1>1, <1>2, OutsideKeeps
     DEF IInv, Numbered, TypeOK, Publish, boundVars, brokerVars, fetchVars, prepVars, loopVars
<1>7. QED
  BY <1>1, <1>2, <1>3, <1>4, <1>5, <1>6, OutsideKeeps DEF IInv

LEMMA AckTimeoutKeeps ==
  ASSUME NEW m \in Msg, IInv, AckTimeout(m)
  PROVE  IInv'
<1>1. TypeOK'
  BY LimitAssumption
     DEF IInv, TypeOK, AckTimeout, boundVars, brokerVars, fetchVars, prepVars, loopVars,
         Fault, Bounded
<1>2. UNCHANGED <<queue, order, activeIds, ready, prep, buffers, mediaSlots, sending, executed>>
  BY DEF AckTimeout, boundVars, brokerVars, fetchVars, prepVars, loopVars
<1>3. Accounts'
  BY FS_CardinalityType, <1>1, <1>2, OutsideKeeps
     DEF IInv, Accounts, TypeOK, AckTimeout, boundVars, brokerVars, fetchVars, prepVars,
         loopVars
<1>4. Sent(sending, handler, ready, executed)'
  BY <1>2
     DEF IInv, Sent, TypeOK, AckTimeout, boundVars, brokerVars, fetchVars, prepVars,
         loopVars
<1>5. OrderKept'
  BY <1>1, <1>2, OutsideKeeps
     DEF IInv, OrderKept, Known, InTurn, QueuedIn, TypeOK, AckTimeout, boundVars, brokerVars,
         fetchVars, prepVars, loopVars, Fault
<1>6. Numbered'
  BY <1>1, <1>2, OutsideKeeps
     DEF IInv, Numbered, TypeOK, AckTimeout, boundVars, brokerVars, fetchVars, prepVars, loopVars
<1>7. QED
  BY <1>1, <1>2, <1>3, <1>4, <1>5, <1>6, OutsideKeeps DEF IInv

\* The fetcher's steps.
LEMMA TakeSlotKeeps ==
  ASSUME IInv, TakeSlot
  PROVE  IInv'
<1>1. TypeOK'
  BY LimitAssumption
     DEF IInv, TypeOK, TakeSlot, boundVars, brokerVars, fetchVars, prepVars, loopVars
<1>2. UNCHANGED <<queue, order, activeIds, ready, prep, buffers, mediaSlots, sending, executed>>
  BY DEF TakeSlot, boundVars, brokerVars, fetchVars, prepVars, loopVars
<1>3. Accounts'
  BY FS_CardinalityType, <1>1, <1>2, OutsideKeeps
     DEF IInv, Accounts, TypeOK, TakeSlot, boundVars, brokerVars, fetchVars, prepVars,
         loopVars
<1>4. Sent(sending, handler, ready, executed)'
  BY <1>2 DEF IInv, Sent, TypeOK, TakeSlot, boundVars, brokerVars, fetchVars, prepVars, loopVars
<1>5. OrderKept'
  BY <1>1, <1>2, OutsideKeeps
     DEF IInv, OrderKept, Known, InTurn, QueuedIn, TypeOK, TakeSlot, boundVars, brokerVars, fetchVars,
         prepVars, loopVars
<1>6. Numbered'
  BY <1>1, <1>2, OutsideKeeps
     DEF IInv, Numbered, TypeOK, TakeSlot, boundVars, brokerVars, fetchVars, prepVars, loopVars
<1>7. QED
  BY <1>1, <1>2, <1>3, <1>4, <1>5, <1>6, OutsideKeeps DEF IInv

LEMMA FetchKeeps ==
  ASSUME NEW m \in Msg, IInv, Fetch(m)
  PROVE  IInv'
<1>0. /\ offer' = <<m, deliveries[m] + 1>> /\ fetcher' = "offer"
      /\ deliveries' = [deliveries EXCEPT ![m] = @ + 1]
      /\ deliveries \in [Msg -> 0 .. MaxDeliver] /\ deliveries[m] < MaxDeliver
      /\ deliveries[m] + 1 \in 1 .. MaxDeliver
      /\ deliveries[m] = 0 => \A n \in Msg : n < m => deliveries[n] > 0
      /\ stream' = [stream EXCEPT ![m] = "held"]
      /\ UNCHANGED <<boundVars, phase, slots, prepVars, loopVars>>
  BY LimitAssumption DEF IInv, TypeOK, Fetch, Deliverable
<1>8. offer' \in Job /\ Message(offer') = m /\ offer'[2] = deliveries'[m]
  BY <1>0, JobFacts
<1>1. TypeOK'
  BY <1>0, <1>8 DEF IInv, TypeOK, boundVars, prepVars, loopVars
<1>2. UNCHANGED <<queue, order, activeIds, ready, prep, buffers, mediaSlots, sending, executed>>
  BY DEF Fetch, boundVars, brokerVars, fetchVars, prepVars, loopVars
<1>3. Accounts'
  BY FS_CardinalityType, <1>1, <1>2, OutsideKeeps
     DEF IInv, Accounts, TypeOK, Fetch, boundVars, brokerVars, fetchVars, prepVars, loopVars
<1>4. Sent(sending, handler, ready, executed)'
  BY <1>2
     DEF IInv, Sent, TypeOK, Fetch, boundVars, brokerVars, fetchVars, prepVars, loopVars,
         Deliverable
<1>5. OrderKept'
  <2>1. SUFFICES ASSUME restarts = 0 PROVE OrderKept'
    BY <1>0 DEF OrderKept, boundVars
  <2>2. Started(executed) /\ Lined(queue, executed) /\ InTurn /\ (phase = "running" => Known(queue, executed))
    BY <2>1 DEF IInv, OrderKept
  <2>3. \A n \in Msg : n # m => deliveries'[n] = deliveries[n]
    BY <1>0
  <2>4. phase' = "running" => Known(queue, executed)'
    BY <1>0, <1>2, <1>8, <2>2, <2>3 DEF Known, QueuedIn, IInv, Accounts, Fetch
  <2>5. InTurn'
    BY <1>0, <1>8, <2>2, <2>3, MsgAssumption DEF InTurn
  <2> QED BY <1>1, <1>2, <2>2, <2>4, <2>5, OutsideKeeps DEF OrderKept
<1>6. Numbered'
  <2>1. Queued \subseteq Job
    BY QueuedFacts DEF IInv, Queued, QueuedIn
  <2>2. \A j \in Queued : j[2] <= deliveries[Message(j)]
    BY DEF IInv, Numbered
  <2>3. offer' \notin Queued
    BY <1>0, <1>8, <2>2
  <2>4. \A j \in Queued : j[2] <= deliveries'[Message(j)]
    BY <1>0, <2>1, <2>2, JobFacts
  <2>5. offer'[2] <= deliveries'[Message(offer')]
    BY <1>0, <1>8
  <2> QED BY <1>1, <1>2, <2>3, <2>4, <2>5, OutsideKeeps DEF Numbered
<1>7. QED
  BY <1>1, <1>2, <1>3, <1>4, <1>5, <1>6, OutsideKeeps DEF IInv

LEMMA FetchFailsKeeps ==
  ASSUME IInv, FetchFails
  PROVE  IInv'
<1>1. TypeOK'
  BY FS_CardinalityType, LimitAssumption
     DEF IInv, TypeOK, FetchFails, boundVars, brokerVars, fetchVars, prepVars, loopVars,
         Accounts
<1>2. UNCHANGED <<queue, order, activeIds, ready, prep, buffers, mediaSlots, sending, executed>>
  BY DEF FetchFails, boundVars, brokerVars, fetchVars, prepVars, loopVars
<1>3. Accounts'
  BY FS_CardinalityType, <1>1, <1>2, OutsideKeeps
     DEF IInv, Accounts, TypeOK, FetchFails, boundVars, brokerVars, fetchVars, prepVars,
         loopVars
<1>4. Sent(sending, handler, ready, executed)'
  BY <1>2
     DEF IInv, Sent, TypeOK, FetchFails, boundVars, brokerVars, fetchVars, prepVars,
         loopVars
<1>5. OrderKept'
  BY <1>1, <1>2, OutsideKeeps
     DEF IInv, OrderKept, Known, InTurn, QueuedIn, TypeOK, FetchFails, boundVars, brokerVars,
         fetchVars, prepVars, loopVars
<1>6. Numbered'
  BY <1>1, <1>2, OutsideKeeps
     DEF IInv, Numbered, TypeOK, FetchFails, boundVars, brokerVars, fetchVars, prepVars, loopVars
<1>7. QED
  BY <1>1, <1>2, <1>3, <1>4, <1>5, <1>6, OutsideKeeps DEF IInv

LEMMA FetcherNaksKeeps ==
  ASSUME IInv, FetcherNaks
  PROVE  IInv'
<1>1. TypeOK'
  BY LimitAssumption
     DEF IInv, TypeOK, FetcherNaks, boundVars, brokerVars, fetchVars, prepVars, loopVars
<1>2. UNCHANGED <<queue, order, activeIds, ready, prep, buffers, mediaSlots, sending, executed>>
  BY DEF FetcherNaks, boundVars, brokerVars, fetchVars, prepVars, loopVars
<1>3. Accounts'
  BY FS_CardinalityType, <1>1, <1>2, OutsideKeeps
     DEF IInv, Accounts, TypeOK, FetcherNaks, boundVars, brokerVars, fetchVars, prepVars,
         loopVars
<1>4. Sent(sending, handler, ready, executed)'
  BY <1>2
     DEF IInv, Sent, TypeOK, FetcherNaks, boundVars, brokerVars, fetchVars, prepVars,
         loopVars
<1>5. OrderKept'
  BY <1>1, <1>2, OutsideKeeps
     DEF IInv, OrderKept, Known, InTurn, QueuedIn, TypeOK, FetcherNaks, boundVars, brokerVars,
         fetchVars, prepVars, loopVars
<1>6. Numbered'
  BY <1>1, <1>2, OutsideKeeps
     DEF IInv, Numbered, TypeOK, FetcherNaks, boundVars, brokerVars, fetchVars, prepVars, loopVars
<1>7. QED
  BY <1>1, <1>2, <1>3, <1>4, <1>5, <1>6, OutsideKeeps DEF IInv

LEMMA DropDuplicateKeeps ==
  ASSUME IInv, DropDuplicate
  PROVE  IInv'
<1>1. TypeOK'
  BY FS_CardinalityType, LimitAssumption
     DEF IInv, TypeOK, DropDuplicate, boundVars, brokerVars, fetchVars, prepVars, loopVars,
         Accounts
<1>2. UNCHANGED <<queue, order, activeIds, ready, prep, buffers, mediaSlots, sending, executed>>
  BY DEF DropDuplicate, boundVars, brokerVars, fetchVars, prepVars, loopVars
<1>3. Accounts'
  BY FS_CardinalityType, <1>1, <1>2, OutsideKeeps
     DEF IInv, Accounts, TypeOK, DropDuplicate, boundVars, brokerVars, fetchVars, prepVars,
         loopVars
<1>4. Sent(sending, handler, ready, executed)'
  BY <1>2
     DEF IInv, Sent, TypeOK, DropDuplicate, boundVars, brokerVars, fetchVars, prepVars,
         loopVars
\* The offered command stays known: the job it duplicates is queued.
<1>5. OrderKept'
  <2>1. SUFFICES ASSUME restarts = 0 PROVE OrderKept'
    BY DEF OrderKept, DropDuplicate, boundVars
  <2>2. PICK j \in QueuedIn(queue) : Id[Message(j)] = Id[Message(offer)] /\ Id[Message(j)] # NoId
    BY DEF IInv, Consistent, DropDuplicate, IsDuplicate
  <2>3. Command(Message(j)) = Command(Message(offer))
    BY <2>2 DEF Command
  <2>4. Known(queue, executed)'
    BY <1>2, <2>1, <2>2, <2>3 DEF IInv, OrderKept, Known, QueuedIn, DropDuplicate, brokerVars
  <2>5. InTurn'
    BY <2>1 DEF IInv, OrderKept, InTurn, DropDuplicate, brokerVars
  <2> QED BY <1>1, <1>2, <2>1, <2>4, <2>5, OutsideKeeps DEF IInv, OrderKept
<1>6. Numbered'
  BY <1>1, <1>2, OutsideKeeps
     DEF IInv, Numbered, TypeOK, DropDuplicate, boundVars, brokerVars, fetchVars, prepVars, loopVars
<1>7. QED
  BY <1>1, <1>2, <1>3, <1>4, <1>5, <1>6, OutsideKeeps DEF IInv

\* The handler's steps.
LEMMA HandlerSettlesKeeps ==
  ASSUME IInv, HandlerSettles
  PROVE  IInv'
<1>1. TypeOK'
  BY LimitAssumption
     DEF IInv, TypeOK, HandlerSettles, boundVars, brokerVars, fetchVars, prepVars, loopVars
<1>2. UNCHANGED <<queue, order, activeIds, ready, prep, buffers, mediaSlots, sending, executed>>
  BY DEF HandlerSettles, boundVars, brokerVars, fetchVars, prepVars, loopVars
<1>3. Accounts'
  BY FS_CardinalityType, <1>1, <1>2, OutsideKeeps
     DEF IInv, Accounts, TypeOK, HandlerSettles, boundVars, brokerVars, fetchVars, prepVars,
         loopVars
<1>4. Sent(sending, handler, ready, executed)'
  <2>1. sending \in Job /\ Message(sending) \in Msg
    BY JobFacts DEF IInv, Sent, TypeOK, HandlerSettles
  <2>2. stream'[Message(sending)] = "done"
    BY <2>1 DEF IInv, TypeOK, HandlerSettles
  <2> QED BY <1>2, <2>1, <2>2 DEF IInv, Sent, HandlerSettles
<1>5. OrderKept'
  BY <1>1, <1>2, OutsideKeeps
     DEF IInv, OrderKept, Known, InTurn, QueuedIn, TypeOK, HandlerSettles, boundVars, brokerVars,
         fetchVars, prepVars, loopVars
<1>6. Numbered'
  BY <1>1, <1>2, OutsideKeeps
     DEF IInv, Numbered, TypeOK, HandlerSettles, boundVars, brokerVars, fetchVars, prepVars, loopVars
<1>7. QED
  BY <1>1, <1>2, <1>3, <1>4, <1>5, <1>6, OutsideKeeps DEF IInv

LEMMA HandlerNaksKeeps ==
  ASSUME IInv, HandlerNaks
  PROVE  IInv'
<1>1. TypeOK'
  <2>1. faults' \in Nat
    BY DEF IInv, TypeOK, HandlerNaks, Fault, Bounded
  <2>2. stream' \in [Msg -> {"absent", "ready", "held", "done"}]
    BY DEF IInv, TypeOK, HandlerNaks
  <2>3. QED
    BY <2>1, <2>2 DEF IInv, TypeOK, HandlerNaks, Fault, Bounded, fetchVars, prepVars
<1>2. UNCHANGED <<queue, order, activeIds, ready, prep, buffers, mediaSlots, sending, executed>>
  BY DEF HandlerNaks, boundVars, brokerVars, fetchVars, prepVars, loopVars
<1>3. Accounts'
  BY FS_CardinalityType, <1>1, <1>2, OutsideKeeps
     DEF IInv, Accounts, TypeOK, HandlerNaks, boundVars, brokerVars, fetchVars, prepVars,
         loopVars
<1>4. Sent(sending, handler, ready, executed)'
  BY <1>2
     DEF IInv, Sent, TypeOK, HandlerNaks, boundVars, brokerVars, fetchVars, prepVars,
         loopVars
<1>5. OrderKept'
  BY <1>1, <1>2, OutsideKeeps
     DEF IInv, OrderKept, Known, InTurn, QueuedIn, TypeOK, HandlerNaks, boundVars, brokerVars,
         fetchVars, prepVars, loopVars, Fault
<1>6. Numbered'
  BY <1>1, <1>2, OutsideKeeps
     DEF IInv, Numbered, TypeOK, HandlerNaks, boundVars, brokerVars, fetchVars, prepVars, loopVars
<1>7. QED
  BY <1>1, <1>2, <1>3, <1>4, <1>5, <1>6, OutsideKeeps DEF IInv

LEMMA HandlerDefersKeeps ==
  ASSUME IInv, HandlerDefers
  PROVE  IInv'
<1>1. TypeOK'
  BY LimitAssumption
     DEF IInv, TypeOK, HandlerDefers, boundVars, brokerVars, fetchVars, prepVars, loopVars,
         Fault, Bounded
<1>2. UNCHANGED <<queue, order, activeIds, ready, prep, buffers, mediaSlots, sending, executed>>
  BY DEF HandlerDefers, boundVars, brokerVars, fetchVars, prepVars, loopVars
<1>3. Accounts'
  BY FS_CardinalityType, <1>1, <1>2, OutsideKeeps
     DEF IInv, Accounts, TypeOK, HandlerDefers, boundVars, brokerVars, fetchVars, prepVars,
         loopVars
<1>4. Sent(sending, handler, ready, executed)'
  BY <1>2
     DEF IInv, Sent, TypeOK, HandlerDefers, boundVars, brokerVars, fetchVars, prepVars,
         loopVars
<1>5. OrderKept'
  BY <1>1, <1>2, OutsideKeeps
     DEF IInv, OrderKept, Known, InTurn, QueuedIn, TypeOK, HandlerDefers, boundVars, brokerVars,
         fetchVars, prepVars, loopVars, Fault
<1>6. Numbered'
  BY <1>1, <1>2, OutsideKeeps
     DEF IInv, Numbered, TypeOK, HandlerDefers, boundVars, brokerVars, fetchVars, prepVars, loopVars
<1>7. QED
  BY <1>1, <1>2, <1>3, <1>4, <1>5, <1>6, OutsideKeeps DEF IInv

LEMMA StopKeeps ==
  ASSUME IInv, Stop
  PROVE  IInv'
<1>1. TypeOK'
  BY LimitAssumption
     DEF IInv, TypeOK, Stop, boundVars, brokerVars, fetchVars, prepVars, loopVars
<1>2. UNCHANGED <<queue, order, activeIds, ready, prep, buffers, mediaSlots, sending, executed>>
  BY DEF Stop, boundVars, brokerVars, fetchVars, prepVars, loopVars
<1>3. Accounts'
  BY FS_CardinalityType, <1>1, <1>2, OutsideKeeps
     DEF IInv, Accounts, TypeOK, Stop, boundVars, brokerVars, fetchVars, prepVars, loopVars
<1>4. Sent(sending, handler, ready, executed)'
  <2>1. handler' = handler
    BY DEF Stop, loopVars
  <2>2. CASE handler = "settled"
    <3>1. sending \in Job /\ Message(sending) \in Msg
      BY <2>2, JobFacts DEF IInv, Sent, TypeOK
    <3>2. stream[Message(sending)] = "done" => stream'[Message(sending)] = "done"
      BY <3>1 DEF Stop
    <3> QED BY <1>2, <2>1, <3>2 DEF IInv, Sent
  <2>3. CASE handler # "settled"
    BY <1>2, <2>1, <2>3 DEF IInv, Sent
  <2> QED BY <2>2, <2>3
<1>5. OrderKept'
  BY <1>1, <1>2, OutsideKeeps
     DEF IInv, OrderKept, Known, InTurn, QueuedIn, TypeOK, Stop, boundVars, brokerVars, fetchVars,
         prepVars, loopVars
<1>6. Numbered'
  BY <1>1, <1>2, OutsideKeeps
     DEF IInv, Numbered, TypeOK, Stop, boundVars, brokerVars, fetchVars, prepVars, loopVars
<1>7. QED
  BY <1>1, <1>2, <1>3, <1>4, <1>5, <1>6, OutsideKeeps DEF IInv

\* The preparation of a head.
LEMMA PrepareReplayKeeps ==
  ASSUME NEW m \in Job, IInv, PrepareReplay(m)
  PROVE  IInv'
<1>1. TypeOK'
  BY DEF IInv, TypeOK, PrepareReplay, boundVars, brokerVars, fetchVars, prepVars, loopVars
<1>2. UNCHANGED <<queue, order, activeIds, ready, sending, handler, executed, stream, buffers,
                  fetcher, phase, slots, mediaSlots, restarts, deliveries, offer>>
  BY DEF PrepareReplay, boundVars, brokerVars, fetchVars, prepVars, loopVars
<1>3. Consistent(queue, order, activeIds)'
  BY <1>2 DEF IInv, Consistent, QueuedIn
<1>7. Accounts'
  BY <1>2 DEF IInv, Accounts, Queued
<1>8. OrderKept' /\ Numbered'
  BY <1>2 DEF IInv, OrderKept, Started, Lined, Known, InTurn, Before, Numbered, Queued, QueuedIn
<1>4. Sent(sending, handler, ready, executed)'
  BY <1>2 DEF IInv, Sent
<1>5. HeadsOnly(queue, ready, prep, buffers)'
  BY <1>2 DEF IInv, TypeOK, HeadsOnly, HeadOf, PrepareReplay
<1>6. QED
  BY <1>1, <1>3, <1>4, <1>5, <1>7, <1>8 DEF IInv

LEMMA PrepareWaitKeeps ==
  ASSUME NEW m \in Job, IInv, PrepareWait(m)
  PROVE  IInv'
<1>1. TypeOK'
  BY DEF IInv, TypeOK, PrepareWait, boundVars, brokerVars, fetchVars, prepVars, loopVars
<1>2. UNCHANGED <<queue, order, activeIds, ready, sending, handler, executed, stream, buffers,
                  fetcher, phase, slots, mediaSlots, restarts, deliveries, offer>>
  BY DEF PrepareWait, boundVars, brokerVars, fetchVars, prepVars, loopVars
<1>3. Consistent(queue, order, activeIds)'
  BY <1>2 DEF IInv, Consistent, QueuedIn
<1>7. Accounts'
  BY <1>2 DEF IInv, Accounts, Queued
<1>8. OrderKept' /\ Numbered'
  BY <1>2 DEF IInv, OrderKept, Started, Lined, Known, InTurn, Before, Numbered, Queued, QueuedIn
<1>4. Sent(sending, handler, ready, executed)'
  BY <1>2 DEF IInv, Sent
<1>5. HeadsOnly(queue, ready, prep, buffers)'
  BY <1>2 DEF IInv, TypeOK, HeadsOnly, HeadOf, PrepareWait
<1>6. QED
  BY <1>1, <1>3, <1>4, <1>5, <1>7, <1>8 DEF IInv

LEMMA DownloadedKeeps ==
  ASSUME NEW m \in Job, IInv, Downloaded(m)
  PROVE  IInv'
<1>1. TypeOK'
  BY DEF IInv, TypeOK, Downloaded, boundVars, brokerVars, fetchVars, prepVars, loopVars
<1>2. UNCHANGED <<queue, order, activeIds, ready, sending, handler, executed, stream, buffers,
                  fetcher, phase, slots, mediaSlots, restarts, deliveries, offer>>
  BY DEF Downloaded, boundVars, brokerVars, fetchVars, prepVars, loopVars
<1>3. Consistent(queue, order, activeIds)'
  BY <1>2 DEF IInv, Consistent, QueuedIn
<1>7. Accounts'
  BY <1>2 DEF IInv, Accounts, Queued
<1>8. OrderKept' /\ Numbered'
  BY <1>2 DEF IInv, OrderKept, Started, Lined, Known, InTurn, Before, Numbered, Queued, QueuedIn
<1>4. Sent(sending, handler, ready, executed)'
  BY <1>2 DEF IInv, Sent
<1>5. HeadsOnly(queue, ready, prep, buffers)'
  BY <1>2 DEF IInv, TypeOK, HeadsOnly, HeadOf, Downloaded
<1>6. QED
  BY <1>1, <1>3, <1>4, <1>5, <1>7, <1>8 DEF IInv

LEMMA TakeMediaSlotKeeps ==
  ASSUME NEW m \in Job, IInv, TakeMediaSlot(m)
  PROVE  IInv'
<1>1. TypeOK'
  BY LimitAssumption
     DEF IInv, TypeOK, TakeMediaSlot, boundVars, brokerVars, fetchVars, prepVars, loopVars
<1>2. UNCHANGED <<queue, order, activeIds, ready, sending, handler, executed, stream,
                  fetcher, phase, slots, restarts, deliveries, offer>>
  BY DEF TakeMediaSlot, boundVars, brokerVars, fetchVars, prepVars, loopVars
<1>3. Consistent(queue, order, activeIds)'
  BY <1>2 DEF IInv, Consistent, QueuedIn
<1>10. OrderKept' /\ Numbered'
  BY <1>2 DEF IInv, OrderKept, Started, Lined, Known, InTurn, Before, Numbered, Queued, QueuedIn
<1>4. Sent(sending, handler, ready, executed)'
  BY <1>2 DEF IInv, Sent
<1>5. HeadsOnly(queue, ready, prep, buffers)'
  BY <1>2 DEF IInv, TypeOK, HeadsOnly, HeadOf, TakeMediaSlot
<1>6. m \notin buffers
  BY DEF IInv, HeadsOnly, TakeMediaSlot
<1>7. IsFiniteSet(buffers') /\ mediaSlots' = Cardinality(buffers')
  BY <1>6, FS_AddElement DEF IInv, Accounts, TakeMediaSlot
<1>8. Accounts'
  BY <1>2, <1>7 DEF IInv, Accounts, Queued
<1>9. QED
  BY <1>1, <1>3, <1>4, <1>5, <1>8, <1>10 DEF IInv

-----------------------------------------------------------------------------
(***************************************************************************)
(* The turns of the main loop.                                             *)
(***************************************************************************)

\* A turn whose event adds nothing to the queues and takes nothing from them.
LEMMA QuietTurn ==
  ASSUME IInv, NEW able, NEW s, RoundRobin(queue, order, able, s),
         able \subseteq ready', ready \subseteq ready', ready' \subseteq Job,
         s = None \/ s = sending,
         prep' \in [Job -> {"none", "check", "wait", "download", "offer"}],
         delayed' \subseteq Job,
         HeadsOnly(queue, ready', prep', buffers),
         UNCHANGED <<faults, restarts, stream, deliveries, phase, fetcher, offer, slots,
                     mediaSlots, buffers, activeIds>>
  PROVE  IInv'
<1>1. Consistent(queue, order, activeIds)
  BY DEF IInv
<1>2. queue' = queue /\ Consistent(queue', order', activeIds)
  BY <1>1, Turn
<1>3. Consistent(queue, order, activeIds)'
  BY <1>2 DEF Consistent, QueuedIn
<1>4. s = None \/ (s = sending /\ s \in ready')
  BY DEF IInv, Sent
<1>5. TypeOK /\ Sent(sending, handler, ready, executed)
  BY DEF IInv
<1>6. /\ sending' = None <=> handler' = "none"
      /\ sending' # None => sending' \in ready' /\ Command(Message(sending')) \in executed'
      /\ handler' = "settled" /\ Message(sending') \notin Control => stream[Message(sending')] = "done"
      /\ sending' \in Job \cup {None}
      /\ handler' \in {"none", "running", "settled", "unsettled"}
      /\ executed' \subseteq {Command(m) : m \in Msg}
      /\ executed \subseteq executed'
  BY <1>1, <1>4, <1>5, TurnSent
<1>7. Sent(sending, handler, ready, executed)'
  BY <1>6 DEF Sent
<1>8. TypeOK'
  BY <1>2, <1>5, <1>6 DEF TypeOK, Consistent
<1>9. HeadsOnly(queue, ready, prep, buffers)'
  BY <1>2 DEF HeadsOnly, HeadOf
<1>10. Accounts' /\ Numbered'
  BY <1>2 DEF IInv, Accounts, Numbered, Queued
<1>11. OrderKept'
  <2>1. SUFFICES ASSUME restarts = 0 PROVE OrderKept'
    BY DEF OrderKept
  <2>2. Started(executed') /\ Lined(queue, executed')
    BY <1>1, <2>1, TurnOrder DEF IInv, OrderKept
  <2>3. Lined(queue', executed')
    BY <1>2, <2>2
  <2>4. QED
    BY <2>1, <2>2, <2>3, <1>2, <1>6 DEF IInv, OrderKept, Started, Lined, Known, InTurn, Before, QueuedIn
<1>12. QED
  BY <1>3, <1>7, <1>8, <1>9, <1>10, <1>11 DEF IInv

LEMMA ReceivePreparedKeeps ==
  ASSUME NEW m \in Job, IInv, ReceivePrepared(m)
  PROVE  IInv'
<1>1. HeadsOnly(queue, ready', prep', buffers)
  BY DEF IInv, TypeOK, HeadsOnly, HeadOf, ReceivePrepared
<1>2. /\ ready \subseteq ready' /\ ready' \subseteq Job /\ ready' \ delayed \subseteq ready'
      /\ prep' \in [Job -> {"none", "check", "wait", "download", "offer"}]
      /\ delayed' \subseteq Job
  BY DEF IInv, TypeOK, ReceivePrepared
<1>3. /\ RoundRobin(queue, order, ready' \ delayed, sending)
      /\ UNCHANGED <<faults, restarts, stream, deliveries, phase, fetcher, offer, slots,
                     mediaSlots, buffers, activeIds>>
  BY DEF ReceivePrepared, boundVars, brokerVars, fetchVars
<1>4. QED
  BY <1>1, <1>2, <1>3, QuietTurn

LEMMA RetainHeadKeeps ==
  ASSUME IInv, RetainHead
  PROVE  IInv'
<1>1. /\ RoundRobin(queue, order, ready \ delayed', None)
      /\ UNCHANGED <<faults, restarts, stream, deliveries, phase, fetcher, offer, slots,
                     mediaSlots, buffers, activeIds, prep, ready>>
  BY DEF RetainHead, boundVars, brokerVars, fetchVars, prepVars
<1>2. /\ ready \subseteq ready' /\ ready' \subseteq Job /\ ready \ delayed' \subseteq ready'
      /\ prep' \in [Job -> {"none", "check", "wait", "download", "offer"}]
  BY <1>1 DEF IInv, TypeOK
<1>3. delayed' \subseteq Job
  BY DEF IInv, TypeOK, Sent, RetainHead
<1>4. HeadsOnly(queue, ready', prep', buffers)
  BY <1>1 DEF IInv
<1>5. QED
  BY <1>1, <1>2, <1>3, <1>4, QuietTurn

LEMMA TickerKeeps ==
  ASSUME NEW S \in SUBSET delayed, IInv, Ticker(S)
  PROVE  IInv'
<1>1. /\ RoundRobin(queue, order, ready \ delayed', sending)
      /\ UNCHANGED <<faults, restarts, stream, deliveries, phase, fetcher, offer, slots,
                     mediaSlots, buffers, activeIds, prep, ready>>
  BY DEF Ticker, boundVars, brokerVars, fetchVars, prepVars
<1>2. /\ ready \subseteq ready' /\ ready' \subseteq Job /\ ready \ delayed' \subseteq ready'
      /\ prep' \in [Job -> {"none", "check", "wait", "download", "offer"}]
      /\ delayed' \subseteq Job
  BY <1>1 DEF IInv, TypeOK, Ticker
<1>3. HeadsOnly(queue, ready', prep', buffers)
  BY <1>1 DEF IInv
<1>4. QED
  BY <1>1, <1>2, <1>3, QuietTurn

LEMMA AdmitKeeps ==
  ASSUME IInv, Admit
  PROVE  IInv'
<1> DEFINE m == offer
           k == Key(Message(m))
           p == [queue EXCEPT ![k] = Append(@, m)]
           ids == activeIds \cup {Id[Message(m)]}
<1>1. /\ phase = "running" /\ fetcher = "offer" /\ m \in Job /\ k \in Contact
      /\ (Id[Message(m)] = NoId \/ Id[Message(m)] \notin activeIds) /\ fetcher' = "slot" /\ offer' = None
      /\ activeIds' = ids
      /\ IF queue[k] = <<>> THEN StartHead(m, ready) ELSE UNCHANGED <<prep, ready>>
      /\ RoundRobin(p, Listed(k), ready' \ delayed, sending)
      /\ UNCHANGED <<faults, restarts, stream, deliveries, phase, slots, mediaSlots, buffers,
                     delayed>>
  BY KeyType DEF Admit, IsDuplicate, IInv, TypeOK, boundVars, brokerVars
<1>2. Consistent(queue, order, activeIds)
  BY DEF IInv
<1>3. /\ Consistent(p, Listed(k), ids)
      /\ QueuedIn(p) = QueuedIn(queue) \cup {m} /\ m \notin QueuedIn(queue)
  <2>1. Admitted(queue, order, activeIds, m)
    <3>1. m \notin QueuedIn(queue)
      BY <1>1 DEF IInv, Numbered, Queued, QueuedIn
    <3> QED BY <1>1, <1>2, <3>1, AdmitQueue
  <2>2. QED
    BY <2>1 DEF Admitted, Listed
<1>4. queue' = p /\ Consistent(queue', order', ids)
  BY <1>1, <1>3, Turn
<1>5. Consistent(queue, order, activeIds)'
  BY <1>1, <1>4 DEF Consistent, QueuedIn
<1>6. ~HeadOf(queue, m)
  BY <1>1, <1>2, <1>3, QueuedFacts
<1>7. m \notin ready /\ m \notin buffers /\ prep[m] = "none"
  BY <1>1, <1>6 DEF IInv, HeadsOnly
<1>8. /\ ready \subseteq ready' /\ ready' \subseteq Job
      /\ prep' \in [Job -> {"none", "check", "wait", "download", "offer"}]
      /\ ready' \subseteq ready \cup {m}
      /\ \A x \in Job : x # m => prep'[x] = prep[x]
      /\ m \in ready' => prep'[m] = "none"
      /\ queue[k] # <<>> => prep' = prep /\ ready' = ready
  <2>1. ready \subseteq Job
        /\ prep \in [Job -> {"none", "check", "wait", "download", "offer"}]
    BY DEF IInv, TypeOK
  <2>2. CASE queue[k] # <<>>
    BY <1>1, <1>7, <2>1, <2>2
  <2>3. CASE queue[k] = <<>> /\ Message(m) \in Media
    <3>1. prep' = [prep EXCEPT ![m] = "check"] /\ ready' = ready
      BY <1>1, <2>3 DEF StartHead
    <3>2. QED
      BY <1>1, <1>7, <2>1, <2>3, <3>1
  <2>4. CASE queue[k] = <<>> /\ Message(m) \notin Media
    <3>1. ready' = ready \cup {m} /\ prep' = prep
      BY <1>1, <2>4 DEF StartHead
    <3>2. QED
      BY <1>1, <1>7, <2>1, <2>4, <3>1
  <2>5. QED
    BY <2>2, <2>3, <2>4
<1>9. /\ \A x \in Job : HeadOf(queue, x) => HeadOf(p, x)
      /\ queue[k] = <<>> => HeadOf(p, m)
  <2>1. /\ queue \in [Contact -> Seq(Job)]
        /\ \A c \in Contact : p[c] = IF c = k THEN Append(queue[k], m) ELSE queue[c]
    BY <1>1, <1>2 DEF Consistent
  <2>2. /\ Append(queue[k], m) # <<>>
        /\ Head(Append(queue[k], m)) = IF queue[k] = <<>> THEN m ELSE Head(queue[k])
    BY <1>1, <2>1, AppendFacts
  <2> HIDE DEF p
  <2>3. ASSUME NEW x \in Job, HeadOf(queue, x)
        PROVE  HeadOf(p, x)
    <3>1. Key(Message(x)) \in Contact
      BY KeyType
    <3>2. CASE Key(Message(x)) = k
      BY <1>1, <2>1, <2>2, <2>3, <3>2 DEF HeadOf
    <3>3. CASE Key(Message(x)) # k
      BY <2>1, <2>3, <3>1, <3>3 DEF HeadOf
    <3>4. QED
      BY <3>2, <3>3
  <2>4. queue[k] = <<>> => HeadOf(p, m)
    BY <1>1, <2>1, <2>2 DEF HeadOf
  <2>5. QED
    BY <2>3, <2>4
<1>10. HeadsOnly(queue, ready, prep, buffers)'
  <2>1. HeadsOnly(p, ready', prep', buffers)
    <3>1. \A x \in ready' : HeadOf(p, x) /\ prep'[x] = "none"
      BY <1>1, <1>7, <1>8, <1>9 DEF IInv, TypeOK, HeadsOnly
    <3>2. \A x \in Job : prep'[x] # "none" => HeadOf(p, x)
      BY <1>1, <1>7, <1>8, <1>9 DEF IInv, HeadsOnly
    <3>3. \A x \in buffers : HeadOf(p, x) /\ (x \in ready' \/ prep'[x] \in {"download", "offer"})
      BY <1>1, <1>7, <1>8, <1>9 DEF IInv, TypeOK, HeadsOnly
    <3>4. QED
      BY <3>1, <3>2, <3>3 DEF HeadsOnly
  <2>2. QED
    BY <2>1, <1>1, <1>4 DEF HeadsOnly, HeadOf
<1>11. TypeOK /\ Sent(sending, handler, ready, executed)
  BY DEF IInv
<1>12. ready' \ delayed \subseteq ready' /\ (sending = None \/ sending \in ready')
  BY <1>8, <1>11 DEF Sent
<1>13. /\ sending' = None <=> handler' = "none"
       /\ sending' # None => sending' \in ready' /\ Command(Message(sending')) \in executed'
       /\ handler' = "settled" /\ Message(sending') \notin Control => stream[Message(sending')] = "done"
       /\ sending' \in Job \cup {None}
       /\ handler' \in {"none", "running", "settled", "unsettled"}
       /\ executed' \subseteq {Command(x) : x \in Msg}
       /\ executed \subseteq executed'
  <2> HIDE DEF p, ids
  <2> QED BY <1>1, <1>3, <1>11, <1>12, TurnSent
<1>14. Sent(sending, handler, ready, executed)'
  BY <1>1, <1>13 DEF Sent
<1>15. TypeOK'
  <2>1. activeIds' \subseteq {Id[x] : x \in Msg}
    BY <1>1, <1>11, JobFacts DEF TypeOK
  <2> HIDE DEF p, ids
  <2> QED BY <1>1, <1>4, <1>8, <1>11, <1>13, <2>1 DEF TypeOK, Consistent
<1>16. Accounts'
  <2>1. Queued' = Queued \cup {m} /\ m \notin Queued
    BY <1>3, <1>4 DEF Queued, QueuedIn
  <2>2. IsFiniteSet(Queued') /\ Cardinality(Queued') = Cardinality(Queued) + 1
    BY <2>1, FS_AddElement DEF IInv, Accounts
  <2>3. QED
    BY <1>1, <2>2, FS_CardinalityType DEF IInv, Accounts, TypeOK
<1>17. ASSUME restarts = 0
       PROVE  Lined(p, executed)
  <2>1. ASSUME NEW c \in Contact, NEW i \in 1 .. Len(p[c]), NEW x \in Msg, Before(x, Message(p[c][i]))
        PROVE  Command(x) \in executed \/ \E j \in 1 .. i - 1 : Command(Message(p[c][j])) = Command(x)
    <3>1. Lined(queue, executed) /\ Known(queue, executed) /\ InTurn
      BY <1>1, <1>17 DEF IInv, OrderKept
    <3>2. CASE c # k
      <4>1. p[c] = queue[c]
        BY <1>2, <3>2 DEF Consistent
      <4> HIDE DEF p
      <4>2. QED
        BY <2>1, <3>1, <4>1 DEF Lined
    <3>3. CASE c = k
      <4>1. queue[k] \in Seq(Job) /\ p[k] = Append(queue[k], m)
        BY <1>1, <1>2 DEF Consistent
      <4>2. /\ Len(queue[k]) \in Nat /\ Len(p[k]) = Len(queue[k]) + 1
            /\ \A j \in 1 .. Len(queue[k]) : p[k][j] = queue[k][j]
            /\ p[k][Len(queue[k]) + 1] = m
        BY <1>1, <4>1, AppendProperties, LenProperties
      <4> HIDE DEF p
      <4>3. CASE i <= Len(queue[k])
        <5>1. i \in 1 .. Len(queue[k]) /\ p[k][i] = queue[k][i]
          BY <4>2, <4>3
        <5>2. Command(x) \in executed \/ \E j \in 1 .. i - 1 : Command(Message(queue[k][j])) = Command(x)
          BY <1>1, <2>1, <3>1, <3>3, <5>1 DEF Lined
        <5>3. \A j \in 1 .. i - 1 : p[k][j] = queue[k][j]
          BY <4>2, <4>3, <5>1
        <5>4. QED
          BY <3>3, <5>2, <5>3
      <4>4. CASE ~(i <= Len(queue[k]))
        <5>1. i = Len(queue[k]) + 1 /\ p[k][i] = m
          BY <3>3, <4>2, <4>4
        <5>2. Before(x, Message(m)) /\ x < Message(m)
          BY <1>1, <2>1, <3>3, <5>1, JobFacts DEF Before
        <5>3. deliveries[x] > 0
          BY <1>1, <3>1, <5>2, JobFacts DEF InTurn
        <5>4. Command(x) # Command(Message(m))
          BY <5>2, MsgAssumption DEF Before
        <5>5. CASE Command(x) \in executed
          BY <5>5
        <5>6. CASE \E y \in QueuedIn(queue) : Command(Message(y)) = Command(x)
          <6>1. PICK y \in QueuedIn(queue) : Command(Message(y)) = Command(x)
            BY <5>6
          <6>2. y \in Job /\ y \in ToSet(queue[Key(Message(y))])
            BY <1>2, <6>1, QueuedFacts
          <6>3. Key(Message(y)) = k
            BY <1>1, <5>2, <6>1, <6>2, CopyAssumption, JobFacts DEF Before, Key
          <6>4. PICK j \in 1 .. Len(queue[k]) : queue[k][j] = y
            BY <4>1, <6>2, <6>3, LenProperties DEF ToSet
          <6>5. j \in 1 .. i - 1 /\ Command(Message(p[k][j])) = Command(x)
            BY <4>2, <5>1, <6>1, <6>4
          <6>6. QED
            BY <3>3, <6>5
        <5>7. QED
          BY <3>1, <5>3, <5>4, <5>5, <5>6 DEF Known
      <4>5. QED
        BY <4>3, <4>4
    <3>4. QED
      BY <3>2, <3>3
  <2>2. QED
    BY <2>1 DEF Lined
<1>18. OrderKept'
  <2>1. SUFFICES ASSUME restarts = 0 PROVE OrderKept'
    BY <1>1 DEF OrderKept
  <2>2. Started(executed') /\ Lined(queue', executed')
    <3> HIDE DEF p, ids
    <3>1. Started(executed) /\ Lined(p, executed)
      BY <2>1, <1>17 DEF IInv, OrderKept
    <3>2. QED
      BY <3>1, <1>1, <1>3, <1>4, TurnOrder
  <2>3. Known(queue, executed)'
    <3>1. Known(queue, executed)
      BY <2>1, <1>1 DEF IInv, OrderKept
    <3>2. QueuedIn(queue') = QueuedIn(queue) \cup {m}
      BY <1>3, <1>4
    <3> HIDE DEF p, ids
    <3> QED BY <3>1, <3>2, <1>1, <1>13 DEF Known, QueuedIn
  <2>4. InTurn'
    BY <2>1, <1>1 DEF IInv, OrderKept, InTurn
  <2>5. QED
    BY <2>2, <2>3, <2>4 DEF OrderKept, Started, Lined, Before
<1>19. Numbered'
  <2>1. Queued' = Queued \cup {m}
    BY <1>3, <1>4 DEF Queued, QueuedIn
  <2> QED BY <1>1, <2>1 DEF IInv, Numbered
<1>20. QED
  BY <1>5, <1>10, <1>14, <1>15, <1>16, <1>18, <1>19 DEF IInv

LEMMA FinishHeadKeeps ==
  ASSUME IInv, FinishHead
  PROVE  IInv'
<1> DEFINE m == sending
           k == Key(Message(m))
           rest == Tail(queue[k])
           p == [queue EXCEPT ![k] = rest]
           l == IF rest = <<>> THEN RemoveFirst(order, k) ELSE order
           ids == activeIds \ {Id[Message(m)]}
<1>1. TypeOK /\ Sent(sending, handler, ready, executed) /\ Consistent(queue, order, activeIds)
  BY DEF IInv
<1>2. m \in Job /\ m \in ready /\ Command(Message(m)) \in executed /\ k \in Contact
  BY <1>1, KeyType DEF Sent, TypeOK, FinishHead
<1>3. /\ phase = "running" /\ activeIds' = ids /\ slots' = slots - 1
      /\ Release(m) /\ delayed' = delayed \ {m} /\ StartNext(rest, ready \ {m})
      /\ RoundRobin(p, l, ready' \ delayed', None)
      /\ UNCHANGED <<faults, restarts, stream, deliveries, phase, fetcher, offer>>
  BY DEF FinishHead, boundVars, brokerVars, fetchVars
<1>4. HeadOf(queue, m) /\ prep[m] = "none"
  BY <1>2 DEF IInv, HeadsOnly
<1>5. /\ Consistent(p, l, ids) /\ QueuedIn(p) = QueuedIn(queue) \ {m} /\ m \in QueuedIn(queue)
  <2>1. Consistent(queue, order, activeIds) /\ m \in Job /\ HeadOf(queue, m)
    BY <1>1, <1>2, <1>4
  <2>2. Finished(queue, order, activeIds, m)
    BY <2>1, FinishQueue
  <2>3. QED
    BY <2>2 DEF Finished
<1>6. queue' = p /\ Consistent(queue', order', ids)
  BY <1>3, <1>5, Turn
<1>7. Consistent(queue, order, activeIds)'
  BY <1>3, <1>6 DEF Consistent, QueuedIn
<1>8. /\ queue[k] \in Seq(Job) /\ queue[k] # <<>> /\ Head(queue[k]) = m
      /\ \A c \in Contact : p[c] = IF c = k THEN rest ELSE queue[c]
      /\ rest \in Seq(Job) /\ (rest # <<>> => Head(rest) \in Job)
  <2>1. queue \in [Contact -> Seq(Job)] /\ queue[k] # <<>> /\ Head(queue[k]) = m
    BY <1>1, <1>4 DEF Consistent, HeadOf
  <2>2. rest \in Seq(Job)
    BY <1>2, <2>1, HeadTailProperties
  <2>3. rest # <<>> => Head(rest) \in Job
    BY <2>2, HeadTailProperties
  <2>4. QED
    BY <1>2, <2>1, <2>2, <2>3
\* The next head, if there is one, has not been a head before.
<1>9. ASSUME rest # <<>>
      PROVE  /\ Head(rest) # m /\ Key(Message(Head(rest))) = k
             /\ Head(rest) \notin ready /\ Head(rest) \notin buffers
             /\ prep[Head(rest)] = "none"
  <2>1. IsInjective(queue[k]) /\ \A x \in ToSet(queue[k]) : Key(Message(x)) = k
    BY <1>1, <1>2 DEF Consistent
  <2>2. ToSet(rest) = ToSet(queue[k]) \ {m} /\ IsInjective(rest)
    BY <1>8, <2>1, TailFacts
  <2>3. Head(rest) \in ToSet(rest)
    BY <1>8, <1>9, <2>2, TailFacts
  <2>4. Head(rest) # m /\ Key(Message(Head(rest))) = k
    BY <2>1, <2>2, <2>3
  <2>5. ~HeadOf(queue, Head(rest))
    BY <1>8, <2>4 DEF HeadOf
  <2>6. QED
    BY <1>8, <1>9, <2>4, <2>5 DEF IInv, HeadsOnly
<1>10. /\ \A x \in Job : x # m /\ HeadOf(queue, x) => HeadOf(p, x)
       /\ rest # <<>> => HeadOf(p, Head(rest))
  <2> HIDE DEF p
  <2>1. ASSUME NEW x \in Job, x # m, HeadOf(queue, x)
        PROVE  HeadOf(p, x)
    <3>1. Key(Message(x)) \in Contact /\ Key(Message(x)) # k
      BY <1>8, <2>1, KeyType DEF HeadOf
    <3>2. QED
      BY <1>8, <2>1, <3>1 DEF HeadOf
  <2>2. rest # <<>> => HeadOf(p, Head(rest))
    BY <1>2, <1>8, <1>9 DEF HeadOf
  <2>3. QED
    BY <2>1, <2>2
<1>11. HeadsOnly(p, ready', prep', buffers') /\ ready' \subseteq Job
       /\ prep' \in [Job -> {"none", "check", "wait", "download", "offer"}]
  <2>1. /\ ready \subseteq Job /\ buffers \subseteq Job
        /\ prep \in [Job -> {"none", "check", "wait", "download", "offer"}]
        /\ HeadsOnly(queue, ready, prep, buffers)
        /\ buffers' = buffers \ {m}
    BY <1>3 DEF IInv, TypeOK, Release
  <2> HIDE DEF p, rest
  <2>2. CASE rest = <<>>
    <3>1. ready' = ready \ {m} /\ prep' = prep
      BY <1>3, <2>2 DEF StartNext
    <3>2. QED
      BY <1>2, <1>4, <1>10, <2>1, <3>1 DEF HeadsOnly
  <2>3. CASE rest # <<>> /\ Message(Head(rest)) \in Media
    <3>1. ready' = ready \ {m} /\ prep' = [prep EXCEPT ![Head(rest)] = "check"]
      BY <1>3, <2>3 DEF StartNext, StartHead
    <3>2. QED
      BY <1>2, <1>4, <1>8, <1>9, <1>10, <2>1, <2>3, <3>1 DEF HeadsOnly
  <2>4. CASE rest # <<>> /\ Message(Head(rest)) \notin Media
    <3>1. ready' = (ready \ {m}) \cup {Head(rest)} /\ prep' = prep
      BY <1>3, <2>4 DEF StartNext, StartHead
    <3>2. QED
      BY <1>2, <1>4, <1>8, <1>9, <1>10, <2>1, <2>4, <3>1 DEF HeadsOnly
  <2>5. QED
    BY <2>2, <2>3, <2>4
<1>12. HeadsOnly(queue, ready, prep, buffers)'
  BY <1>6, <1>11 DEF HeadsOnly, HeadOf
<1>13. /\ sending' = None <=> handler' = "none"
       /\ sending' # None => sending' \in ready' /\ Command(Message(sending')) \in executed'
       /\ handler' = "settled" /\ Message(sending') \notin Control => stream[Message(sending')] = "done"
       /\ sending' \in Job \cup {None}
       /\ handler' \in {"none", "running", "settled", "unsettled"}
       /\ executed' \subseteq {Command(x) : x \in Msg}
       /\ executed \subseteq executed'
  <2> HIDE DEF p, l, ids
  <2>1. ready' \ delayed' \subseteq ready'
    OBVIOUS
  <2>2. QED
    BY <1>1, <1>3, <1>5, <2>1, TurnSent
<1>14. Sent(sending, handler, ready, executed)'
  BY <1>3, <1>13 DEF Sent
<1>15. IsFiniteSet(Queued') /\ Cardinality(Queued') = Cardinality(Queued) - 1
       /\ Cardinality(Queued) \in Nat \ {0} /\ Cardinality(Queued) \in Nat
  <2>1. Queued' = Queued \ {m} /\ m \in Queued
    BY <1>5, <1>6 DEF Queued, QueuedIn
  <2>2. IsFiniteSet(Queued)
    BY DEF IInv, Accounts
  <2>3. QED
    BY <2>1, <2>2, FS_RemoveElement, FS_CardinalityType, FS_EmptySet
<1>16. IsFiniteSet(buffers') /\ mediaSlots' = Cardinality(buffers') /\ mediaSlots' \in 0 .. MediaLimit
  <2>1. IsFiniteSet(buffers) /\ mediaSlots = Cardinality(buffers) /\ mediaSlots \in 0 .. MediaLimit
    BY DEF IInv, Accounts, TypeOK
  <2>2. /\ buffers' = buffers \ {m}
        /\ mediaSlots' = IF m \in buffers THEN mediaSlots - 1 ELSE mediaSlots
    BY <1>3 DEF Release
  <2>3. IsFiniteSet(buffers') /\ mediaSlots' = Cardinality(buffers')
    BY <2>1, <2>2, FS_RemoveElement
  <2>4. mediaSlots' \in Nat
    BY <2>3, FS_CardinalityType
  <2>5. QED
    BY <2>1, <2>2, <2>3, <2>4, LimitAssumption
<1>17. slots' = slots - 1 /\ slots' \in 0 .. QueueLimit
       /\ slots' = Cardinality(Queued') + (IF fetcher = "slot" THEN 0 ELSE 1)
  BY <1>3, <1>15, LimitAssumption DEF IInv, Accounts, TypeOK
<1>18. Accounts'
  BY <1>3, <1>15, <1>16, <1>17 DEF IInv, Accounts
<1>19. TypeOK'
  BY <1>1, <1>3, <1>6, <1>11, <1>13, <1>16, <1>17 DEF TypeOK, Consistent, Release
<1>20. ASSUME restarts = 0
       PROVE  Lined(p, executed)
  <2>1. ASSUME NEW c \in Contact, NEW i \in 1 .. Len(p[c]), NEW x \in Msg, Before(x, Message(p[c][i]))
        PROVE  Command(x) \in executed \/ \E j \in 1 .. i - 1 : Command(Message(p[c][j])) = Command(x)
    <3>1. Lined(queue, executed)
      BY <1>20 DEF IInv, OrderKept
    <3> HIDE DEF p
    <3>2. CASE c # k
      <4>1. p[c] = queue[c]
        BY <1>8, <3>2
      <4>2. QED
        BY <2>1, <3>1, <4>1 DEF Lined
    <3>3. CASE c = k
      <4>1. IsInjective(queue[k])
        BY <1>1, <1>2 DEF Consistent
      <4>2. /\ p[k] = rest /\ queue[k][1] = m
            /\ Len(queue[k]) \in Nat \ {0} /\ Len(rest) = Len(queue[k]) - 1
            /\ \A j \in 1 .. Len(rest) : rest[j] = queue[k][j + 1]
        BY <1>2, <1>8, <4>1, TailFacts
      <4> HIDE DEF rest
      <4>3. i \in 1 .. Len(rest) /\ i + 1 \in 1 .. Len(queue[k]) /\ p[k][i] = queue[k][i + 1]
        BY <3>3, <4>2
      <4>4. Command(x) \in executed \/ \E j \in 1 .. (i + 1) - 1 : Command(Message(queue[k][j])) = Command(x)
        BY <1>2, <2>1, <3>1, <3>3, <4>3 DEF Lined
      <4>5. ASSUME NEW j \in 1 .. (i + 1) - 1, Command(Message(queue[k][j])) = Command(x)
            PROVE  Command(x) \in executed \/ \E h \in 1 .. i - 1 : Command(Message(p[k][h])) = Command(x)
        <5>1. CASE j = 1
          BY <1>2, <4>2, <4>5, <5>1
        <5>2. CASE j # 1
          <6>1. j - 1 \in 1 .. i - 1 /\ j - 1 \in 1 .. Len(rest) /\ (j - 1) + 1 = j
            BY <4>2, <4>3, <5>2
          <6>2. Command(Message(p[k][j - 1])) = Command(x)
            BY <4>2, <4>5, <6>1
          <6>3. QED
            BY <6>1, <6>2
        <5>3. QED
          BY <5>1, <5>2
      <4>6. QED
        BY <3>3, <4>4, <4>5
    <3>4. QED
      BY <3>2, <3>3
  <2>2. QED
    BY <2>1 DEF Lined
<1>21. OrderKept'
  <2>1. SUFFICES ASSUME restarts = 0 PROVE OrderKept'
    BY <1>3 DEF OrderKept
  <2>2. Started(executed') /\ Lined(queue', executed')
    <3> HIDE DEF p, l, ids
    <3>1. Started(executed) /\ Lined(p, executed)
      BY <2>1, <1>20 DEF IInv, OrderKept
    <3>2. QED
      BY <3>1, <1>3, <1>5, <1>6, TurnOrder
  <2>3. Known(queue, executed)'
    <3>1. Known(queue, executed)
      BY <2>1, <1>3 DEF IInv, OrderKept
    <3>2. QueuedIn(queue') = QueuedIn(queue) \ {m}
      BY <1>5, <1>6
    <3> HIDE DEF p, l, ids
    <3> QED BY <3>1, <3>2, <1>2, <1>3, <1>13 DEF Known, QueuedIn
  <2>4. InTurn'
    BY <2>1, <1>3 DEF IInv, OrderKept, InTurn
  <2>5. QED
    BY <2>2, <2>3, <2>4 DEF OrderKept, Started, Lined, Before
<1>22. Numbered'
  <2>1. Queued' = Queued \ {m}
    BY <1>5, <1>6 DEF Queued, QueuedIn
  <2> QED BY <1>3, <2>1 DEF IInv, Numbered
<1>23. QED
  BY <1>7, <1>12, <1>14, <1>18, <1>19, <1>21, <1>22 DEF IInv

-----------------------------------------------------------------------------
(***************************************************************************)
(* A process that starts has nothing queued.                               *)
(***************************************************************************)
LEMMA EmptyFacts ==
  ASSUME NEW q, q = [k \in Contact |-> <<>>]
  PROVE  Consistent(q, <<>>, {}) /\ QueuedIn(q) = {}
<1>1. ToSet(<<>>) = {} /\ IsInjective(<<>>)
  BY DEF ToSet, IsInjective
<1>2. QueuedIn(q) = {}
  BY <1>1 DEF QueuedIn
<1>3. QED
  BY <1>1, <1>2, EmptySeq DEF Consistent

LEMMA RenewedKeeps ==
  ASSUME IInv, Renewed, restarts' = restarts + 1, UNCHANGED faults
  PROVE  IInv'
<1>1. Consistent(queue, order, activeIds)' /\ QueuedIn(queue)' = {}
  BY EmptyFacts DEF Renewed, Consistent, QueuedIn
<1>2. HeadsOnly(queue, ready, prep, buffers)'
  BY DEF Renewed, HeadsOnly
<1>3. Accounts'
  <2>1. Queued' = {}
    BY <1>1 DEF Queued, QueuedIn
  <2>2. /\ phase' = "running" /\ fetcher' = "slot" /\ slots' = 0
        /\ mediaSlots' = 0 /\ buffers' = {}
    BY DEF Renewed
  <2>3. IsFiniteSet({}) /\ Cardinality({}) = 0
    BY FS_EmptySet
  <2>4. QED
    BY <2>1, <2>2, <2>3 DEF Accounts
<1>4. Sent(sending, handler, ready, executed)'
  BY DEF Renewed, Sent
<1>5. restarts' # 0
  BY DEF IInv, TypeOK
<1>6. OrderKept'
  BY <1>5 DEF OrderKept
<1>7. TypeOK'
  BY <1>1, LimitAssumption DEF IInv, TypeOK, Renewed, brokerVars, Consistent
<1>8. Numbered'
  BY <1>1 DEF Renewed, Numbered, Queued, QueuedIn
<1>9. QED
  BY <1>1, <1>2, <1>3, <1>4, <1>6, <1>7, <1>8 DEF IInv

LEMMA InitInv == Init => IInv
<1> SUFFICES ASSUME Init PROVE IInv
  OBVIOUS
<1>1. Consistent(queue, order, activeIds) /\ QueuedIn(queue) = {}
  BY EmptyFacts DEF Init, Fresh
<1>2. HeadsOnly(queue, ready, prep, buffers)
  BY DEF Init, Fresh, HeadsOnly
<1>3. Accounts /\ Numbered
  <2>1. Queued = {}
    BY <1>1 DEF Queued, QueuedIn
  <2> QED BY <2>1, FS_EmptySet DEF Init, Fresh, Accounts, Numbered
<1>4. Sent(sending, handler, ready, executed)
  BY DEF Init, Fresh, Sent
<1>5. OrderKept
  <2>1. Started(executed) /\ Known(queue, executed) /\ InTurn
    BY DEF Init, Fresh, Started, Known, InTurn
  <2>2. Lined(queue, executed)
    BY DEF Init, Fresh, Lined
  <2>3. QED
    BY <2>1, <2>2 DEF OrderKept
<1>6. TypeOK
  BY <1>1, LimitAssumption DEF Init, Fresh, TypeOK, Consistent
<1>7. QED
  BY <1>1, <1>2, <1>3, <1>4, <1>5, <1>6 DEF IInv

\* No step of any goroutine, of the broker or of a restart breaks the accounts.
LEMMA StepKeeps == IInv /\ [Next]_vars => IInv'
<1> SUFFICES ASSUME IInv, [Next]_vars PROVE IInv'
  OBVIOUS
<1>1. CASE \E m \in Msg : Publish(m) \/ AckTimeout(m)
  BY <1>1, PublishKeeps, AckTimeoutKeeps
<1>2. CASE Fetcher
  BY <1>2, TakeSlotKeeps, FetchKeeps, FetchFailsKeeps, FetcherNaksKeeps DEF Fetcher
<1>3. CASE Loop
  BY <1>3, DropDuplicateKeeps, AdmitKeeps, RetainHeadKeeps, FinishHeadKeeps,
     ReceivePreparedKeeps DEF Loop
<1>4. CASE \E S \in SUBSET delayed : Ticker(S)
  BY <1>4, TickerKeeps
<1>5. CASE \E j \in Job : Prepare(j)
  BY <1>5, PrepareReplayKeeps, PrepareWaitKeeps, TakeMediaSlotKeeps, DownloadedKeeps DEF Prepare
<1>6. CASE Sender
  BY <1>6, HandlerSettlesKeeps, HandlerNaksKeeps, HandlerDefersKeeps DEF Sender
<1>7. CASE Stop
  BY <1>7, StopKeeps
<1>8. CASE Restart \/ Crash
  BY <1>8, RenewedKeeps DEF Restart, Crash
<1>9. CASE UNCHANGED vars
  <2>1. UNCHANGED <<boundVars, brokerVars, phase, fetchVars, slots, prepVars, loopVars>>
    BY <1>9 DEF vars
  <2>2. UNCHANGED <<queue, order, activeIds, ready, prep, buffers, mediaSlots, sending, executed>>
    BY <2>1 DEF fetchVars, prepVars, loopVars
  <2>3. TypeOK'
    BY <2>1 DEF IInv, TypeOK, boundVars, brokerVars, fetchVars, prepVars, loopVars
  <2>4. Accounts' /\ Numbered'
    BY <2>1, <2>2, <2>3, OutsideKeeps
       DEF IInv, Accounts, Numbered, boundVars, brokerVars, fetchVars, prepVars, loopVars
  <2>5. Sent(sending, handler, ready, executed)'
    BY <2>1 DEF IInv, Sent, loopVars, brokerVars, boundVars, prepVars, fetchVars
  <2>6. OrderKept'
    BY <2>1, <2>2, <2>3, OutsideKeeps
       DEF IInv, OrderKept, Known, InTurn, QueuedIn, boundVars, brokerVars, fetchVars
  <2>7. QED
    BY <2>2, <2>3, <2>4, <2>5, <2>6, OutsideKeeps DEF IInv
<1>10. QED
  BY <1>1, <1>2, <1>3, <1>4, <1>5, <1>6, <1>7, <1>8, <1>9 DEF Next

-----------------------------------------------------------------------------
(***************************************************************************)
(* What the invariant says of the scheduler.                               *)
(***************************************************************************)
\* The accounts, the heads and the order of a contact hold in every state.
THEOREM Inductive == Spec => []IInv
  BY InitInv, StepKeeps, PTL DEF Spec

\* Types, with the slots and media slots within their limits.
THEOREM TypeCorrect == Spec => []TypeOK
<1>1. IInv => TypeOK
  BY DEF IInv
<1>2. QED
  BY <1>1, Inductive, PTL

\* Every admission slot belongs to a queued command or to the fetcher.
THEOREM SlotsAlwaysAccounted == Spec => []SlotsAccounted
<1>1. IInv => SlotsAccounted
  BY DEF IInv, Accounts, SlotsAccounted
<1>2. QED
  BY <1>1, Inductive, PTL

\* At most MediaLimit downloads are in memory, each for the head of a queue.
THEOREM MediaAlwaysBounded == Spec => []MediaBounded
<1>1. ASSUME IInv PROVE MediaBounded
  <2>1. mediaSlots = Cardinality(buffers) /\ mediaSlots <= MediaLimit
    BY <1>1, LimitAssumption DEF IInv, Accounts, TypeOK
  <2>2. ASSUME NEW m \in buffers
        PROVE  m \in {Head(queue[k]) : k \in {k \in Contact : queue[k] # <<>>}}
    <3>1. m \in Job /\ HeadOf(queue, m)
      BY <1>1 DEF IInv, TypeOK, HeadsOnly
    <3>2. QED
      BY <3>1, KeyType DEF HeadOf
  <2>3. QED
    BY <2>1, <2>2 DEF MediaBounded
<1>2. QED
  BY <1>1, Inductive, PTL

\* activeIDs holds the ids that are queued, and no command that has one is queued
\* twice.
THEOREM CommandsActiveOnce == Spec => []ActiveOnce
<1>1. IInv => ActiveOnce
  BY DEF IInv, Consistent, ActiveOnce, Queued, QueuedIn
<1>2. QED
  BY <1>1, Inductive, PTL

\* Until the first restart the commands of a contact are started in stream order.
THEOREM ContactsInOrder == Spec => []ContactOrder
<1>1. ASSUME IInv PROVE ContactOrder
  <2>1. SUFFICES ASSUME NEW m \in Msg, NEW n \in Msg,
                        restarts = 0, m < n, To[m] = To[n], Command(n) \in executed,
                        \A o \in Msg : Command(o) = Command(n) => n <= o
                 PROVE  Command(m) \in executed
    BY DEF ContactOrder
  <2>2. Before(m, n)
    BY <2>1, MsgAssumption DEF Before
  <2>3. QED
    BY <1>1, <2>1, <2>2 DEF IInv, OrderKept, Started
<1>2. QED
  BY <1>1, Inductive, PTL

\* A send leaves its queue only when it has been settled.
THEOREM HeadAlwaysRetained == Spec => HeadRetained
<1> DEFINE Kept ==
             \A j \in Queued :
               /\ Message(j) \notin Control
               /\ phase' = "running" /\ restarts' = restarts /\ j \notin Queued'
               => stream[Message(j)] = "done"
<1>1. ASSUME IInv, [Next]_vars
      PROVE  [Kept]_vars
  <2>1. SUFFICES ASSUME NEW m \in Queued, Message(m) \notin Control, phase' = "running",
                        restarts' = restarts, m \notin Queued'
                 PROVE  stream[Message(m)] = "done"
    OBVIOUS
  <2>2. queue' # queue
    BY <2>1 DEF Queued
  <2>3. Consistent(queue, order, activeIds)
    BY <1>1 DEF IInv
  <2>4. CASE Admit
    <3>1. /\ offer \in Job /\ offer \notin QueuedIn(queue)
          /\ Id[Message(offer)] = NoId \/ Id[Message(offer)] \notin activeIds
      BY <1>1, <2>4 DEF Admit, IsDuplicate, IInv, TypeOK, Numbered, Queued, QueuedIn
    <3>2. PICK o, able, s : RoundRobin([queue EXCEPT ![Key(Message(offer))] = Append(@, offer)], o, able, s)
      BY <2>4 DEF Admit
    <3>3. queue' = [queue EXCEPT ![Key(Message(offer))] = Append(@, offer)]
      BY <3>2 DEF RoundRobin
    <3>4. QueuedIn(queue') = QueuedIn(queue) \cup {offer}
      <4>1. Admitted(queue, order, activeIds, offer)
        BY <2>3, <3>1, AdmitQueue
      <4>2. QED
        BY <3>3, <4>1 DEF Admitted
    <3>5. QED
      BY <2>1, <3>4 DEF Queued, QueuedIn
  <2>5. CASE FinishHead
    <3>1. /\ queue' = [queue EXCEPT ![Key(Message(sending))] = Tail(queue[Key(Message(sending))])]
          /\ handler = "settled"
      BY <2>5 DEF FinishHead, RoundRobin
    <3>2. sending \in Job /\ HeadOf(queue, sending)
      BY <1>1, <3>1 DEF IInv, TypeOK, Sent, HeadsOnly
    <3>3. QueuedIn(queue') = QueuedIn(queue) \ {sending}
      <4>1. Finished(queue, order, activeIds, sending)
        BY <2>3, <3>2, FinishQueue
      <4>2. QED
        BY <3>1, <4>1 DEF Finished
    <3>4. m = sending
      BY <2>1, <3>3 DEF Queued, QueuedIn
    <3>5. QED
      BY <1>1, <2>1, <3>1, <3>4 DEF IInv, Sent
  <2>6. Admit \/ FinishHead
    <3>1. ~(Restart \/ Crash)
      BY <1>1, <2>1 DEF Restart, Crash, IInv, TypeOK
    <3>2. QED
      BY <1>1, <2>2, <3>1 DEF Next, vars, Fetcher, Loop, Prepare, Sender, Publish, AckTimeout,
         TakeSlot, Fetch, FetchFails, FetcherNaks, DropDuplicate, RetainHead, ReceivePrepared,
         Ticker, PrepareReplay, PrepareWait, TakeMediaSlot, Downloaded, HandlerSettles,
         HandlerNaks, HandlerDefers, Stop, RoundRobin, loopVars
  <2>7. QED
    BY <2>4, <2>5, <2>6
<1>2. QED
  BY <1>1, Inductive, PTL DEF Spec, HeadRetained

-----------------------------------------------------------------------------
(***************************************************************************)
(* No head is forgotten.  A head is started when it becomes one, and every *)
(* turn that leaves the sender idle has looked at all heads.               *)
(***************************************************************************)
HeadsStarted ==
    \A k \in Contact : queue[k] # <<>> =>
        Head(queue[k]) \in ready \/ prep[Head(queue[k])] # "none"
SenderBusy == sending = None => ready \subseteq delayed

\* A turn that leaves the sender idle found no head that may run.
LEMMA IdleTurn ==
  ASSUME IInv', NEW q, NEW o, NEW able, NEW s, RoundRobin(q, o, able, s),
         able = ready' \ delayed'
  PROVE  SenderBusy'
<1> SUFFICES ASSUME sending' = None, NEW m \in ready' PROVE m \in delayed'
  BY DEF SenderBusy
<1> DEFINE I == {i \in 1 .. Len(o) : q[o[i]] # <<>> /\ Head(q[o[i]]) \in able}
           j == IF I # {} THEN Min(I) ELSE 0
<1>1. /\ queue' = q
      /\ IF s # None \/ j = 0
           THEN order' = o /\ sending' = s
           ELSE handler' = "running"
  BY DEF RoundRobin, SelectInSeq
<1>2. handler' = "none"
  BY DEF IInv, Sent
<1>3. s = None /\ j = 0 /\ order' = o
  BY <1>1, <1>2
<1>4. I = {}
  <2>1. CASE I # {}
    <3>1. I \subseteq Nat /\ 0 \notin I /\ j = Min(I)
      BY <2>1
    <3> HIDE DEF I, j
    <3>2. j \in I
      BY <2>1, <3>1, MinIsElement
    <3> QED BY <1>3, <3>1, <3>2
  <2> QED BY <2>1
<1> HIDE DEF j
<1>5. m \in Job /\ queue'[Key(Message(m))] # <<>> /\ Head(queue'[Key(Message(m))]) = m
  BY DEF IInv, TypeOK, HeadsOnly, HeadOf
<1>6. Key(Message(m)) \in ToSet(order') /\ order' \in Seq(Contact)
  BY <1>5, KeyType DEF IInv, Consistent
<1>7. PICK i \in 1 .. Len(o) : o[i] = Key(Message(m))
  BY <1>3, <1>6, LenProperties DEF ToSet
<1>8. m \notin able
  BY <1>1, <1>4, <1>5, <1>7
<1> QED BY <1>8

\* Steps outside the loop leave the sender's job, the ready heads and the retry
\* times alone, and end no preparation.
LEMMA HeadsFrame ==
  ASSUME HeadsStarted, SenderBusy, UNCHANGED <<queue, ready, sending, delayed>>,
         \A m \in Job : prep[m] # "none" => prep'[m] # "none",
         queue \in [Contact -> Seq(Job)]
  PROVE  HeadsStarted' /\ SenderBusy'
<1>1. \A k \in Contact : queue[k] # <<>> => Head(queue[k]) \in Job
  BY HeadTailProperties
<1> QED BY <1>1 DEF HeadsStarted, SenderBusy

LEMMA AdmitStarts ==
  ASSUME IInv, HeadsStarted, Admit, IInv' PROVE HeadsStarted' /\ SenderBusy'
<1> DEFINE m == offer
           k == Key(Message(m))
           p == [queue EXCEPT ![k] = Append(@, m)]
<1>1. /\ m \in Job /\ k \in Contact
      /\ IF queue[k] = <<>> THEN StartHead(m, ready) ELSE UNCHANGED <<prep, ready>>
      /\ RoundRobin(p, Listed(k), ready' \ delayed', sending)
  BY KeyType DEF Admit, IInv, TypeOK
<1>2. SenderBusy'
  BY <1>1, IdleTurn
<1>3. queue' = p /\ queue \in [Contact -> Seq(Job)]
      /\ prep \in [Job -> {"none", "check", "wait", "download", "offer"}]
  BY <1>1 DEF RoundRobin, IInv, TypeOK
<1>4. ASSUME NEW c \in Contact, queue'[c] # <<>>
      PROVE  Head(queue'[c]) \in ready' \/ prep'[Head(queue'[c])] # "none"
  <2>0. queue[k] \in Seq(Job) /\ Head(Append(queue[k], m)) = IF queue[k] = <<>> THEN m ELSE Head(queue[k])
    BY <1>1, <1>3, AppendFacts
  <2>1. CASE c = k /\ queue[k] = <<>>
    <3>1. Head(queue'[c]) = m
      BY <1>1, <1>3, <2>0, <2>1
    <3>2. m \in ready' \/ prep'[m] # "none"
      BY <1>1, <1>3, <2>1 DEF StartHead
    <3> QED BY <3>1, <3>2
  <2>2. CASE ~(c = k /\ queue[k] = <<>>)
    <3>1. queue[c] # <<>> /\ Head(queue'[c]) = Head(queue[c])
      BY <1>1, <1>3, <1>4, <2>0, <2>2
    <3>2. queue[c] \in Seq(Job)
      BY <1>3
    <3>3. Head(queue[c]) \in Job
      BY <3>1, <3>2, HeadTailProperties
    <3>4. Head(queue[c]) \in ready \/ prep[Head(queue[c])] # "none"
      BY <3>1 DEF HeadsStarted
    <3>5. ready \subseteq ready' /\ \A x \in Job : prep[x] # "none" => prep'[x] # "none"
      BY <1>1, <1>3 DEF StartHead
    <3> QED BY <3>1, <3>3, <3>4, <3>5
  <2> QED BY <2>1, <2>2
<1> QED BY <1>2, <1>4 DEF HeadsStarted

LEMMA FinishHeadStarts ==
  ASSUME IInv, HeadsStarted, FinishHead, IInv' PROVE HeadsStarted' /\ SenderBusy'
<1> DEFINE m == sending
           k == Key(Message(m))
           rest == Tail(queue[k])
<1>1. /\ m \in Job /\ k \in Contact /\ HeadOf(queue, m)
      /\ queue \in [Contact -> Seq(Job)]
      /\ prep \in [Job -> {"none", "check", "wait", "download", "offer"}]
  BY KeyType DEF IInv, TypeOK, Sent, HeadsOnly, FinishHead
<1>2. /\ StartNext(rest, ready \ {m})
      /\ RoundRobin([queue EXCEPT ![k] = rest],
                    IF rest = <<>> THEN RemoveFirst(order, k) ELSE order,
                    ready' \ delayed', None)
  BY DEF FinishHead
<1>3. SenderBusy'
  BY <1>2, IdleTurn
<1>4. queue' = [queue EXCEPT ![k] = rest]
  BY <1>2 DEF RoundRobin
<1>5. rest \in Seq(Job) /\ (rest # <<>> => Head(rest) \in Job)
  <2>1. queue[k] \in Seq(Job) /\ queue[k] # <<>>
    BY <1>1 DEF HeadOf
  <2>2. rest \in Seq(Job)
    BY <2>1, HeadTailProperties
  <2> QED BY <2>2, HeadTailProperties
<1> HIDE DEF rest
<1>6. ASSUME NEW c \in Contact, queue'[c] # <<>>
      PROVE  Head(queue'[c]) \in ready' \/ prep'[Head(queue'[c])] # "none"
  <2>1. CASE c = k
    <3>1. queue'[c] = rest
      BY <1>1, <1>4, <2>1
    <3> QED BY <1>1, <1>2, <1>5, <1>6, <3>1 DEF StartNext, StartHead
  <2>2. CASE c # k
    <3>1. queue'[c] = queue[c] /\ queue[c] \in Seq(Job)
      BY <1>1, <1>4, <2>2
    <3>2. Head(queue[c]) \in Job /\ Head(queue[c]) \in ToSet(queue[c])
      <4>1. IsInjective(queue[c])
        BY DEF IInv, Consistent
      <4> QED BY <1>6, <3>1, <4>1, TailFacts
    <3>3. Head(queue[c]) # m
      BY <2>2, <3>2 DEF IInv, Consistent
    <3>4. Head(queue[c]) \in ready \/ prep[Head(queue[c])] # "none"
      BY <1>6, <3>1 DEF HeadsStarted
    <3>5. ready \ {m} \subseteq ready' /\ \A x \in Job : prep[x] # "none" => prep'[x] # "none"
      BY <1>1, <1>2, <1>5 DEF StartNext, StartHead
    <3> QED BY <3>1, <3>2, <3>3, <3>4, <3>5
  <2> QED BY <2>1, <2>2
<1> QED BY <1>3, <1>6 DEF HeadsStarted

LEMMA HeadsStep ==
  ASSUME IInv, IInv', HeadsStarted, SenderBusy, [Next]_vars
  PROVE  HeadsStarted' /\ SenderBusy'
<1>0. /\ queue \in [Contact -> Seq(Job)]
      /\ prep \in [Job -> {"none", "check", "wait", "download", "offer"}]
  BY DEF IInv, TypeOK
<1>1. ASSUME NEW m \in Job, ReceivePrepared(m) PROVE HeadsStarted' /\ SenderBusy'
  <2>1. /\ RoundRobin(queue, order, ready' \ delayed', sending)
        /\ prep' = [prep EXCEPT ![m] = "none"] /\ ready' = ready \cup {m}
    BY <1>1 DEF ReceivePrepared
  <2>2. SenderBusy'
    BY <2>1, IdleTurn
  <2>3. queue' = queue
    BY <2>1 DEF RoundRobin
  <2>4. \A x \in Job : x \in ready \/ prep[x] # "none" => x \in ready' \/ prep'[x] # "none"
    BY <1>0, <2>1
  <2>5. \A k \in Contact : queue[k] # <<>> => Head(queue[k]) \in Job
    BY <1>0, HeadTailProperties
  <2> QED BY <2>2, <2>3, <2>4, <2>5 DEF HeadsStarted
<1>2. ASSUME RetainHead \/ \E S \in SUBSET delayed : Ticker(S) PROVE HeadsStarted' /\ SenderBusy'
  <2>1. \E s : RoundRobin(queue, order, ready' \ delayed', s) /\ UNCHANGED <<prep, ready>>
    BY <1>2 DEF RetainHead, Ticker, prepVars
  <2>2. SenderBusy'
    BY <2>1, IdleTurn
  <2>3. UNCHANGED <<queue, prep, ready>>
    BY <2>1 DEF RoundRobin
  <2> QED BY <2>2, <2>3 DEF HeadsStarted
<1>3. ASSUME NEW m \in Job, Prepare(m) PROVE HeadsStarted' /\ SenderBusy'
  <2>1. /\ UNCHANGED <<queue, ready, sending, delayed>>
        /\ \A x \in Job : prep[x] # "none" => prep'[x] # "none"
    BY <1>0, <1>3 DEF Prepare, PrepareReplay, PrepareWait, TakeMediaSlot, Downloaded, loopVars
  <2> QED BY <1>0, <2>1, HeadsFrame
<1>4. CASE UNCHANGED <<queue, ready, sending, delayed, prep>>
  BY <1>0, <1>4, HeadsFrame
<1>5. CASE Restart \/ Crash
  <2>1. /\ queue' = [k \in Contact |-> <<>>] /\ ready' = {}
    BY <1>5 DEF Restart, Crash, Renewed
  <2> QED BY <2>1 DEF HeadsStarted, SenderBusy
<1> QED
  BY <1>1, <1>2, <1>3, <1>4, <1>5, AdmitStarts, FinishHeadStarts
     DEF Next, vars, Fetcher, Loop, Sender, Publish, AckTimeout, TakeSlot, Fetch, FetchFails,
         FetcherNaks, DropDuplicate, HandlerSettles, HandlerNaks, HandlerDefers, Stop,
         loopVars, prepVars

\* No head is forgotten: it is listed once, ready or in preparation, and the
\* sender idles only while every ready head waits for its retry time
\* (startHead and the end of every turn of processMessages).
THEOREM HeadsNeverForgotten == Spec => []NoHeadForgotten
<1>1. Init => HeadsStarted /\ SenderBusy
  BY DEF Init, Fresh, HeadsStarted, SenderBusy
<1>2. IInv /\ IInv' /\ HeadsStarted /\ SenderBusy /\ [Next]_vars => HeadsStarted' /\ SenderBusy'
  BY HeadsStep
<1>3. IInv /\ HeadsStarted /\ SenderBusy => NoHeadForgotten
  BY DEF IInv, Consistent, HeadsStarted, SenderBusy, NoHeadForgotten
<1> QED BY <1>1, <1>2, <1>3, Inductive, PTL DEF Spec
=============================================================================
