------------------------ MODULE OutboxDispatchProofs ------------------------
(***************************************************************************)
(* Proofs about OutboxDispatch, for every set of workspaces, rows and      *)
(* replicas and every lease, delay and page size.                          *)
(***************************************************************************)
EXTENDS OutboxDispatch, TLAPS

LEMMA SummaryType ==
    ASSUME TypeOK, NEW w, NEW due, IsSummary(w, due) PROVE due \in Time
  BY DEF TypeOK, IsSummary, Time

LEMMA MarkedType ==
    ASSUME TypeOK, NEW w \in Company
    PROVE  /\ Marked(marker[w]) \in Marker
           /\ Marked(marker[w]).token = marker[w].token
           /\ Marked(marker[w]).until = marker[w].until
           /\ Marked(marker[w]).generation = marker[w].generation + 1
           /\ Marked(marker[w]).due # Null /\ Marked(marker[w]).due <= now
<1>1. marker[w] \in Marker /\ now \in Nat
  BY DEF TypeOK
<1>2. Least(marker[w].due, now) \in Nat /\ Least(marker[w].due, now) <= now
  BY <1>1 DEF Least, Marker, Time, Null
<1> QED BY <1>1, <1>2 DEF Marked, Marker, Time, Null

LEMMA TypeInit == Init => TypeOK
  BY TokenAssumption DEF Init, TypeOK, Marker, NewMarker, Turn, NoTurn, Time, Null

LEMMA WriteMarksType ==
    ASSUME TypeOK, NEW w \in Company, WriteMarks(w)
    PROVE  /\ marked' \in SUBSET Company /\ marker' \in [Company -> Marker]
           /\ \A x \in Company : /\ x \notin marked' => marker'[x] = NewMarker(Null)
                                 /\ marker'[x].token = NoToken <=> marker'[x].until = Null
  BY MarkedType DEF TypeOK, WriteMarks

\* Clearing a claim while setting the due time.
LEMMA EndClaimType ==
    ASSUME TypeOK, NEW w \in Company, NEW due \in Time, w \in marked, marked' = marked,
           marker' = [marker EXCEPT ![w] = Unclaimed(@, due)]
    PROVE  /\ marked' \in SUBSET Company /\ marker' \in [Company -> Marker]
           /\ \A x \in Company : /\ x \notin marked' => marker'[x] = NewMarker(Null)
                                 /\ marker'[x].token = NoToken <=> marker'[x].until = Null
<1>1. Unclaimed(marker[w], due) \in Marker
  BY DEF TypeOK, Unclaimed, Marker, Time
<1>2. Unclaimed(marker[w], due).token = NoToken /\ Unclaimed(marker[w], due).until = Null
  BY DEF TypeOK, Unclaimed, Marker
<1> QED BY <1>1, <1>2 DEF TypeOK

LEMMA EndTurnType ==
    ASSUME TypeOK, NEW d \in Dispatcher, EndTurn(d)
    PROVE  /\ pc' \in [Dispatcher -> {"idle", "dispatch", "publish", "finish", "measure", "settle"}]
           /\ turn' \in [Dispatcher -> Turn]
           /\ \A e \in Dispatcher : pc'[e] # "idle" => turn'[e].company \in Company
           /\ held' \in [Dispatcher -> SUBSET Job]
  BY DEF TypeOK, EndTurn, Turn, NoTurn, Time

LEMMA HoldsTokenExists ==
    ASSUME TypeOK, NEW d \in Dispatcher, pc[d] # "idle", HoldsToken(d)
    PROVE  turn[d].company \in Company /\ turn[d].company \in marked
  BY TokenAssumption DEF TypeOK, HoldsToken, NewMarker

LEMMA TypeNext == TypeOK /\ [Next]_vars => TypeOK'
<1> SUFFICES ASSUME TypeOK, [Next]_vars PROVE TypeOK'
  OBVIOUS
<1> USE DelayAssumption, OwnerAssumption DEF clockVars, turnVars, markerVars
<1>1. ASSUME NEW j \in Job, EnqueueJob(j) PROVE TypeOK'
  BY <1>1, WriteMarksType DEF EnqueueJob, TypeOK
<1>2. ASSUME NEW d \in Dispatcher, NEW w \in Company, ClaimReadyWorkspace(d, w) PROVE TypeOK'
  <2>1. marker' \in [Company -> Marker]
    BY <1>2 DEF ClaimReadyWorkspace, TypeOK, Marker, Time
  <2>2. \A x \in Company : /\ x \notin marked' => marker'[x] = NewMarker(Null)
                           /\ marker'[x].token = NoToken <=> marker'[x].until = Null
    BY <1>2, TokenAssumption
       DEF ClaimReadyWorkspace, Claimable, TypeOK, Marker, Time, Null
  <2>3. turn' \in [Dispatcher -> Turn]
        /\ \A e \in Dispatcher : pc'[e] # "idle" => turn'[e].company \in Company
    BY <1>2 DEF ClaimReadyWorkspace, TypeOK, Turn
  <2> QED BY <1>2, <2>1, <2>2, <2>3 DEF ClaimReadyWorkspace, TypeOK
<1>3. ASSUME NEW d \in Dispatcher, Work(d) PROVE TypeOK'
  <2>1. ASSUME NEW S \in SUBSET Job, ClaimRows(d, S) PROVE TypeOK'
    <3>1. turn[d].company \in Company
      BY <2>1 DEF ClaimRows, TypeOK
    <3>2. job' \in [Job -> [state : {"none", "active", "final"}, next : Nat, retries : Nat]]
      BY <2>1 DEF ClaimRows, TypeOK
    <3>3. held' \in [Dispatcher -> SUBSET Job]
      BY <2>1 DEF ClaimRows, TypeOK
    <3> QED BY <2>1, <3>1, <3>2, <3>3, WriteMarksType DEF ClaimRows, TypeOK
  <2>2. CASE NothingDue(d) \/ RowsDone(d)
    BY <2>2 DEF NothingDue, RowsDone, TypeOK
  <2>3. ASSUME NEW j \in Job, RowFinal(d, j) PROVE TypeOK'
    <3>1. job' \in [Job -> [state : {"none", "active", "final"}, next : Nat, retries : Nat]]
      BY <2>3 DEF RowFinal, TypeOK
    <3> QED BY <2>3, <3>1, WriteMarksType DEF RowFinal, TypeOK
  <2>4. ASSUME NEW j \in Job, RowRetried(d, j) PROVE TypeOK'
    <3>1. job' \in [Job -> [state : {"none", "active", "final"}, next : Nat, retries : Nat]]
      BY <2>4 DEF RowRetried, TypeOK
    <3> QED BY <2>4, <3>1, WriteMarksType DEF RowRetried, TypeOK
  <2>5. ASSUME NEW j \in Job, RowLeftLeased(d, j) PROVE TypeOK'
    BY <2>5 DEF RowLeftLeased, TypeOK
  <2>6. CASE ReadGeneration(d)
    <3>1. CASE HoldsToken(d)
      <4>1. turn[d].company \in Company /\ marker[turn[d].company].generation \in Nat
        BY <2>6 DEF ReadGeneration, TypeOK, Marker
      <4>2. /\ turn' \in [Dispatcher -> Turn]
            /\ \A e \in Dispatcher : turn'[e].company = turn[e].company
        <5>1. \A g \in Nat : LET t == [turn EXCEPT ![d].generation = g]
                             IN  /\ t \in [Dispatcher -> Turn]
                                 /\ \A e \in Dispatcher : t[e].company = turn[e].company
          BY DEF TypeOK, Turn
        <5>2. turn' = [turn EXCEPT ![d].generation = marker[turn[d].company].generation]
          BY <2>6, <3>1 DEF ReadGeneration
        <5> QED BY <4>1, <5>1, <5>2, Zenon
      <4> QED BY <2>6, <3>1, <4>2 DEF ReadGeneration, TypeOK
    <3>2. CASE EndTurn(d)
      BY <2>6, <3>2, EndTurnType DEF ReadGeneration, TypeOK
    <3> QED BY <2>6, <3>1, <3>2 DEF ReadGeneration
  <2>7. ASSUME NEW due, MeasureWork(d, due) PROVE TypeOK'
    <3>1. due \in Time
      BY <2>7, SummaryType DEF MeasureWork
    <3> QED BY <2>7, <3>1 DEF MeasureWork, TypeOK, Turn
  <2>8. CASE SettleWorkspaceDispatch(d)
    <3>1. CASE HoldsToken(d)
      <4>1. SettledDue(marker[turn[d].company], turn[d]) \in Time
        BY DEF SettledDue, Greatest, TypeOK, Turn, Time
      <4>2. turn[d].company \in Company /\ turn[d].company \in marked
        BY <2>8, <3>1, HoldsTokenExists DEF SettleWorkspaceDispatch
      <4> QED BY <2>8, <3>1, <4>1, <4>2, EndClaimType, EndTurnType
                 DEF SettleWorkspaceDispatch, TypeOK
    <3>2. CASE ~HoldsToken(d)
      BY <2>8, <3>2, EndTurnType DEF SettleWorkspaceDispatch, TypeOK
    <3> QED BY <3>1, <3>2
  <2> QED BY <1>3, <2>1, <2>2, <2>3, <2>4, <2>5, <2>6, <2>7, <2>8 DEF Work
<1>4. ASSUME NEW d \in Dispatcher, ReleaseWorkspaceDispatch(d) PROVE TypeOK'
  <2>1. CASE HoldsToken(d)
    <3>1. now + ReleaseDelay \in Time
      BY DEF TypeOK, Time
    <3>2. turn[d].company \in Company /\ turn[d].company \in marked
      BY <1>4, <2>1, HoldsTokenExists DEF ReleaseWorkspaceDispatch
    <3>3. /\ marked' = marked
          /\ marker' = [marker EXCEPT ![turn[d].company] = Unclaimed(@, now + ReleaseDelay)]
      BY <1>4, <2>1 DEF ReleaseWorkspaceDispatch
    <3>4. /\ marker' \in [Company -> Marker]
          /\ \A x \in Company : /\ x \notin marked' => marker'[x] = NewMarker(Null)
                                /\ marker'[x].token = NoToken <=> marker'[x].until = Null
      BY <3>1, <3>2, <3>3, EndClaimType
    <3> QED BY <1>4, <3>3, <3>4, EndTurnType DEF ReleaseWorkspaceDispatch, TypeOK
  <2>2. CASE ~HoldsToken(d)
    BY <1>4, <2>2, EndTurnType DEF ReleaseWorkspaceDispatch, TypeOK
  <2> QED BY <2>1, <2>2
<1>5. ASSUME NEW d \in Dispatcher, Crash(d) PROVE TypeOK'
  BY <1>5, EndTurnType DEF Crash, TypeOK
<1>6. CASE Recover
  <2>0. PICK P \in SUBSET Company :
          \E c \in P \cup {Null} : \E summary \in [P -> {job[j].next : j \in Job} \cup {Null}] :
            RecoverOutboxDispatch(P, summary, c)
    BY <1>6 DEF Recover
  <2>1. PICK c \in P \cup {Null}, summary \in [P -> {job[j].next : j \in Job} \cup {Null}] :
          RecoverOutboxDispatch(P, summary, c)
    BY <2>0
  <2>2. \A w \in P : summary[w] \in Time
    BY DEF TypeOK, Time
  <2>3. \A due \in Time : /\ NewMarker(due) \in Marker
                          /\ NewMarker(due).token = NoToken /\ NewMarker(due).until = Null
    BY DEF NewMarker, Marker, Time
  <2>4. ASSUME NEW w \in P
        PROVE  LET r == Recovered(marker[w], summary[w])
               IN  r \in Marker /\ r.token = marker[w].token /\ r.until = marker[w].until
    <3>1. marker[w] \in Marker
      BY DEF TypeOK
    <3>2. summary[w] # Null => Least(marker[w].due, summary[w]) \in Time
      BY <2>2, <3>1 DEF Least, Marker, Time
    <3> QED BY <3>1, <3>2 DEF Recovered, Marker
  <2>5. marked' \in SUBSET Company /\ marker' \in [Company -> Marker]
    BY <2>1, <2>2, <2>3, <2>4 DEF RecoverOutboxDispatch, TypeOK, Time
  <2>6. ASSUME NEW w \in Company
        PROVE  /\ w \notin marked' => marker'[w] = NewMarker(Null)
               /\ marker'[w].token = NoToken <=> marker'[w].until = Null
    <3>1. CASE w \in P /\ w \in marked
      BY <2>1, <2>4, <3>1 DEF RecoverOutboxDispatch, IsPage, TypeOK
    <3>2. CASE w \in P /\ w \notin marked
      BY <2>1, <2>2, <2>3, <3>2 DEF RecoverOutboxDispatch, IsSummary, HasWork
    <3>3. CASE w \notin P
      BY <2>1, <2>3, <3>3 DEF RecoverOutboxDispatch, TypeOK, Time
    <3> QED BY <3>1, <3>2, <3>3
  <2>7. c \in Time
    BY OwnerAssumption DEF Time
  <2>8. recovery' \in [cursor : Time, next : Nat]
    BY <2>1, <2>7 DEF RecoverOutboxDispatch, TypeOK
  <2> QED BY <2>1, <2>5, <2>6, <2>8 DEF RecoverOutboxDispatch, TypeOK
<1>7. ASSUME NEW w \in Company, Suspend(w) \/ Reactivate(w) PROVE TypeOK'
  <2>0. suspensions' \in Nat
    BY <1>7 DEF Suspend, Reactivate, TypeOK
  <2>1. active' \in SUBSET Company
    <3>1. active' = active \ {w} \/ active' = active \cup {w}
      BY <1>7 DEF Suspend, Reactivate
    <3> QED BY <3>1 DEF TypeOK
  <2>2. UNCHANGED <<now, faults, job, marked, marker, recovery, pc, turn, held>>
    BY <1>7 DEF Suspend, Reactivate
  <2> QED BY <2>0, <2>1, <2>2 DEF TypeOK
<1>8. CASE Tick
  BY <1>8 DEF Tick, TypeOK
<1>9. CASE UNCHANGED vars
  BY <1>9 DEF vars, TypeOK
<1> QED BY <1>1, <1>2, <1>3, <1>4, <1>5, <1>6, <1>7, <1>8, <1>9 DEF Next

\* Every reachable state is type correct: a marker has a lease exactly while it
\* has a claim token, whoever claims, settles, releases, crashes or recovers.
THEOREM TypeCorrect == Spec => []TypeOK
  BY TypeInit, TypeNext, PTL DEF Spec

-----------------------------------------------------------------------------
(***************************************************************************)
(* No lost wakeup.  The strengthening is about a turn that has read the    *)
(* generation and still holds its claim: the generation only grows, and    *)
(* while it is the one that was read, what was measured is a bound for     *)
(* every row that is active now.                                           *)
(***************************************************************************)
MeasureInv ==
    \A d \in Dispatcher :
        LET w == turn[d].company
        IN  pc[d] \in {"measure", "settle"} /\ HoldsToken(d) =>
              /\ turn[d].generation <= marker[w].generation
              /\ pc[d] = "settle" /\ turn[d].generation = marker[w].generation =>
                   \A j \in Job : Owner[j] = w /\ Active(j) =>
                       turn[d].due # Null /\ turn[d].due <= job[j].next

MarkedIsDue ==
    \A j \in Job :
        LET m == marker[Owner[j]]
        IN  Active(j) /\ Owner[j] \in marked =>
              m.due # Null /\ m.due <= Greatest(job[j].next, now) + ReleaseDelay

WakeupInv == MarkedIsDue /\ MeasureInv

LEMMA WakeupInit == Init => WakeupInv
  BY DEF Init, WakeupInv, MarkedIsDue, MeasureInv, Active

\* A write to a row of w: the marker is due now and counts the write, so the
\* other rows and every turn in progress are covered.
LEMMA WriteKeepsWakeup ==
    ASSUME TypeOK, WakeupInv, NEW w \in Company, WriteMarks(w), now' = now,
           \A j \in Job : Owner[j] # w => job'[j] = job[j],
           TypeOK',
           \A d \in Dispatcher : pc'[d] \in {"measure", "settle"} =>
               pc'[d] = pc[d] /\ turn'[d] = turn[d]
    PROVE  WakeupInv'
<1> USE DelayAssumption, OwnerAssumption
<1>1. /\ marker'[w].due # Null /\ marker'[w].due <= now
      /\ marker'[w].token = marker[w].token
      /\ marker'[w].generation = marker[w].generation + 1
  BY MarkedType DEF WriteMarks, TypeOK
<1>2. \A x \in Company : x # w => marker'[x] = marker[x] /\ (x \in marked' <=> x \in marked)
  BY DEF WriteMarks, TypeOK
<1>3. MarkedIsDue'
  <2> SUFFICES ASSUME NEW j \in Job, Active(j)', Owner[j] \in marked'
               PROVE  /\ marker'[Owner[j]].due # Null
                      /\ marker'[Owner[j]].due <= Greatest(job'[j].next, now) + ReleaseDelay
    BY DEF MarkedIsDue
  <2>0. Owner[j] \in Company /\ job'[j].next \in Nat /\ now \in Nat
    BY DEF TypeOK
  <2>1. CASE Owner[j] = w
    BY <1>1, <2>0, <2>1 DEF Greatest, TypeOK, Marker, Time
  <2>2. CASE Owner[j] # w
    BY <1>2, <2>0, <2>2 DEF WakeupInv, MarkedIsDue, Active
  <2> QED BY <2>1, <2>2
<1>4. MeasureInv'
  <2> SUFFICES ASSUME NEW d \in Dispatcher, pc'[d] \in {"measure", "settle"}, HoldsToken(d)'
               PROVE  LET x == turn'[d].company
                      IN  /\ turn'[d].generation <= marker'[x].generation
                          /\ pc'[d] = "settle" /\ turn'[d].generation = marker'[x].generation =>
                               \A j \in Job : Owner[j] = x /\ Active(j)' =>
                                   turn'[d].due # Null /\ turn'[d].due <= job'[j].next
    BY DEF MeasureInv
  <2>0. /\ pc'[d] = pc[d] /\ turn'[d] = turn[d] /\ turn[d].company \in Company
        /\ turn[d].generation \in Nat /\ marker[turn[d].company].generation \in Nat
    BY DEF TypeOK, Turn, Marker
  <2>1. CASE turn[d].company = w
    BY <1>1, <2>0, <2>1 DEF WakeupInv, MeasureInv, HoldsToken
  <2>2. CASE turn[d].company # w
    BY <1>2, <2>0, <2>2 DEF WakeupInv, MeasureInv, HoldsToken, Active
  <2> QED BY <2>1, <2>2
<1> QED BY <1>3, <1>4 DEF WakeupInv

LEMMA WakeupNext == TypeOK /\ TypeOK' /\ WakeupInv /\ [Next]_vars => WakeupInv'
<1> SUFFICES ASSUME TypeOK, TypeOK', WakeupInv, [Next]_vars PROVE WakeupInv'
  OBVIOUS
<1> USE DelayAssumption, OwnerAssumption DEF clockVars, turnVars, markerVars
<1>1. ASSUME NEW j \in Job, EnqueueJob(j) PROVE WakeupInv'
  <2>1. \A i \in Job : Owner[i] # Owner[j] => job'[i] = job[i]
    BY <1>1 DEF EnqueueJob, TypeOK
  <2> QED BY <1>1, <2>1, WriteKeepsWakeup DEF EnqueueJob
<1>2. ASSUME NEW d \in Dispatcher, NEW w \in Company, ClaimReadyWorkspace(d, w)
      PROVE  WakeupInv'
  <2>1. \A x \in Company : /\ marker'[x].due = marker[x].due
                           /\ marker'[x].generation = marker[x].generation
    BY <1>2 DEF ClaimReadyWorkspace, TypeOK, Marker
  <2>2. MarkedIsDue'
    BY <1>2, <2>1 DEF ClaimReadyWorkspace, WakeupInv, MarkedIsDue, Active
  <2>3. \A e \in Dispatcher : pc'[e] \in {"measure", "settle"} =>
          /\ e # d /\ pc'[e] = pc[e] /\ turn'[e] = turn[e] /\ turn[e].company \in Company
    BY <1>2 DEF ClaimReadyWorkspace, TypeOK
  <2>4. \A e \in Dispatcher : pc'[e] \in {"measure", "settle"} /\ HoldsToken(e)' => HoldsToken(e)
    BY <1>2, <2>3 DEF ClaimReadyWorkspace, HoldsToken, TypeOK, Marker
  <2>5. MeasureInv'
    BY <1>2, <2>1, <2>3, <2>4 DEF ClaimReadyWorkspace, WakeupInv, MeasureInv, Active
  <2> QED BY <2>2, <2>5 DEF WakeupInv
<1>3. ASSUME NEW d \in Dispatcher, Work(d) PROVE WakeupInv'
  <2>1. ASSUME NEW S \in SUBSET Job, ClaimRows(d, S) PROVE WakeupInv'
    <3>1. \A i \in Job : Owner[i] # turn[d].company => job'[i] = job[i]
      BY <2>1 DEF ClaimRows, DueJobs
    <3>2. turn[d].company \in Company
      BY <2>1 DEF ClaimRows, TypeOK
    <3>3. \A e \in Dispatcher : pc'[e] \in {"measure", "settle"} =>
            pc'[e] = pc[e] /\ turn'[e] = turn[e]
      BY <2>1 DEF ClaimRows, TypeOK
    <3> QED BY <2>1, <3>1, <3>2, <3>3, WriteKeepsWakeup DEF ClaimRows
  <2>2. ASSUME NEW j \in Job, RowFinal(d, j) \/ RowRetried(d, j) PROVE WakeupInv'
    <3>1. \A i \in Job : Owner[i] # Owner[j] => job'[i] = job[i]
      BY <2>2 DEF RowFinal, RowRetried, TypeOK
    <3> QED BY <2>2, <3>1, WriteKeepsWakeup DEF RowFinal, RowRetried
  <2>3. CASE NothingDue(d) \/ RowsDone(d)
    BY <2>3 DEF NothingDue, RowsDone, WakeupInv, MarkedIsDue, MeasureInv, HoldsToken,
                Active, TypeOK
  <2>4. ASSUME NEW j \in Job, RowLeftLeased(d, j) PROVE WakeupInv'
    BY <2>4 DEF RowLeftLeased, WakeupInv, MarkedIsDue, MeasureInv, HoldsToken, Active
  <2>5. CASE ReadGeneration(d)
    <3>1. MarkedIsDue'
      BY <2>5 DEF ReadGeneration, WakeupInv, MarkedIsDue, Active
    <3>2. \A e \in Dispatcher : e # d => pc'[e] = pc[e] /\ turn'[e] = turn[e]
      BY <2>5 DEF ReadGeneration, EndTurn, TypeOK
    <3>3. \/ pc'[d] = "idle"
          \/ /\ pc'[d] = "measure" /\ turn'[d].company = turn[d].company
             /\ turn'[d].generation = marker[turn[d].company].generation
      BY <2>5 DEF ReadGeneration, EndTurn, TypeOK, Turn
    <3>4. marker[turn[d].company].generation \in Nat
      BY <2>5 DEF ReadGeneration, TypeOK, Marker
    <3>5. MeasureInv'
      BY <2>5, <3>2, <3>3, <3>4 DEF ReadGeneration, WakeupInv, MeasureInv, HoldsToken, Active
    <3> QED BY <3>1, <3>5 DEF WakeupInv
  <2>6. ASSUME NEW due, MeasureWork(d, due) PROVE WakeupInv'
    <3>1. MarkedIsDue'
      BY <2>6 DEF MeasureWork, WakeupInv, MarkedIsDue, Active
    <3>2. \A e \in Dispatcher : e # d => pc'[e] = pc[e] /\ turn'[e] = turn[e]
      BY <2>6 DEF MeasureWork, TypeOK
    <3>3. /\ turn'[d].company = turn[d].company /\ turn'[d].generation = turn[d].generation
          /\ turn'[d].due = due
      BY <2>6 DEF MeasureWork, TypeOK, Turn
    <3>4. \A j \in Job : Owner[j] = turn[d].company /\ Active(j) =>
            due # Null /\ due <= job[j].next
      BY <2>6 DEF MeasureWork, IsSummary, HasWork, Null, TypeOK
    <3>5. MeasureInv'
      BY <2>6, <3>2, <3>3, <3>4 DEF MeasureWork, WakeupInv, MeasureInv, HoldsToken, Active
    <3> QED BY <3>1, <3>5 DEF WakeupInv
  <2>7. CASE SettleWorkspaceDispatch(d)
    <3> DEFINE w == turn[d].company
    <3>0. w \in Company
      BY <2>7 DEF SettleWorkspaceDispatch, TypeOK
    <3>1. \A e \in Dispatcher : e # d => pc'[e] = pc[e] /\ turn'[e] = turn[e]
      BY <2>7 DEF SettleWorkspaceDispatch, EndTurn, TypeOK
    <3>2. pc'[d] = "idle"
      BY <2>7 DEF SettleWorkspaceDispatch, EndTurn, TypeOK
    <3>3. CASE ~HoldsToken(d)
      BY <2>7, <3>1, <3>2, <3>3 DEF SettleWorkspaceDispatch, WakeupInv, MarkedIsDue,
                                    MeasureInv, HoldsToken, Active
    <3>4. CASE HoldsToken(d)
      <4>1. /\ marker'[w].due = SettledDue(marker[w], turn[d])
            /\ marker'[w].token = NoToken
            /\ \A x \in Company : x # w => marker'[x] = marker[x]
        BY <2>7, <3>0, <3>4 DEF SettleWorkspaceDispatch, Unclaimed, TypeOK
      <4>2. ASSUME NEW j \in Job, Active(j), Owner[j] = w
            PROVE  /\ marker'[w].due # Null
                   /\ marker'[w].due <= Greatest(job[j].next, now) + ReleaseDelay
        <5>1. job[j].next \in Nat /\ now \in Nat /\ turn[d].due \in Time
          BY DEF TypeOK, Turn
        <5>2. CASE marker[w].generation # turn[d].generation
          BY <4>1, <5>1, <5>2 DEF SettledDue, Greatest, Null
        <5>3. CASE marker[w].generation = turn[d].generation
          <6>1. turn[d].due # Null /\ turn[d].due <= job[j].next
            BY <2>7, <3>4, <4>2, <5>3 DEF WakeupInv, MeasureInv, SettleWorkspaceDispatch
          <6> QED BY <4>1, <5>1, <5>3, <6>1 DEF SettledDue, Greatest, Null, Time
        <5> QED BY <5>2, <5>3
      <4>3. MarkedIsDue'
        BY <2>7, <4>1, <4>2 DEF SettleWorkspaceDispatch, WakeupInv, MarkedIsDue, Active
      <4>4. \A e \in Dispatcher : pc'[e] \in {"measure", "settle"} /\ HoldsToken(e)' =>
              e # d /\ turn[e].company # w /\ turn[e].company \in Company
        BY <3>1, <3>2, <4>1, TokenAssumption DEF HoldsToken, TypeOK
      <4>5. MeasureInv'
        BY <2>7, <3>1, <4>1, <4>4
           DEF SettleWorkspaceDispatch, WakeupInv, MeasureInv, HoldsToken, Active
      <4> QED BY <4>3, <4>5 DEF WakeupInv
    <3> QED BY <3>3, <3>4
  <2> QED BY <1>3, <2>1, <2>2, <2>3, <2>4, <2>5, <2>6, <2>7 DEF Work
<1>4. ASSUME NEW d \in Dispatcher, ReleaseWorkspaceDispatch(d) PROVE WakeupInv'
  <2> DEFINE w == turn[d].company
  <2>0. w \in Company
    BY <1>4 DEF ReleaseWorkspaceDispatch, TypeOK
  <2>1. /\ pc'[d] = "idle"
        /\ \A e \in Dispatcher : e # d => pc'[e] = pc[e] /\ turn'[e] = turn[e]
    BY <1>4 DEF ReleaseWorkspaceDispatch, EndTurn, TypeOK
  <2>2. CASE ~HoldsToken(d)
    BY <1>4, <2>1, <2>2 DEF ReleaseWorkspaceDispatch, WakeupInv, MarkedIsDue,
                            MeasureInv, HoldsToken, Active
  <2>3. CASE HoldsToken(d)
    <3>1. /\ marker'[w].due = now + ReleaseDelay /\ marker'[w].token = NoToken
          /\ \A x \in Company : x # w => marker'[x] = marker[x]
      BY <1>4, <2>0, <2>3 DEF ReleaseWorkspaceDispatch, Unclaimed, TypeOK
    <3>2. \A j \in Job : /\ now + ReleaseDelay # Null
                         /\ now + ReleaseDelay <= Greatest(job[j].next, now) + ReleaseDelay
      BY DEF Greatest, TypeOK, Null
    <3>3. MarkedIsDue'
      BY <1>4, <3>1, <3>2 DEF ReleaseWorkspaceDispatch, WakeupInv, MarkedIsDue, Active
    <3>4. \A e \in Dispatcher : pc'[e] \in {"measure", "settle"} /\ HoldsToken(e)' =>
            e # d /\ turn[e].company # w /\ turn[e].company \in Company
      BY <2>1, <3>1, TokenAssumption DEF HoldsToken, TypeOK
    <3>5. MeasureInv'
      BY <1>4, <2>1, <3>1, <3>4
         DEF ReleaseWorkspaceDispatch, WakeupInv, MeasureInv, HoldsToken, Active
    <3> QED BY <3>3, <3>5 DEF WakeupInv
  <2> QED BY <2>2, <2>3
<1>5. ASSUME NEW d \in Dispatcher, Crash(d) PROVE WakeupInv'
  <2>1. /\ pc'[d] = "idle"
        /\ \A e \in Dispatcher : e # d => pc'[e] = pc[e] /\ turn'[e] = turn[e]
    BY <1>5 DEF Crash, EndTurn, TypeOK
  <2> QED BY <1>5, <2>1 DEF Crash, WakeupInv, MarkedIsDue, MeasureInv, HoldsToken, Active
<1>6. CASE Recover
  <2>0. PICK P \in SUBSET Company :
          \E c \in P \cup {Null} : \E summary \in [P -> {job[j].next : j \in Job} \cup {Null}] :
            RecoverOutboxDispatch(P, summary, c)
    BY <1>6 DEF Recover
  <2>1. PICK c \in P \cup {Null}, summary \in [P -> {job[j].next : j \in Job} \cup {Null}] :
          RecoverOutboxDispatch(P, summary, c)
    BY <2>0
  <2>2. UNCHANGED <<now, job, pc, turn>>
    BY <2>1 DEF RecoverOutboxDispatch
  <2>3. ASSUME NEW j \in Job, Active(j), Owner[j] \in P
        PROVE  /\ summary[Owner[j]] # Null /\ summary[Owner[j]] <= job[j].next
               /\ summary[Owner[j]] \in Nat
    <3>1. IsSummary(Owner[j], summary[Owner[j]])
      BY <2>1, <2>3 DEF RecoverOutboxDispatch
    <3>2. /\ summary[Owner[j]] <= job[j].next
          /\ \E i \in Job : job[i].next = summary[Owner[j]]
      BY <2>3, <3>1 DEF IsSummary, HasWork
    <3>3. \A i \in Job : job[i].next \in Nat
      BY DEF TypeOK
    <3> QED BY <3>2, <3>3 DEF Null
  <2>4. MarkedIsDue'
    <3> SUFFICES ASSUME NEW j \in Job, Active(j), Owner[j] \in marked'
                 PROVE  /\ marker'[Owner[j]].due # Null
                        /\ marker'[Owner[j]].due <= Greatest(job[j].next, now) + ReleaseDelay
      BY <2>2 DEF MarkedIsDue, Active
    <3>0. job[j].next \in Nat /\ now \in Nat /\ Owner[j] \in Company
      BY DEF TypeOK
    <3>1. CASE Owner[j] \in P /\ Owner[j] \in marked
      <4>1. marker'[Owner[j]].due = Least(marker[Owner[j]].due, summary[Owner[j]])
        BY <2>1, <2>3, <3>0, <3>1 DEF RecoverOutboxDispatch, Recovered
      <4>2. marker[Owner[j]].due \in Time
        BY <3>0 DEF TypeOK, Marker
      <4> QED BY <2>3, <3>0, <3>1, <4>1, <4>2 DEF Least, Greatest, Time
    <3>2. CASE Owner[j] \in P /\ Owner[j] \notin marked
      <4>1. marker'[Owner[j]].due = summary[Owner[j]]
        BY <2>1, <3>0, <3>2 DEF RecoverOutboxDispatch, NewMarker
      <4> QED BY <2>3, <3>0, <3>2, <4>1 DEF Greatest
    <3>3. CASE Owner[j] \notin P
      <4>1. Owner[j] \in marked /\ marker'[Owner[j]] = marker[Owner[j]]
        BY <2>1, <3>0, <3>3 DEF RecoverOutboxDispatch
      <4> QED BY <4>1 DEF WakeupInv, MarkedIsDue
    <3> QED BY <3>1, <3>2, <3>3
  <2>5. MeasureInv'
    <3> SUFFICES ASSUME NEW d \in Dispatcher, pc[d] \in {"measure", "settle"}, HoldsToken(d)'
                 PROVE  LET w == turn[d].company
                        IN  /\ turn[d].generation <= marker'[w].generation
                            /\ pc[d] = "settle" /\ turn[d].generation = marker'[w].generation =>
                                 \A j \in Job : Owner[j] = w /\ Active(j) =>
                                     turn[d].due # Null /\ turn[d].due <= job[j].next
      BY <2>2 DEF MeasureInv, Active
    <3> DEFINE w == turn[d].company
    <3>0. w \in Company /\ turn[d].generation \in Nat /\ marker[w].generation \in Nat
      BY DEF TypeOK, Turn, Marker
    <3>1. \/ marker'[w] = marker[w]
          \/ marker'[w].token = marker[w].token /\ marker'[w].generation = marker[w].generation + 1
          \/ marker'[w].token = NoToken
      BY <2>1, <3>0 DEF RecoverOutboxDispatch, Recovered, NewMarker
    <3>2. marker'[w].token = d
      BY <2>2 DEF HoldsToken
    <3> QED BY <2>2, <3>0, <3>1, <3>2, TokenAssumption DEF WakeupInv, MeasureInv, HoldsToken
  <2> QED BY <2>4, <2>5 DEF WakeupInv
<1>7. ASSUME NEW w \in Company, Suspend(w) \/ Reactivate(w) PROVE WakeupInv'
  BY <1>7 DEF Suspend, Reactivate, WakeupInv, MarkedIsDue, MeasureInv, HoldsToken, Active
<1>8. CASE Tick
  <2>1. UNCHANGED <<job, marked, marker, pc, turn>> /\ now' = now + 1
    BY <1>8 DEF Tick
  <2>2. \A j \in Job : Greatest(job[j].next, now) <= Greatest(job[j].next, now')
    BY <2>1 DEF Greatest, TypeOK
  <2>3. \A w \in Company : marker[w].due \in Time
    BY DEF TypeOK, Marker
  <2>4. \A j \in Job : Greatest(job[j].next, now) \in Nat /\ Greatest(job[j].next, now') \in Nat
    BY <2>1 DEF Greatest, TypeOK
  <2>5. MarkedIsDue'
    <3> SUFFICES ASSUME NEW j \in Job, Active(j), Owner[j] \in marked
                 PROVE  /\ marker[Owner[j]].due # Null
                        /\ marker[Owner[j]].due <= Greatest(job[j].next, now') + ReleaseDelay
      BY <2>1 DEF MarkedIsDue, Active
    <3>1. /\ marker[Owner[j]].due # Null
          /\ marker[Owner[j]].due <= Greatest(job[j].next, now) + ReleaseDelay
      BY DEF WakeupInv, MarkedIsDue
    <3>2. marker[Owner[j]].due \in Nat
      BY <2>3, <3>1 DEF Time
    <3> QED BY <2>2, <2>4, <3>1, <3>2
  <2>6. MeasureInv'
    BY <2>1 DEF WakeupInv, MeasureInv, HoldsToken, Active
  <2> QED BY <2>5, <2>6 DEF WakeupInv
<1>9. CASE UNCHANGED vars
  BY <1>9 DEF vars, WakeupInv, MarkedIsDue, MeasureInv, HoldsToken, Active
<1> QED BY <1>1, <1>2, <1>3, <1>4, <1>5, <1>6, <1>7, <1>8, <1>9 DEF Next

\* Marks are only taken from suspended workspaces.
MarkedInv ==
    suspensions = 0 =>
        /\ active = Company
        /\ \A j \in Job : Active(j) => Owner[j] \in marked

LEMMA MarkedInit == Init => MarkedInv
  BY DEF Init, MarkedInv, Active

LEMMA MarkedNext == TypeOK /\ MarkedInv /\ [Next]_vars => MarkedInv'
<1> SUFFICES ASSUME TypeOK, MarkedInv, [Next]_vars PROVE MarkedInv'
  OBVIOUS
<1> USE OwnerAssumption DEF clockVars, turnVars, markerVars, MarkedInv
\* A write marks the workspace of every row it makes active.
<1>1. ASSUME NEW w \in Company, WriteMarks(w), UNCHANGED <<suspensions, active>>,
             \A j \in Job : Active(j)' => Active(j) \/ Owner[j] = w
      PROVE  MarkedInv'
  BY <1>1 DEF WriteMarks
<1>2. ASSUME NEW j \in Job, EnqueueJob(j) PROVE MarkedInv'
  <2>1. \A i \in Job : Active(i)' => Active(i) \/ Owner[i] = Owner[j]
    BY <1>2 DEF EnqueueJob, Active, TypeOK
  <2> QED BY <1>1, <1>2, <2>1 DEF EnqueueJob
<1>3. ASSUME NEW d \in Dispatcher, Work(d) PROVE MarkedInv'
  <2>1. ASSUME NEW S \in SUBSET Job, ClaimRows(d, S) PROVE MarkedInv'
    <3>1. turn[d].company \in Company
      BY <2>1 DEF ClaimRows, TypeOK
    <3>2. \A i \in Job : Active(i)' => Active(i)
      BY <2>1 DEF ClaimRows, DueJobs, Active
    <3> QED BY <1>1, <2>1, <3>1, <3>2 DEF ClaimRows
  <2>2. ASSUME NEW j \in Job, RowFinal(d, j) \/ RowRetried(d, j) PROVE MarkedInv'
    <3>1. \A i \in Job : Active(i)' => Active(i) \/ Owner[i] = Owner[j]
      BY <2>2 DEF RowFinal, RowRetried, Active, TypeOK
    <3> QED BY <1>1, <2>2, <3>1 DEF RowFinal, RowRetried
  <2>3. CASE UNCHANGED <<suspensions, active, job, marked>>
    BY <2>3 DEF Active
  <2> QED BY <1>3, <2>1, <2>2, <2>3
             DEF Work, NothingDue, RowsDone, RowLeftLeased, ReadGeneration, MeasureWork,
                 SettleWorkspaceDispatch
<1>4. CASE Recover
  <2>1. /\ UNCHANGED <<suspensions, active, job>> /\ marked \cap active \subseteq marked'
    BY <1>4 DEF Recover, RecoverOutboxDispatch
  <2> QED BY <2>1 DEF Active
<1>5. ASSUME NEW w \in Company, Suspend(w) PROVE suspensions' # 0
  BY <1>5 DEF Suspend, TypeOK
<1>6. ASSUME NEW w \in Company, Reactivate(w) PROVE suspensions' # 0
  BY <1>6 DEF Reactivate
<1>7. CASE UNCHANGED <<suspensions, active, job, marked>>
  BY <1>7 DEF Active
<1> QED BY <1>2, <1>3, <1>4, <1>5, <1>6, <1>7
           DEF Next, ClaimReadyWorkspace, ReleaseWorkspaceDispatch, Crash, Tick, vars

\* A workspace with active rows is marked and due, no later than its first row
\* give or take a release (mark_outbox_dispatch_ready and the generation check
\* of settleWorkspaceDispatch); a mark is lost to a suspension only.
THEOREM WakeupsAreNeverLost == Spec => []NoLostWakeup
<1>1. WakeupInv /\ MarkedInv => NoLostWakeup
  BY DEF WakeupInv, MarkedIsDue, MarkedInv, NoLostWakeup
<1> QED BY <1>1, TypeCorrect, WakeupInit, WakeupNext, MarkedInit, MarkedNext, PTL DEF Spec

-----------------------------------------------------------------------------
(***************************************************************************)
(* Claims of workspaces.                                                   *)
(***************************************************************************)
LEMMA EndedByOwner ==
    ASSUME TypeOK, [Next]_vars, NEW w \in Company, NEW d \in Dispatcher,
           marker[w].token = d, marker[w].until > now,
           w \in marked', marker'[w].token # d
    PROVE  pc[d] # "idle" /\ pc'[d] = "idle" /\ turn[d].company = w
<1> USE OwnerAssumption DEF markerVars
<1>0. w \in marked /\ marker[w] \in Marker /\ now \in Nat /\ marker[w].until \in Time
  BY TokenAssumption DEF TypeOK, NewMarker, Marker
<1>1. ASSUME NEW x \in Company, WriteMarks(x) PROVE FALSE
  BY <1>1, MarkedType DEF WriteMarks, TypeOK
<1>2. ASSUME NEW e \in Dispatcher, NEW x \in Company, ClaimReadyWorkspace(e, x) PROVE FALSE
  <2>1. x # w
    BY <1>0, <1>2 DEF ClaimReadyWorkspace, Claimable, Time, Null
  <2> QED BY <1>2, <2>1 DEF ClaimReadyWorkspace, TypeOK
<1>3. ASSUME NEW e \in Dispatcher, pc[e] # "idle", EndTurn(e), NEW due,
             marker' = IF HoldsToken(e)
                         THEN [marker EXCEPT ![turn[e].company] = Unclaimed(@, due)]
                         ELSE marker
      PROVE  pc[d] # "idle" /\ pc'[d] = "idle" /\ turn[d].company = w
  <2>1. HoldsToken(e) /\ turn[e].company = w
    BY <1>3 DEF TypeOK
  <2>2. e = d
    BY <2>1 DEF HoldsToken
  <2> QED BY <1>3, <2>1, <2>2 DEF EndTurn, TypeOK
<1>4. CASE Recover
  <2>0. PICK P \in SUBSET Company :
          \E c \in P \cup {Null} : \E summary \in [P -> {job[j].next : j \in Job} \cup {Null}] :
            RecoverOutboxDispatch(P, summary, c)
    BY <1>4 DEF Recover
  <2>1. PICK c \in P \cup {Null}, summary \in [P -> {job[j].next : j \in Job} \cup {Null}] :
          RecoverOutboxDispatch(P, summary, c)
    BY <2>0
  <2>2. CASE w \in P
    BY <1>0, <2>1, <2>2 DEF RecoverOutboxDispatch, Recovered
  <2>3. CASE w \notin P
    BY <2>1, <2>3 DEF RecoverOutboxDispatch
  <2> QED BY <2>2, <2>3
<1>5. ASSUME NEW e \in Dispatcher, Work(e)
      PROVE  pc[d] # "idle" /\ pc'[d] = "idle" /\ turn[d].company = w
  <2>1. ASSUME NEW S \in SUBSET Job, ClaimRows(e, S) PROVE FALSE
    BY <1>1, <2>1 DEF ClaimRows, TypeOK
  <2>2. ASSUME NEW j \in Job, RowFinal(e, j) \/ RowRetried(e, j) PROVE FALSE
    BY <1>1, <2>2 DEF RowFinal, RowRetried
  <2>3. CASE SettleWorkspaceDispatch(e)
    <3>1. PICK due : due = SettledDue(marker[turn[e].company], turn[e])
      OBVIOUS
    <3>2. /\ pc[e] # "idle" /\ EndTurn(e)
          /\ marker' = IF HoldsToken(e)
                         THEN [marker EXCEPT ![turn[e].company] = Unclaimed(@, due)]
                         ELSE marker
      BY <2>3, <3>1 DEF SettleWorkspaceDispatch
    <3> QED BY <1>3, <3>2
  <2>4. marker' # marker
    OBVIOUS
  <2> QED BY <1>5, <2>1, <2>2, <2>3, <2>4
             DEF Work, NothingDue, RowsDone, RowLeftLeased, ReadGeneration, MeasureWork
<1>6. ASSUME NEW e \in Dispatcher, ReleaseWorkspaceDispatch(e)
      PROVE  pc[d] # "idle" /\ pc'[d] = "idle" /\ turn[d].company = w
  BY <1>3, <1>6 DEF ReleaseWorkspaceDispatch
<1>7. marker' # marker
  OBVIOUS
<1>8. ASSUME NEW j \in Job, EnqueueJob(j) PROVE FALSE
  BY <1>1, <1>8 DEF EnqueueJob
<1> QED BY <1>2, <1>4, <1>5, <1>6, <1>7, <1>8
           DEF Next, Crash, Suspend, Reactivate, Tick, vars

\* A live claim of a workspace is ended by the replica that holds it and by
\* nobody else: not by a replica it was taken over from, not by the recovery
\* scan (the claim_token of settle- and releaseWorkspaceDispatch).
THEOREM ClaimsAreEndedByOwner == Spec => ClaimsEndedByOwner
<1>1. TypeOK /\ [Next]_vars
        => [\A w \in Company : \A d \in Dispatcher :
              /\ marker[w].token = d /\ marker[w].until > now
              /\ w \in marked' /\ marker'[w].token # d
              => pc[d] # "idle" /\ pc'[d] = "idle" /\ turn[d].company = w]_vars
  BY EndedByOwner
<1> QED BY <1>1, TypeCorrect, PTL DEF Spec, ClaimsEndedByOwner
=============================================================================
