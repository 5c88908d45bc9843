--------------------------- MODULE NodeLeaseProofs ---------------------------
(***************************************************************************)
(* If the takeover margin exceeds the longest answer plus the longest      *)
(* fence, the lease protocol never lets two clients of one connection      *)
(* live, for any nodes, connections and durations.                         *)
(*                                                                         *)
(* The argument: a node that has authority, or still has something a spawn *)
(* or a child could come from, has a lease that is not yet expired for the *)
(* margin (LeaseInv), so nobody takes its rows (NotYetFailed); therefore   *)
(* a launch that is claimed, started or running is the one its row names   *)
(* (EntryInv), and the compare-and-swap of another node cannot succeed.    *)
(***************************************************************************)
EXTENDS NodeLease, TLAPS

MarginCovers == Margin > Reply + Fence

Busy(n) == \E c \in Connection : local[n][c].phase \in Hazard

LeaseInv(n) ==
    /\ lease[n] <= now + Lease
    /\ orch[n] \in Authority => now <= deadline[n] /\ deadline[n] <= lease[n] + Reply
    /\ orch[n] = "registering" => query[n].phase = "done"
    /\ orch[n] \in Authority \cup {"registering"} /\ query[n].phase = "done"
          => /\ query[n].at <= now /\ now <= query[n].at + Reply
             /\ query[n].at + Lease <= lease[n]
    /\ orch[n] \in Ending
          => deadline[n] <= now + Fence /\ deadline[n] <= lease[n] + Reply + Fence
    /\ orch[n] \in Ending /\ Busy(n) => now <= deadline[n]
    /\ orch[n] \in {"down", "registering"} => \A c \in Connection : local[n][c] = Absent

RowInv(c) ==
    /\ row[c].launch <= issued[c]
    /\ row[c].node = NoNode <=> row[c].launch = 0

EntryInv(n, c) ==
    /\ local[n][c].launch <= issued[c]
    /\ local[n][c].prev <= issued[c]
    /\ local[n][c].phase = "error" => local[n][c].launch # 0
    /\ local[n][c].phase \in {"claimed", "started"} => local[n][c].prev < local[n][c].launch
    /\ local[n][c].phase \in {"claimed", "started", "running"}
          => /\ local[n][c].launch # 0
             /\ row[c].node = n
             /\ row[c].launch = local[n][c].launch
    /\ local[n][c].phase = "claiming" /\ local[n][c].prev # 0
       /\ local[n][c].prev = row[c].launch => row[c].node = n
    /\ orch[n] = "up" /\ local[n][c].phase = "error"
       /\ local[n][c].launch = row[c].launch => row[c].node = n

LeaseIInv == TypeOK /\ \A n \in Node : LeaseInv(n)
IInv == LeaseIInv /\ (\A c \in Connection : RowInv(c))
                  /\ (\A n \in Node, c \in Connection : EntryInv(n, c))

-----------------------------------------------------------------------------
\* What the update operators build is an entry.
LEMMA EntryTypes ==
    /\ Absent \in Entries
    /\ \A l \in Nat : Failed(l) \in Entries /\ Entry("running", l) \in Entries
                      /\ Entry("error", l) \in Entries
    /\ \A l \in Nat, b \in BOOLEAN :
          [phase |-> "claiming", launch |-> 0, prev |-> l, retry |-> b] \in Entries
    /\ \A e \in Entries : [e EXCEPT !.phase = "started"] \in Entries
    /\ \A e \in Entries : e.launch \in Nat /\ e.prev \in Nat /\ e.retry \in BOOLEAN
  BY DEF Absent, Failed, Entry, Entries, Hazard, Spawning

\* Types hold initially ...
LEMMA TypeInit == ASSUME Init PROVE TypeOK
<1> USE DurationAssumption, NoNodeAssumption
<1>1. local \in [Node -> [Connection -> Entries]]
  BY EntryTypes DEF Init
<1>2. query \in [Node -> [phase : {"idle", "sent", "done", "refused"}, at : Nat]]
  BY DEF Init, Query
<1>3. row \in [Connection -> [node : Node \cup {NoNode}, launch : Nat]]
  BY DEF Init, NoRow
<1> QED BY <1>1, <1>2, <1>3 DEF Init, TypeOK, Authority, Ending

\* ... and every step keeps them.
LEMMA TypeStep == ASSUME TypeOK, [Next]_vars PROVE TypeOK'
<1> USE DurationAssumption, NoNodeAssumption
<1> USE DEF TypeOK, Query, NoRow, Authority, Ending, lvars, Put
<1>1. CASE UNCHANGED vars
  BY <1>1 DEF vars
<1>2. CASE Tick
  BY <1>2 DEF Tick
<1>3. ASSUME NEW n \in Node, NodeStep(n) PROVE TypeOK'
  <2>1. CASE RegisterNodeLease(n)
    BY <2>1 DEF RegisterNodeLease
  <2>2. CASE RecoverOrphanedWorkers(n)
    <3>1. local' \in [Node -> [Connection -> Entries]]
      BY <2>2, EntryTypes DEF RecoverOrphanedWorkers
    <3> QED BY <2>2, <3>1 DEF RecoverOrphanedWorkers
  <2>3. CASE SendRenewal(n)
    BY <2>3 DEF SendRenewal
  <2>4. CASE RenewNodeLease(n)
    <3> DEFINE Statement == [phase : {"idle", "sent", "done", "refused"}, at : Nat]
    <3>1. Query("done", now) \in Statement /\ Query("refused", 0) \in Statement
      OBVIOUS
    <3>2. query' \in [Node -> Statement]
      BY <2>4, <3>1 DEF RenewNodeLease
    <3>3. lease' \in [Node -> Nat]
      BY <2>4 DEF RenewNodeLease
    <3> QED BY <2>4, <3>2, <3>3 DEF RenewNodeLease
  <2>5. CASE RenewalAnswered(n)
    BY <2>5 DEF RenewalAnswered
  <2>6. CASE RenewalFailed(n)
    BY <2>6 DEF RenewalFailed
  <2>7. CASE SelfFence(n)
    BY <2>7 DEF SelfFence
  <2>8. CASE Shutdown(n)
    BY <2>8 DEF Shutdown
  <2>9. CASE ReleaseNodeLease(n)
    BY <2>9 DEF ReleaseNodeLease
  <2>10. CASE ProcessEnds(n)
    <3>1. local' \in [Node -> [Connection -> Entries]]
      BY <2>10, EntryTypes DEF ProcessEnds
    <3> QED BY <2>10, <3>1 DEF ProcessEnds
  <2> QED BY <1>3, <2>1, <2>2, <2>3, <2>4, <2>5, <2>6, <2>7, <2>8, <2>9, <2>10 DEF NodeStep
<1>4. ASSUME NEW n \in Node, NEW c \in Connection, WorkerStep(n, c) PROVE TypeOK'
  <2> local[n][c] \in Entries
    OBVIOUS
  <2>1. CASE TakeOverFailedNodeWorker(n, c)
    <3>1. local' \in [Node -> [Connection -> Entries]]
      BY <2>1, EntryTypes DEF TakeOverFailedNodeWorker
    <3> QED BY <2>1, <3>1 DEF TakeOverFailedNodeWorker
  <2>2. CASE TakeOverUnresolved(n, c)
    <3>1. local' \in [Node -> [Connection -> Entries]]
      BY <2>2, EntryTypes DEF TakeOverUnresolved
    <3>2. row' \in [Connection -> [node : Node \cup {NoNode}, launch : Nat]]
      BY <2>2 DEF TakeOverUnresolved
    <3> QED BY <2>2, <3>1, <3>2 DEF TakeOverUnresolved
  <2>3. CASE SpawnWorker(n, c)
    <3>1. local' \in [Node -> [Connection -> Entries]]
      BY <2>3, EntryTypes DEF SpawnWorker, SendClaim
    <3> QED BY <2>3, <3>1 DEF SpawnWorker, SendClaim
  <2>4. CASE ScheduleRestart(n, c)
    <3>1. local' \in [Node -> [Connection -> Entries]]
      BY <2>4, EntryTypes DEF ScheduleRestart, SendClaim
    <3> QED BY <2>4, <3>1 DEF ScheduleRestart, SendClaim
  <2>5. CASE ClaimWorkerLaunch(n, c)
    <3>1. CASE row[c] = NoRow \/ row[c].launch = local[n][c].prev
      <4> DEFINE e == [phase |-> "claimed", launch |-> issued[c] + 1,
                       prev |-> local[n][c].prev, retry |-> local[n][c].retry]
                 r == [node |-> n, launch |-> issued[c] + 1]
      <4>1. issued[c] + 1 \in Nat
        OBVIOUS
      <4>2. e \in Entries /\ r \in [node : Node \cup {NoNode}, launch : Nat]
        BY <4>1 DEF Entries, Hazard, Spawning
      <4>3. local' = [local EXCEPT ![n][c] = e] /\ row' = [row EXCEPT ![c] = r]
            /\ issued' = [issued EXCEPT ![c] = issued[c] + 1]
        BY <2>5, <3>1 DEF ClaimWorkerLaunch
      <4> HIDE DEF e, r
      <4>4. local' \in [Node -> [Connection -> Entries]]
        BY <4>2, <4>3
      <4> QED BY <2>5, <4>1, <4>2, <4>3, <4>4 DEF ClaimWorkerLaunch
    <3>2. CASE ~(row[c] = NoRow \/ row[c].launch = local[n][c].prev)
      <4>1. local' = [local EXCEPT ![n][c] = Absent] /\ UNCHANGED <<row, issued>>
        BY <2>5, <3>2 DEF ClaimWorkerLaunch
      <4> QED BY <2>5, <4>1, EntryTypes DEF ClaimWorkerLaunch
    <3> QED BY <3>1, <3>2
  <2>6. CASE ClaimFailed(n, c)
    <3>1. local' \in [Node -> [Connection -> Entries]]
      BY <2>6, EntryTypes DEF ClaimFailed
    <3> QED BY <2>6, <3>1 DEF ClaimFailed
  <2>7. CASE StartProcess(n, c)
    <3>1. local' \in [Node -> [Connection -> Entries]]
      BY <2>7, EntryTypes DEF StartProcess
    <3> QED BY <2>7, <3>1 DEF StartProcess
  <2>8. CASE ActivateWorkerLaunch(n, c)
    <3>1. local' \in [Node -> [Connection -> Entries]]
      BY <2>8, EntryTypes DEF ActivateWorkerLaunch
    <3> QED BY <2>8, <3>1 DEF ActivateWorkerLaunch
  <2>9. CASE LaunchFailed(n, c)
    <3>1. local' \in [Node -> [Connection -> Entries]]
      BY <2>9, EntryTypes DEF LaunchFailed
    <3> QED BY <2>9, <3>1 DEF LaunchFailed
  <2>10. CASE HandleWorkerFailure(n, c)
    <3>0. PICK e \in {Absent, Entry("error", local[n][c].launch)} :
            local' = [local EXCEPT ![n][c] = e]
      BY <2>10 DEF HandleWorkerFailure
    <3>1. local' \in [Node -> [Connection -> Entries]]
      BY <3>0, EntryTypes
    <3>2. row' = row \/ row' = [row EXCEPT ![c] = NoRow]
      BY <2>10 DEF HandleWorkerFailure
    <3>3. UNCHANGED <<now, lvars, issued>>
      BY <2>10 DEF HandleWorkerFailure
    <3>4. row' \in [Connection -> [node : Node \cup {NoNode}, launch : Nat]]
      BY <3>2
    <3> QED BY <3>1, <3>3, <3>4
  <2>11. CASE StopWorkerInternal(n, c)
    <3>1. local' \in [Node -> [Connection -> Entries]]
      BY <2>11, EntryTypes DEF StopWorkerInternal
    <3> QED BY <2>11, <3>1 DEF StopWorkerInternal
  <2> QED BY <1>4, <2>1, <2>2, <2>3, <2>4, <2>5, <2>6, <2>7, <2>8, <2>9, <2>10, <2>11 DEF WorkerStep
<1> QED BY <1>1, <1>2, <1>3, <1>4 DEF Next

\* The type invariant holds in every reachable state.
THEOREM TypeCorrect == Spec => []TypeOK
<1>1. TypeOK /\ [Next]_vars => TypeOK'
  BY TypeStep
<1> QED BY <1>1, TypeInit, PTL DEF Spec

-----------------------------------------------------------------------------
\* A step that touches nothing of a node keeps the node's lease invariant.
LEMMA LeaseFrame ==
    ASSUME NEW q \in Node, LeaseInv(q), now' = now, lease'[q] = lease[q],
           orch'[q] = orch[q], deadline'[q] = deadline[q], query'[q] = query[q],
           local'[q] = local[q]
    PROVE  LeaseInv(q)'
  BY DEF LeaseInv, Busy

\* So does a step of one entry that brings no new hazard to an ending node.
LEMMA LeaseWorker ==
    ASSUME TypeOK, TypeOK', NEW n \in Node, NEW c \in Connection, LeaseInv(n), now' = now,
           UNCHANGED lvars, orch[n] \notin {"down", "registering"},
           orch[n] \in Ending /\ local'[n][c].phase \in Hazard => local[n][c].phase \in Hazard,
           \A d \in Connection \ {c} : local'[n][d] = local[n][d]
    PROVE  LeaseInv(n)'
<1>1. orch[n] \in Ending /\ Busy(n)' => Busy(n)
  BY DEF Busy, TypeOK
<1> QED BY <1>1 DEF LeaseInv, lvars

\* A node that loses its authority has Fence from now to end its children.
LEMMA LeaseFence ==
    ASSUME TypeOK, TypeOK', NEW n \in Node, LeaseInv(n), now' = now, orch[n] \in Authority,
           lease'[n] = lease[n], orch'[n] = "fencing", deadline'[n] = now + Fence
    PROVE  LeaseInv(n)'
  BY DurationAssumption DEF LeaseInv, TypeOK, Authority, Ending

\* What the action of one node or entry leaves alone.
LEMMA Frames ==
    ASSUME TypeOK, NEW n \in Node,
           NodeStep(n) \/ \E c \in Connection : WorkerStep(n, c)
    PROVE  /\ now' = now
           /\ \A q \in Node \ {n} :
                 /\ lease'[q] = lease[q] /\ orch'[q] = orch[q]
                 /\ deadline'[q] = deadline[q] /\ query'[q] = query[q]
                 /\ local'[q] = local[q]
<1> DEFINE Untouched == /\ now' = now
                        /\ \A q \in Node \ {n} :
                              /\ lease'[q] = lease[q] /\ orch'[q] = orch[q]
                              /\ deadline'[q] = deadline[q] /\ query'[q] = query[q]
                              /\ local'[q] = local[q]
<1> SUFFICES Untouched
  OBVIOUS
<1> USE DEF TypeOK, lvars, Put
<1>1. ASSUME NodeStep(n) PROVE Untouched
  <2>1. CASE RegisterNodeLease(n)
    BY <2>1 DEF RegisterNodeLease
  <2>2. CASE RecoverOrphanedWorkers(n)
    BY <2>2 DEF RecoverOrphanedWorkers
  <2>3. CASE SendRenewal(n)
    BY <2>3 DEF SendRenewal
  <2>4. CASE RenewNodeLease(n)
    BY <2>4 DEF RenewNodeLease
  <2>5. CASE RenewalAnswered(n)
    BY <2>5 DEF RenewalAnswered
  <2>6. CASE RenewalFailed(n)
    BY <2>6 DEF RenewalFailed
  <2>7. CASE SelfFence(n)
    BY <2>7 DEF SelfFence
  <2>8. CASE Shutdown(n)
    BY <2>8 DEF Shutdown
  <2>9. CASE ReleaseNodeLease(n)
    BY <2>9 DEF ReleaseNodeLease
  <2>10. CASE ProcessEnds(n)
    BY <2>10 DEF ProcessEnds
  <2> QED BY <1>1, <2>1, <2>2, <2>3, <2>4, <2>5, <2>6, <2>7, <2>8, <2>9, <2>10 DEF NodeStep
<1>2. ASSUME NEW c \in Connection, WorkerStep(n, c) PROVE Untouched
  <2>1. CASE TakeOverFailedNodeWorker(n, c)
    BY <2>1 DEF TakeOverFailedNodeWorker
  <2>2. CASE TakeOverUnresolved(n, c)
    BY <2>2 DEF TakeOverUnresolved
  <2>3. CASE SpawnWorker(n, c)
    BY <2>3 DEF SpawnWorker, SendClaim
  <2>4. CASE ScheduleRestart(n, c)
    BY <2>4 DEF ScheduleRestart, SendClaim
  <2>5. CASE ClaimWorkerLaunch(n, c)
    BY <2>5 DEF ClaimWorkerLaunch
  <2>6. CASE ClaimFailed(n, c)
    BY <2>6 DEF ClaimFailed
  <2>7. CASE StartProcess(n, c)
    BY <2>7 DEF StartProcess
  <2>8. CASE ActivateWorkerLaunch(n, c)
    BY <2>8 DEF ActivateWorkerLaunch
  <2>9. CASE LaunchFailed(n, c)
    BY <2>9 DEF LaunchFailed
  <2>10. CASE HandleWorkerFailure(n, c)
    BY <2>10 DEF HandleWorkerFailure
  <2>11. CASE StopWorkerInternal(n, c)
    BY <2>11 DEF StopWorkerInternal
  <2> QED BY <1>2, <2>1, <2>2, <2>3, <2>4, <2>5, <2>6, <2>7, <2>8, <2>9, <2>10, <2>11 DEF WorkerStep
<1> QED BY <1>1, <1>2

\* The lease invariant of the acting node itself.
LEMMA LeaseOfNode ==
    ASSUME TypeOK, TypeOK', NEW n \in Node, LeaseInv(n), NodeStep(n)
    PROVE  LeaseInv(n)'
<1> USE DurationAssumption DEF TypeOK, Query, Authority, Ending
<1>1. CASE RegisterNodeLease(n)
  BY <1>1 DEF RegisterNodeLease, LeaseInv, Busy
<1>2. CASE RecoverOrphanedWorkers(n)
  BY <1>2 DEF RecoverOrphanedWorkers, LeaseInv, Busy
<1>3. CASE SendRenewal(n)
  BY <1>3 DEF SendRenewal, LeaseInv, Busy
<1>4. CASE RenewNodeLease(n)
  BY <1>4 DEF RenewNodeLease, LeaseInv, Busy
<1>5. CASE RenewalAnswered(n)
  BY <1>5 DEF RenewalAnswered, LeaseInv, Busy
<1>6. CASE RenewalFailed(n)
  BY <1>6 DEF RenewalFailed, LeaseInv, Busy
<1>7. CASE SelfFence(n)
  BY <1>7, LeaseFence DEF SelfFence
<1>8. CASE Shutdown(n)
  BY <1>8 DEF Shutdown, LeaseInv, Busy
<1>9. CASE ReleaseNodeLease(n)
  BY <1>9 DEF ReleaseNodeLease, LeaseInv, Busy
<1>10. CASE ProcessEnds(n)
  BY <1>10 DEF ProcessEnds, LeaseInv, Busy
<1> QED BY <1>1, <1>2, <1>3, <1>4, <1>5, <1>6, <1>7, <1>8, <1>9, <1>10 DEF NodeStep

\* The same for a step of one of its entries ...
LEMMA LeaseOfWorker ==
    ASSUME TypeOK, TypeOK', NEW n \in Node, NEW c \in Connection, LeaseInv(n), WorkerStep(n, c)
    PROVE  LeaseInv(n)'
<1>0. local[n][c] # Absent => orch[n] \notin {"down", "registering"}
  BY DEF LeaseInv
<1> USE DEF TypeOK, Absent, Entry, lvars, Put, Hazard, Spawning, Authority, Ending
<1>1. CASE TakeOverFailedNodeWorker(n, c)
  BY <1>1, <1>0, LeaseWorker DEF TakeOverFailedNodeWorker
<1>2. CASE TakeOverUnresolved(n, c)
  BY <1>2, LeaseFence DEF TakeOverUnresolved
<1>3. CASE SpawnWorker(n, c)
  BY <1>3, <1>0, LeaseWorker DEF SpawnWorker, SendClaim
<1>4. CASE ScheduleRestart(n, c)
  BY <1>4, <1>0, LeaseWorker DEF ScheduleRestart, SendClaim
<1>5. CASE ClaimWorkerLaunch(n, c)
  BY <1>5, <1>0, LeaseWorker DEF ClaimWorkerLaunch
<1>6. CASE ClaimFailed(n, c)
  BY <1>6, <1>0, LeaseWorker DEF ClaimFailed
<1>7. CASE StartProcess(n, c)
  BY <1>7, <1>0, LeaseWorker DEF StartProcess
<1>8. CASE ActivateWorkerLaunch(n, c)
  BY <1>8, <1>0, LeaseWorker DEF ActivateWorkerLaunch
<1>9. CASE LaunchFailed(n, c)
  BY <1>9, <1>0, LeaseWorker DEF LaunchFailed
<1>10. CASE HandleWorkerFailure(n, c)
  BY <1>10, <1>0, LeaseWorker DEF HandleWorkerFailure
<1>11. CASE StopWorkerInternal(n, c)
  BY <1>11, <1>0, LeaseWorker DEF StopWorkerInternal
<1> QED BY <1>1, <1>2, <1>3, <1>4, <1>5, <1>6, <1>7, <1>8, <1>9, <1>10, <1>11 DEF WorkerStep

\* ... and for the clock.
LEMMA LeaseOfTick ==
    ASSUME TypeOK, TypeOK', NEW q \in Node, LeaseInv(q), Tick PROVE LeaseInv(q)'
<1> QED BY DurationAssumption DEF Tick, TypeOK, LeaseInv, Busy, lvars, Authority, Ending

\* The lease invariant is inductive by itself.
LEMMA LeaseStep ==
    ASSUME LeaseIInv, TypeOK', [Next]_vars PROVE LeaseIInv'
<1> SUFFICES ASSUME NEW q \in Node PROVE LeaseInv(q)'
  BY DEF LeaseIInv
<1> LeaseInv(q) /\ TypeOK
  BY DEF LeaseIInv
<1>1. CASE UNCHANGED vars
  BY <1>1, LeaseFrame DEF vars, lvars
<1>2. CASE Tick
  BY <1>2, LeaseOfTick
<1>3. ASSUME NEW n \in Node, NodeStep(n) PROVE LeaseInv(q)'
  BY <1>3, LeaseOfNode, LeaseFrame, Frames
<1>4. ASSUME NEW n \in Node, NEW c \in Connection, WorkerStep(n, c) PROVE LeaseInv(q)'
  BY <1>4, LeaseOfWorker, LeaseFrame, Frames
<1> QED BY <1>1, <1>2, <1>3, <1>4 DEF Next

-----------------------------------------------------------------------------
\* A node that has authority or anything a client could come from has not been
\* expired for the margin: nobody takes its rows.
LEMMA NotYetFailed ==
    ASSUME MarginCovers, TypeOK, NEW n \in Node, LeaseInv(n), orch[n] = "up" \/ Busy(n)
    PROVE  ~ExpiredPastMargin(n)
<1>1. Busy(n) => orch[n] \in Authority \cup Ending
  BY DEF Busy, LeaseInv, TypeOK, Absent, Entry, Hazard, Spawning
<1> QED BY <1>1, DurationAssumption
        DEF MarginCovers, TypeOK, LeaseInv, ExpiredPastMargin, Authority, Ending

\* An entry whose row, launches and node authority a step leaves alone.
LEMMA EntryFrame ==
    ASSUME NEW n \in Node, NEW c \in Connection, EntryInv(n, c), row'[c] = row[c],
           issued'[c] = issued[c], local'[n][c] = local[n][c], orch'[n] = "up" => orch[n] = "up"
    PROVE  EntryInv(n, c)'
  BY DEF EntryInv

\* When a row is taken over, the other nodes hold no launch of it.
LEMMA EntryTaken ==
    ASSUME MarginCovers, IInv, NEW n \in Node, NEW c \in Connection, NEW m \in Node \ {n},
           ExpiredPastMargin(row[c].node), row'[c].launch = row[c].launch,
           issued'[c] = issued[c], local'[m] = local[m], orch'[m] = orch[m]
    PROVE  EntryInv(m, c)'
<1>1. EntryInv(m, c) /\ LeaseInv(m) /\ TypeOK
  BY DEF IInv, LeaseIInv
<1>2. row[c].node = m => ~(orch[m] = "up") /\ ~(local[m][c].phase \in Hazard)
  BY <1>1, NotYetFailed DEF Busy
<1> QED BY <1>1, <1>2 DEF EntryInv, Hazard, Spawning

\* What a claim may change.
LEMMA ClaimEffect ==
    ASSUME TypeOK, NEW n \in Node, NEW c \in Connection, ClaimWorkerLaunch(n, c)
    PROVE  /\ UNCHANGED orch /\ local[n][c].phase = "claiming"
           /\ \A m \in Node, d \in Connection : m # n \/ d # c => local'[m][d] = local[m][d]
           /\ \A d \in Connection \ {c} : row'[d] = row[d] /\ issued'[d] = issued[d]
           /\ local'[n][c].phase \in {"claimed", "none"}
           /\ row'[c] = row[c] \/ (row[c] = NoRow /\ row'[c].node = n)
                                \/ (row[c].launch = local[n][c].prev /\ row'[c].node = n)
<1> DEFINE Claimed == [phase |-> "claimed", launch |-> issued[c] + 1,
                       prev |-> local[n][c].prev, retry |-> local[n][c].retry]
<1> USE DEF TypeOK, lvars, Put
<1>1. UNCHANGED orch /\ local[n][c].phase = "claiming"
  BY DEF ClaimWorkerLaunch
<1>2. PICK e \in {Claimed, Absent} : local' = [local EXCEPT ![n][c] = e]
  BY DEF ClaimWorkerLaunch
<1>3. e.phase \in {"claimed", "none"}
  BY DEF Absent, Entry
<1> HIDE DEF Claimed
<1>4. \A m \in Node, d \in Connection : m # n \/ d # c => local'[m][d] = local[m][d]
  BY <1>2
<1>5. local'[n][c] = e
  BY <1>2
<1>6. CASE row[c] = NoRow \/ row[c].launch = local[n][c].prev
  BY <1>1, <1>3, <1>4, <1>5, <1>6 DEF ClaimWorkerLaunch
<1>7. CASE ~(row[c] = NoRow \/ row[c].launch = local[n][c].prev)
  BY <1>1, <1>3, <1>4, <1>5, <1>7 DEF ClaimWorkerLaunch
<1> QED BY <1>6, <1>7

\* A step of one node or of the clock leaves the rows and entries consistent.
LEMMA EntriesOfNode ==
    ASSUME IInv, LeaseIInv', NEW n \in Node, NodeStep(n), NEW m \in Node, NEW d \in Connection
    PROVE  RowInv(d)' /\ EntryInv(m, d)'
<1>1. EntryInv(m, d) /\ RowInv(d) /\ TypeOK
  BY DEF IInv, LeaseIInv
<1>2. UNCHANGED <<row, issued>>
  <2>1. CASE RegisterNodeLease(n)
    BY <2>1 DEF RegisterNodeLease
  <2>2. CASE RecoverOrphanedWorkers(n)
    BY <2>2 DEF RecoverOrphanedWorkers
  <2>3. CASE SendRenewal(n)
    BY <2>3 DEF SendRenewal
  <2>4. CASE RenewNodeLease(n)
    BY <2>4 DEF RenewNodeLease
  <2>5. CASE RenewalAnswered(n)
    BY <2>5 DEF RenewalAnswered
  <2>6. CASE RenewalFailed(n)
    BY <2>6 DEF RenewalFailed
  <2>7. CASE SelfFence(n)
    BY <2>7 DEF SelfFence
  <2>8. CASE Shutdown(n)
    BY <2>8 DEF Shutdown
  <2>9. CASE ReleaseNodeLease(n)
    BY <2>9 DEF ReleaseNodeLease
  <2>10. CASE ProcessEnds(n)
    BY <2>10 DEF ProcessEnds
  <2> QED BY <2>1, <2>2, <2>3, <2>4, <2>5, <2>6, <2>7, <2>8, <2>9, <2>10 DEF NodeStep
<1>3. RowInv(d)'
  BY <1>1, <1>2 DEF RowInv
<1>4. CASE m # n
  BY <1>1, <1>2, <1>3, <1>4, Frames, EntryFrame
<1>5. CASE m = n
  <2> USE <1>1, <1>3 DEF TypeOK
  <2>1. CASE RegisterNodeLease(n)
    BY <2>1, <1>2, <1>5, EntryFrame DEF RegisterNodeLease
  <2>2. CASE RecoverOrphanedWorkers(n)
    BY <2>2, <1>2, <1>5 DEF RecoverOrphanedWorkers, EntryInv, RowInv, Failed, Absent, Entry
  <2>3. CASE SendRenewal(n)
    BY <2>3, <1>2, <1>5, EntryFrame DEF SendRenewal
  <2>4. CASE RenewNodeLease(n)
    BY <2>4, <1>2, <1>5, EntryFrame DEF RenewNodeLease
  <2>5. CASE RenewalAnswered(n)
    BY <2>5, <1>2, <1>5, EntryFrame DEF RenewalAnswered
  <2>6. CASE RenewalFailed(n)
    BY <2>6, <1>2, <1>5, EntryFrame DEF RenewalFailed
  <2>7. CASE SelfFence(n)
    BY <2>7, <1>2, <1>5, EntryFrame DEF SelfFence
  <2>8. CASE Shutdown(n)
    BY <2>8, <1>2, <1>5, EntryFrame DEF Shutdown
  <2>9. CASE ReleaseNodeLease(n)
    BY <2>9, <1>2, <1>5, EntryFrame DEF ReleaseNodeLease
  <2>10. CASE ProcessEnds(n)
    BY <2>10, <1>2, <1>5 DEF ProcessEnds, EntryInv, RowInv, Absent, Entry
  <2> QED BY <1>5, <2>1, <2>2, <2>3, <2>4, <2>5, <2>6, <2>7, <2>8, <2>9, <2>10 DEF NodeStep
<1> QED BY <1>3, <1>4, <1>5

\* So does a step of one entry.
LEMMA EntriesOfWorker ==
    ASSUME MarginCovers, IInv, LeaseIInv', NEW n \in Node, NEW c \in Connection,
           WorkerStep(n, c), NEW m \in Node, NEW d \in Connection
    PROVE  RowInv(d)' /\ EntryInv(m, d)'
<1>1. /\ EntryInv(m, d) /\ EntryInv(n, c) /\ EntryInv(m, c) /\ RowInv(d) /\ RowInv(c)
      /\ TypeOK /\ LeaseInv(n) /\ LeaseInv(m)
  BY DEF IInv, LeaseIInv
<1>2. ASSUME d # c PROVE RowInv(d)' /\ EntryInv(m, d)'
  <2> USE <1>1, <1>2, EntryFrame DEF TypeOK, lvars, Put
  <2>1. CASE TakeOverFailedNodeWorker(n, c)
    BY <2>1 DEF TakeOverFailedNodeWorker, RowInv
  <2>2. CASE TakeOverUnresolved(n, c)
    BY <2>2 DEF TakeOverUnresolved, RowInv
  <2>3. CASE SpawnWorker(n, c)
    BY <2>3 DEF SpawnWorker, SendClaim, RowInv
  <2>4. CASE ScheduleRestart(n, c)
    BY <2>4 DEF ScheduleRestart, SendClaim, RowInv
  <2>5. CASE ClaimWorkerLaunch(n, c)
    BY <2>5, ClaimEffect DEF RowInv
  <2>6. CASE ClaimFailed(n, c)
    BY <2>6 DEF ClaimFailed, RowInv
  <2>7. CASE StartProcess(n, c)
    BY <2>7 DEF StartProcess, RowInv
  <2>8. CASE ActivateWorkerLaunch(n, c)
    BY <2>8 DEF ActivateWorkerLaunch, RowInv
  <2>9. CASE LaunchFailed(n, c)
    BY <2>9 DEF LaunchFailed, RowInv
  <2>10. CASE HandleWorkerFailure(n, c)
    BY <2>10 DEF HandleWorkerFailure, RowInv
  <2>11. CASE StopWorkerInternal(n, c)
    BY <2>11 DEF StopWorkerInternal, RowInv
  <2> QED BY <2>1, <2>2, <2>3, <2>4, <2>5, <2>6, <2>7, <2>8, <2>9, <2>10, <2>11 DEF WorkerStep
<1>3. ASSUME d = c PROVE RowInv(c)' /\ EntryInv(m, c)'
  <2> USE <1>1, NoNodeAssumption DEF TypeOK, lvars, Put
  <2>1. CASE TakeOverFailedNodeWorker(n, c)
    <3>1. RowInv(c)'
      BY <2>1 DEF TakeOverFailedNodeWorker, RowInv, ExpiredPastMargin
    <3>2. CASE m # n
      BY <2>1, <3>1, <3>2, EntryTaken DEF TakeOverFailedNodeWorker
    <3>3. CASE m = n
      BY <2>1, <3>1, <3>3 DEF TakeOverFailedNodeWorker, EntryInv, RowInv, Entry, Absent, Failed
    <3> QED BY <3>1, <3>2, <3>3
  <2>2. CASE TakeOverUnresolved(n, c)
    <3>1. RowInv(c)'
      BY <2>2 DEF TakeOverUnresolved, RowInv, ExpiredPastMargin
    <3>2. CASE m # n
      BY <2>2, <3>1, <3>2, EntryTaken DEF TakeOverUnresolved
    <3>3. CASE m = n
      BY <2>2, <3>1, <3>3 DEF TakeOverUnresolved, EntryInv, RowInv, Entry, Absent, Failed
    <3> QED BY <3>1, <3>2, <3>3
  <2>3. CASE SpawnWorker(n, c)
    <3>1. RowInv(c)'
      BY <2>3 DEF SpawnWorker, SendClaim, RowInv
    <3>2. CASE m # n
      BY <2>3, <3>1, <3>2, EntryFrame DEF SpawnWorker, SendClaim
    <3>3. CASE m = n
      BY <2>3, <3>1, <3>3 DEF SpawnWorker, SendClaim, EntryInv, RowInv, Entry, Absent, Failed
    <3> QED BY <3>1, <3>2, <3>3
  <2>4. CASE ScheduleRestart(n, c)
    <3>1. RowInv(c)'
      BY <2>4 DEF ScheduleRestart, SendClaim, RowInv
    <3>2. CASE m # n
      BY <2>4, <3>1, <3>2, EntryFrame DEF ScheduleRestart, SendClaim
    <3>3. CASE m = n
      BY <2>4, <3>1, <3>3 DEF ScheduleRestart, SendClaim, EntryInv, RowInv, Entry, Absent, Failed
    <3> QED BY <3>1, <3>2, <3>3
  <2>5. CASE ClaimWorkerLaunch(n, c)
    <3>1. CASE row[c] = NoRow \/ row[c].launch = local[n][c].prev
      <4>1. /\ row'[c] = [node |-> n, launch |-> issued[c] + 1]
            /\ issued'[c] = issued[c] + 1 /\ UNCHANGED orch
            /\ local'[n][c] = [phase |-> "claimed", launch |-> issued[c] + 1,
                               prev |-> local[n][c].prev, retry |-> local[n][c].retry]
            /\ local[n][c].phase = "claiming"
            /\ m # n => local'[m][c] = local[m][c]
        BY <2>5, <3>1 DEF ClaimWorkerLaunch
      <4>2. RowInv(c)'
        BY <4>1 DEF RowInv
      <4>3. CASE m # n
        <5>1. local[m][c].launch \in Nat /\ local[m][c].prev \in Nat
          BY EntryTypes
        <5>2. ~(local[m][c].phase \in {"claimed", "started", "running"})
          BY <3>1, <4>1, <4>3 DEF EntryInv, RowInv, NoRow
        <5> QED BY <4>1, <4>2, <4>3, <5>1, <5>2 DEF EntryInv
      <4>4. CASE m = n
        <5>1. local[n][c].launch \in Nat /\ local[n][c].prev \in Nat /\ issued[c] \in Nat
          BY EntryTypes
        <5> QED BY <4>1, <4>2, <4>4, <5>1 DEF EntryInv
      <4> QED BY <4>3, <4>4
    <3>2. CASE ~(row[c] = NoRow \/ row[c].launch = local[n][c].prev)
      <4>1. RowInv(c)'
        BY <2>5, <3>2 DEF ClaimWorkerLaunch, RowInv
      <4>2. CASE m # n
        BY <2>5, <3>2, <4>1, <4>2, EntryFrame DEF ClaimWorkerLaunch
      <4>3. CASE m = n
        BY <2>5, <3>2, <4>1, <4>3 DEF ClaimWorkerLaunch, EntryInv, Absent, Entry
      <4> QED BY <4>2, <4>3
    <3> QED BY <3>1, <3>2
  <2>6. CASE ClaimFailed(n, c)
    <3>1. RowInv(c)'
      BY <2>6 DEF ClaimFailed, RowInv
    <3>2. CASE m # n
      BY <2>6, <3>1, <3>2, EntryFrame DEF ClaimFailed
    <3>3. CASE m = n
      BY <2>6, <3>1, <3>3 DEF ClaimFailed, EntryInv, RowInv, Entry, Absent, Failed
    <3> QED BY <3>1, <3>2, <3>3
  <2>7. CASE StartProcess(n, c)
    <3>1. RowInv(c)'
      BY <2>7 DEF StartProcess, RowInv
    <3>2. CASE m # n
      BY <2>7, <3>1, <3>2, EntryFrame DEF StartProcess
    <3>3. CASE m = n
      BY <2>7, <3>1, <3>3 DEF StartProcess, EntryInv, RowInv, Entry, Absent, Failed
    <3> QED BY <3>1, <3>2, <3>3
  <2>8. CASE ActivateWorkerLaunch(n, c)
    <3>1. RowInv(c)'
      BY <2>8 DEF ActivateWorkerLaunch, RowInv
    <3>2. CASE m # n
      BY <2>8, <3>1, <3>2, EntryFrame DEF ActivateWorkerLaunch
    <3>3. CASE m = n
      BY <2>8, <3>1, <3>3 DEF ActivateWorkerLaunch, EntryInv, RowInv, Entry, Absent, Failed
    <3> QED BY <3>1, <3>2, <3>3
  <2>9. CASE LaunchFailed(n, c)
    <3>1. RowInv(c)'
      BY <2>9 DEF LaunchFailed, RowInv, EntryInv, NoRow
    <3>2. CASE m # n
      BY <2>9, <3>1, <3>2 DEF LaunchFailed, EntryInv, RowInv, NoRow
    <3>3. CASE m = n
      BY <2>9, <3>1, <3>3 DEF LaunchFailed, EntryInv, RowInv, Entry, Absent, Failed, NoRow
    <3> QED BY <3>1, <3>2, <3>3
  <2>10. CASE HandleWorkerFailure(n, c)
    <3>1. RowInv(c)'
      BY <2>10 DEF HandleWorkerFailure, RowInv, NoRow
    <3>2. CASE m # n
      BY <2>10, <3>1, <3>2 DEF HandleWorkerFailure, EntryInv, RowInv, NoRow
    <3>3. CASE m = n
      BY <2>10, <3>1, <3>3 DEF HandleWorkerFailure, EntryInv, RowInv, Entry, Absent, NoRow
    <3> QED BY <3>1, <3>2, <3>3
  <2>11. CASE StopWorkerInternal(n, c)
    <3>1. RowInv(c)'
      BY <2>11 DEF StopWorkerInternal, RowInv
    <3>2. CASE m # n
      BY <2>11, <3>1, <3>2, EntryFrame DEF StopWorkerInternal
    <3>3. CASE m = n
      BY <2>11, <3>1, <3>3 DEF StopWorkerInternal, EntryInv, RowInv, Entry, Absent, Failed
    <3> QED BY <3>1, <3>2, <3>3
  <2> QED BY <2>1, <2>2, <2>3, <2>4, <2>5, <2>6, <2>7, <2>8, <2>9, <2>10, <2>11 DEF WorkerStep
<1> QED BY <1>2, <1>3

\* The inductive invariant is preserved by every step.
LEMMA IInvStep ==
    ASSUME MarginCovers, IInv, TypeOK', [Next]_vars PROVE IInv'
<1>1. LeaseIInv'
  BY LeaseStep DEF IInv
<1>2. ASSUME NEW d \in Connection PROVE RowInv(d)' /\ \A m \in Node : EntryInv(m, d)'
  <2>1. RowInv(d) /\ \A m \in Node : EntryInv(m, d)
    BY DEF IInv
  <2>2. CASE UNCHANGED vars
    BY <2>1, <2>2, EntryFrame DEF vars, lvars, RowInv
  <2>3. CASE Tick
    BY <2>1, <2>3, EntryFrame DEF Tick, lvars, RowInv
  <2>4. ASSUME NEW n \in Node, NodeStep(n)
        PROVE  RowInv(d)' /\ \A m \in Node : EntryInv(m, d)'
    BY <1>1, <2>4, EntriesOfNode
  <2>5. ASSUME NEW n \in Node, NEW c \in Connection, WorkerStep(n, c)
        PROVE  RowInv(d)' /\ \A m \in Node : EntryInv(m, d)'
    BY <1>1, <2>5, EntriesOfWorker
  <2> QED BY <2>2, <2>3, <2>4, <2>5 DEF Next
<1> QED BY <1>1, <1>2 DEF IInv

\* It holds initially: nothing is registered or launched.
LEMMA IInvInit == Init => IInv
  BY TypeInit, NoNodeAssumption, DurationAssumption
     DEF Init, IInv, LeaseIInv, LeaseInv, RowInv, EntryInv, NoRow, Absent, Entry, Query,
         Authority, Ending, Busy, Hazard, Spawning

\* The inductive invariant, from the one assumption that the margin covers the
\* longest answer and the longest fence.
THEOREM Inductive == ASSUME MarginCovers PROVE Spec => []IInv
<1>1. IInv /\ TypeOK' /\ [Next]_vars => IInv'
  BY IInvStep
<1> QED BY <1>1, IInvInit, TypeCorrect, PTL DEF Spec

\* If the margin covers the longest answer and the longest fence, no two clients
\* of a connection are alive at once.
THEOREM OneClientAlways == ASSUME MarginCovers PROVE Spec => []OneClient
<1>1. IInv => OneClient
  BY DEF IInv, EntryInv, OneClient, Clients, Alive
<1> QED BY <1>1, Inductive, PTL

\* Then a live client is always the one the registry names.
THEOREM ClientIsRegisteredAlways == ASSUME MarginCovers PROVE Spec => []ClientIsRegistered
<1>1. ASSUME IInv, NEW c \in Connection, NEW n \in Clients(c)
      PROVE  row[c] = [node |-> n, launch |-> local[n][c].launch]
  <2>1. row[c] \in [node : Node \cup {NoNode}, launch : Nat]
    BY <1>1 DEF IInv, LeaseIInv, TypeOK
  <2>2. row[c].node = n /\ row[c].launch = local[n][c].launch
    BY <1>1 DEF IInv, EntryInv, Clients, Alive
  <2> QED BY <2>1, <2>2
<1>2. IInv => ClientIsRegistered
  BY <1>1 DEF ClientIsRegistered
<1> QED BY <1>2, Inductive, PTL

\* And no step takes a connection from a node whose lease has not been expired
\* for the margin.
THEOREM AffinityAlwaysKept == ASSUME MarginCovers PROVE Spec => AffinityKept
<1> DEFINE Kept == \A c \in Connection :
               row[c].node # NoNode /\ row'[c].node \notin {NoNode, row[c].node}
                   => lease[row[c].node] + Margin <= now
<1>1. ASSUME IInv, [Next]_vars PROVE Kept
  <2> SUFFICES ASSUME NEW d \in Connection, row[d].node # NoNode,
                      row'[d].node \notin {NoNode, row[d].node}
               PROVE  lease[row[d].node] + Margin <= now
    OBVIOUS
  <2> USE DEF IInv, LeaseIInv, TypeOK
  <2>1. CASE UNCHANGED vars
    BY <2>1 DEF vars
  <2>2. CASE Tick
    BY <2>2 DEF Tick
  <2>3. ASSUME NEW n \in Node, NodeStep(n) PROVE FALSE
    <3>1. CASE RegisterNodeLease(n)
      BY <3>1 DEF RegisterNodeLease
    <3>2. CASE RecoverOrphanedWorkers(n)
      BY <3>2 DEF RecoverOrphanedWorkers
    <3>3. CASE SendRenewal(n)
      BY <3>3 DEF SendRenewal
    <3>4. CASE RenewNodeLease(n)
      BY <3>4 DEF RenewNodeLease
    <3>5. CASE RenewalAnswered(n)
      BY <3>5 DEF RenewalAnswered
    <3>6. CASE RenewalFailed(n)
      BY <3>6 DEF RenewalFailed
    <3>7. CASE SelfFence(n)
      BY <3>7 DEF SelfFence
    <3>8. CASE Shutdown(n)
      BY <3>8 DEF Shutdown
    <3>9. CASE ReleaseNodeLease(n)
      BY <3>9 DEF ReleaseNodeLease
    <3>10. CASE ProcessEnds(n)
      BY <3>10 DEF ProcessEnds
    <3> QED BY <2>3, <3>1, <3>2, <3>3, <3>4, <3>5, <3>6, <3>7, <3>8, <3>9, <3>10 DEF NodeStep
  <2>4. ASSUME NEW n \in Node, NEW c \in Connection, WorkerStep(n, c)
        PROVE  lease[row[d].node] + Margin <= now
    <3> EntryInv(n, c) /\ RowInv(c)
      BY <1>1
    <3>1. CASE TakeOverFailedNodeWorker(n, c)
      BY <3>1, <1>1 DEF TakeOverFailedNodeWorker, lvars, Put, ExpiredPastMargin, EntryInv, RowInv, NoRow
    <3>2. CASE TakeOverUnresolved(n, c)
      BY <3>2, <1>1 DEF TakeOverUnresolved, lvars, Put, ExpiredPastMargin, EntryInv, RowInv, NoRow
    <3>3. CASE SpawnWorker(n, c)
      BY <3>3, <1>1 DEF SpawnWorker, SendClaim, lvars, Put, ExpiredPastMargin, EntryInv, RowInv, NoRow
    <3>4. CASE ScheduleRestart(n, c)
      BY <3>4, <1>1 DEF ScheduleRestart, SendClaim, lvars, Put, ExpiredPastMargin, EntryInv, RowInv, NoRow
    <3>5. CASE ClaimWorkerLaunch(n, c)
      BY <3>5, <1>1, ClaimEffect DEF EntryInv, RowInv, NoRow
    <3>6. CASE ClaimFailed(n, c)
      BY <3>6, <1>1 DEF ClaimFailed, lvars, Put, ExpiredPastMargin, EntryInv, RowInv, NoRow
    <3>7. CASE StartProcess(n, c)
      BY <3>7, <1>1 DEF StartProcess, lvars, Put, ExpiredPastMargin, EntryInv, RowInv, NoRow
    <3>8. CASE ActivateWorkerLaunch(n, c)
      BY <3>8, <1>1 DEF ActivateWorkerLaunch, lvars, Put, ExpiredPastMargin, EntryInv, RowInv, NoRow
    <3>9. CASE LaunchFailed(n, c)
      BY <3>9, <1>1 DEF LaunchFailed, lvars, Put, ExpiredPastMargin, EntryInv, RowInv, NoRow
    <3>10. CASE HandleWorkerFailure(n, c)
      BY <3>10, <1>1 DEF HandleWorkerFailure, NoRow
    <3>11. CASE StopWorkerInternal(n, c)
      BY <3>11, <1>1 DEF StopWorkerInternal, lvars, Put, ExpiredPastMargin, EntryInv, RowInv, NoRow
    <3> QED BY <2>4, <3>1, <3>2, <3>3, <3>4, <3>5, <3>6, <3>7, <3>8, <3>9, <3>10, <3>11 DEF WorkerStep
  <2> QED BY <1>1, <2>1, <2>2, <2>3, <2>4 DEF Next
<1> QED BY <1>1, Inductive, PTL DEF Spec, AffinityKept

-----------------------------------------------------------------------------
\* A step that changes one entry and makes no client ends at most one client.
LEMMA OneEnds ==
    ASSUME TypeOK, TypeOK', NEW n \in Node, NEW c \in Connection,
           \A m \in Node, d \in Connection : m # n \/ d # c => local'[m][d] = local[m][d],
           local'[n][c].phase \in Alive => local[n][c].phase \in Alive
    PROVE  Session!End
<1> DEFINE ended == IF local'[n][c].phase \in Alive THEN {} ELSE {c}
<1>1. ASSUME NEW d \in Connection
      PROVE  Clients(d)' = IF d \in ended THEN Clients(d) \cap (Node \ {n}) ELSE Clients(d)
  BY DEF Clients
<1>2. ended \in SUBSET Connection /\ Node \ {n} \in SUBSET Node
  OBVIOUS
<1> HIDE DEF ended
<1>3. \A d \in Connection : [e \in Connection |-> Clients(e)][d] = Clients(d)
  OBVIOUS
<1>4. [d \in Connection |-> Clients(d)]' =
         [d \in Connection |-> IF d \in ended
                               THEN [e \in Connection |-> Clients(e)][d] \cap (Node \ {n})
                               ELSE [e \in Connection |-> Clients(e)][d]]
  BY <1>1, <1>3
<1> QED BY <1>2, <1>4 DEF Session!End

\* The lease protocol implements the session's abstract owner: a client starts
\* only where none is alive.
THEOREM Refinement == ASSUME MarginCovers PROVE Spec => OneOwnerAtATime
<1> DEFINE H == [c \in Connection |-> Clients(c)]
<1>1. Init => Session!Init
  BY DEF Init, Session!Init, Clients, Alive, Absent, Entry
<1>2. ASSUME IInv, IInv', [Next]_vars PROVE Session!Next \/ UNCHANGED H
  <2> USE DEF IInv, LeaseIInv
  <2>0. ASSUME UNCHANGED local PROVE UNCHANGED H
    BY <2>0 DEF Clients
  <2>1. CASE UNCHANGED vars \/ Tick
    BY <2>0, <2>1 DEF vars, Tick
  <2>2. ASSUME NEW n \in Node, NodeStep(n) PROVE Session!Next \/ UNCHANGED H
    <3>1. CASE RegisterNodeLease(n)
      BY <3>1, <2>0 DEF RegisterNodeLease
    <3>2. CASE RecoverOrphanedWorkers(n)
      BY <3>2, <1>2 DEF RecoverOrphanedWorkers, LeaseInv, Clients, Alive, Failed, Absent, Entry, TypeOK
    <3>3. CASE SendRenewal(n)
      BY <3>3, <2>0 DEF SendRenewal
    <3>4. CASE RenewNodeLease(n)
      BY <3>4, <2>0 DEF RenewNodeLease
    <3>5. CASE RenewalAnswered(n)
      BY <3>5, <2>0 DEF RenewalAnswered
    <3>6. CASE RenewalFailed(n)
      BY <3>6, <2>0 DEF RenewalFailed
    <3>7. CASE SelfFence(n)
      BY <3>7, <2>0 DEF SelfFence
    <3>8. CASE Shutdown(n)
      BY <3>8, <2>0 DEF Shutdown
    <3>9. CASE ReleaseNodeLease(n)
      BY <3>9, <2>0 DEF ReleaseNodeLease
    <3>10. CASE ProcessEnds(n)
      <4>1. \A d \in Connection : Clients(d)' = Clients(d) \cap (Node \ {n})
        BY <3>10, <1>2 DEF ProcessEnds, Clients, Alive, Absent, Entry, TypeOK
      <4>2. H' = [d \in Connection |-> IF d \in Connection THEN H[d] \cap (Node \ {n}) ELSE H[d]]
        BY <4>1
      <4>3. Connection \in SUBSET Connection /\ Node \ {n} \in SUBSET Node
        OBVIOUS
      <4> QED BY <4>2, <4>3 DEF Session!End, Session!Next
    <3> QED BY <2>2, <3>1, <3>2, <3>3, <3>4, <3>5, <3>6, <3>7, <3>8, <3>9, <3>10 DEF NodeStep
  <2>3. ASSUME NEW n \in Node, NEW c \in Connection, WorkerStep(n, c)
        PROVE  Session!Next \/ UNCHANGED H
    <3>1. CASE TakeOverFailedNodeWorker(n, c)
      BY <3>1, <1>2, OneEnds DEF TakeOverFailedNodeWorker, Alive, Absent, Entry, Failed, lvars, Put, TypeOK, Session!Next
    <3>2. CASE TakeOverUnresolved(n, c)
      BY <3>2, <1>2, OneEnds DEF TakeOverUnresolved, Alive, Absent, Entry, Failed, lvars, Put, TypeOK, Session!Next
    <3>3. CASE SpawnWorker(n, c)
      BY <3>3, <1>2, OneEnds DEF SpawnWorker, SendClaim, Alive, Absent, Entry, Failed, lvars, Put, TypeOK, Session!Next
    <3>4. CASE ScheduleRestart(n, c)
      BY <3>4, <1>2, OneEnds DEF ScheduleRestart, SendClaim, Alive, Absent, Entry, Failed, lvars, Put, TypeOK, Session!Next
    <3>5. CASE ClaimWorkerLaunch(n, c)
      BY <3>5, <1>2, ClaimEffect, OneEnds DEF Alive, Session!Next
    <3>6. CASE ClaimFailed(n, c)
      BY <3>6, <1>2, OneEnds DEF ClaimFailed, Alive, Absent, Entry, Failed, lvars, Put, TypeOK, Session!Next
    <3>7. CASE StartProcess(n, c)
      <4>1. Clients(c) = {}
        BY <3>7, <1>2 DEF StartProcess, EntryInv, Clients, Alive
      <4>2. \A d \in Connection : Clients(d)' = IF d = c THEN {n} ELSE Clients(d)
        BY <3>7, <1>2, <4>1 DEF StartProcess, Put, Clients, Alive, TypeOK
      <4>3. H' = [H EXCEPT ![c] = {n}]
        BY <4>2
      <4> QED BY <4>1, <4>3 DEF Session!Start, Session!Next
    <3>8. CASE ActivateWorkerLaunch(n, c)
      BY <3>8, <1>2, OneEnds DEF ActivateWorkerLaunch, Alive, Absent, Entry, Failed, lvars, Put, TypeOK, Session!Next
    <3>9. CASE LaunchFailed(n, c)
      BY <3>9, <1>2, OneEnds DEF LaunchFailed, Alive, Absent, Entry, Failed, lvars, Put, TypeOK, Session!Next
    <3>10. CASE HandleWorkerFailure(n, c)
      <4>1. PICK e \in {Absent, Entry("error", local[n][c].launch)} :
              local' = [local EXCEPT ![n][c] = e]
        BY <3>10 DEF HandleWorkerFailure, Put
      <4>2. e.phase \notin Alive
        BY DEF Absent, Entry, Alive
      <4> QED BY <1>2, <4>1, <4>2, OneEnds DEF TypeOK, Session!Next
    <3>11. CASE StopWorkerInternal(n, c)
      BY <3>11, <1>2, OneEnds DEF StopWorkerInternal, Alive, Absent, Entry, Failed, lvars, Put, TypeOK, Session!Next
    <3> QED BY <2>3, <3>1, <3>2, <3>3, <3>4, <3>5, <3>6, <3>7, <3>8, <3>9, <3>10, <3>11 DEF WorkerStep
  <2> QED BY <1>2, <2>1, <2>2, <2>3 DEF Next
<1> QED BY <1>1, <1>2, Inductive, PTL DEF Spec, OneOwnerAtATime, Session!Spec
=============================================================================
