------------------------------ MODULE NodeLease ------------------------------
(***************************************************************************)
(* Which orchestrator node may run the WhatsApp client of a connection     *)
(* (services/orchestrator/internal/manager): every node renews a lease in  *)
(* orchestrator_nodes and ends its own children when it cannot; a peer     *)
(* takes a failed node's rows over once that lease has been expired for    *)
(* the takeover margin; a child is started only after its launch has been  *)
(* claimed in worker_registry by compare-and-swap.                         *)
(*                                                                         *)
(* PostgreSQL's clock and the nodes' clocks are used for durations only,   *)
(* so one clock stands for all of them. A statement takes effect at one    *)
(* instant and its answer is acted on at a later one.                      *)
(***************************************************************************)
EXTENDS Naturals

CONSTANTS
    Node,
    Connection,
    NoNode,
    Lease,      \* NodeLeaseDuration
    Interval,   \* the renewal interval, a quarter of it
    Margin,     \* NodeTakeoverMargin
    Reply,      \* longest time from a lease statement's effect to its answer
    Fence,      \* longest time from losing authority to the last child's end
    Horizon,    \* bound of the clock
    MaxLaunch   \* bound of the launches of a connection

ASSUME DurationAssumption ==
    /\ Lease \in Nat /\ Interval \in Nat /\ Margin \in Nat
    /\ Reply \in Nat /\ Fence \in Nat
    /\ Horizon \in Nat /\ MaxLaunch \in Nat
ASSUME NoNodeAssumption == NoNode \notin Node

VARIABLES
    now,
    lease,      \* orchestrator_nodes.lease_expires_at
    orch,       \* the orchestrator process of the node
    deadline,   \* leaseDeadline while it has authority, then the end of its fence
    query,      \* its lease statement: to be sent at, sent, or done at some time
    row,        \* worker_registry: the connection's node_id and launch_id
    issued,     \* how many launch ids the connection has used up
    local       \* m.workers of the node: the launch, how far it has come, the
                \* launch it replaces and whether it is an automatic restart

lvars == <<lease, orch, deadline, query>>
vars == <<now, lvars, row, issued, local>>

Authority == {"up", "stopping"}
Ending == {"fencing", "exiting"}
\* A launch between its claim's sending and the end of its process.
Spawning == {"claiming", "claimed", "started"}
Hazard == Spawning \cup {"running"}
Alive == {"started", "running"}

NoRow == [node |-> NoNode, launch |-> 0]
Entries == [phase : {"none", "error"} \cup Hazard,
            launch : Nat, prev : Nat, retry : BOOLEAN]
Entry(phase, l) == [phase |-> phase, launch |-> l, prev |-> 0, retry |-> FALSE]
Absent == Entry("none", 0)
Failed(l) == IF l = 0 THEN Absent ELSE Entry("error", l)
Put(n, c, e) == local' = [local EXCEPT ![n][c] = e]
Query(phase, t) == [phase |-> phase, at |-> t]

TypeOK ==
    /\ now \in Nat
    /\ lease \in [Node -> Nat]
    /\ orch \in [Node -> {"down", "registering"} \cup Authority \cup Ending]
    /\ deadline \in [Node -> Nat]
    /\ query \in [Node -> [phase : {"idle", "sent", "done", "refused"}, at : Nat]]
    /\ row \in [Connection -> [node : Node \cup {NoNode}, launch : Nat]]
    /\ issued \in [Connection -> Nat]
    /\ local \in [Node -> [Connection -> Entries]]

Init ==
    /\ now = 0
    /\ lease = [n \in Node |-> 0]
    /\ orch = [n \in Node |-> "down"]
    /\ deadline = [n \in Node |-> 0]
    /\ query = [n \in Node |-> Query("idle", 0)]
    /\ row = [c \in Connection |-> NoRow]
    /\ issued = [c \in Connection |-> 0]
    /\ local = [n \in Node |-> [c \in Connection |-> Absent]]

-----------------------------------------------------------------------------
(* The node's lease.                                                       *)

\* Manager.Start: a live lease refuses a second instance of the node. That the
\* former process of the id has ended is not the statement's condition, which
\* only asks for an expired lease: docs/deployment.md demands it of operators.
RegisterNodeLease(n) ==
    /\ orch[n] = "down"
    /\ lease[n] <= now
    /\ lease' = [lease EXCEPT ![n] = now + Lease]
    /\ orch' = [orch EXCEPT ![n] = "registering"]
    /\ query' = [query EXCEPT ![n] = Query("done", now)]
    /\ UNCHANGED <<now, deadline, row, issued, local>>

\* Mutant: the rows of every node are recovered.
RecoverEveryRow(n) ==
    /\ orch[n] = "registering"
    /\ orch' = [orch EXCEPT ![n] = "up"]
    /\ deadline' = [deadline EXCEPT ![n] = now + Lease]
    /\ query' = [query EXCEPT ![n] = Query("idle", now + Interval)]
    /\ local' = [local EXCEPT ![n] = [c \in Connection |-> Failed(row[c].launch)]]
    /\ UNCHANGED <<now, lease, row, issued>>

\* The answer: the renewal loop starts and the node's own rows are recovered.
\* Their children died with the former process (Pdeathsig).
RecoverOrphanedWorkers(n) ==
    /\ orch[n] = "registering"
    /\ orch' = [orch EXCEPT ![n] = "up"]
    /\ deadline' = [deadline EXCEPT ![n] = now + Lease]
    /\ query' = [query EXCEPT ![n] = Query("idle", now + Interval)]
    /\ local' = [local EXCEPT ![n] =
                    [c \in Connection |-> IF row[c].node = n THEN Failed(row[c].launch)
                                                             ELSE Absent]]
    /\ UNCHANGED <<now, lease, row, issued>>

SendRenewal(n) ==
    /\ orch[n] \in Authority
    /\ query[n].phase = "idle"
    /\ query[n].at <= now
    /\ query' = [query EXCEPT ![n] = Query("sent", 0)]
    /\ UNCHANGED <<now, lease, orch, deadline, row, issued, local>>

\* The UPDATE takes effect, possibly after the node has given up on it.
RenewNodeLease(n) ==
    /\ query[n].phase = "sent"
    /\ IF lease[n] > now
       THEN /\ lease' = [lease EXCEPT ![n] = now + Lease]
            /\ query' = [query EXCEPT ![n] = Query("done", now)]
       ELSE /\ query' = [query EXCEPT ![n] = Query("refused", 0)]
            /\ UNCHANGED lease
    /\ UNCHANGED <<now, orch, deadline, row, issued, local>>

\* The new deadline counts from the answer, not from the statement's effect.
RenewalAnswered(n) ==
    /\ orch[n] \in Authority
    /\ query[n].phase = "done"
    /\ now < deadline[n]
    /\ deadline' = [deadline EXCEPT ![n] = now + Lease]
    /\ query' = [query EXCEPT ![n] = Query("idle", now + Interval)]
    /\ UNCHANGED <<now, lease, orch, row, issued, local>>

\* Mutant: a failed renewal extends the local deadline too.
RenewalFailedExtends(n) ==
    /\ orch[n] \in Authority
    /\ query[n].phase \in {"sent", "done"}
    /\ now < deadline[n]
    /\ deadline' = [deadline EXCEPT ![n] = now + Lease]
    /\ query' = [query EXCEPT ![n] = Query("idle", now + Interval)]
    /\ UNCHANGED <<now, lease, orch, row, issued, local>>

\* The statement failed, or took effect and its answer was lost.
RenewalFailed(n) ==
    /\ orch[n] \in Authority
    /\ query[n].phase \in {"sent", "done"}
    /\ now < deadline[n]
    /\ query' = [query EXCEPT ![n] = Query("idle", now + Interval)]
    /\ UNCHANGED <<now, lease, orch, deadline, row, issued, local>>

\* The deadline passed, or a renewal was refused: Stop, then exit.
SelfFence(n) ==
    /\ orch[n] \in Authority
    /\ deadline[n] <= now \/ query[n].phase = "refused"
    /\ orch' = [orch EXCEPT ![n] = "fencing"]
    /\ deadline' = [deadline EXCEPT ![n] = now + Fence]
    /\ UNCHANGED <<now, lease, query, row, issued, local>>

\* SIGTERM: Stop while the renewal loop goes on.
Shutdown(n) ==
    /\ orch[n] = "up"
    /\ orch' = [orch EXCEPT ![n] = "stopping"]
    /\ UNCHANGED <<now, lease, deadline, query, row, issued, local>>

\* Stop ends one child and keeps its row for recovery.
StopWorkerInternal(n, c) ==
    /\ orch[n] \in {"stopping", "fencing"}
    /\ local[n][c].phase = "running"
    /\ Put(n, c, Absent)
    /\ UNCHANGED <<now, lvars, row, issued>>

\* Stop has waited for every spawn's lifecycle lock; a child it could not end
\* is left to the exit. Releasing the lease may fail.
ReleaseNodeLease(n) ==
    /\ orch[n] \in {"stopping", "fencing"}
    /\ \A c \in Connection : local[n][c].phase \notin Spawning
    /\ \E released \in BOOLEAN :
          lease' = IF released THEN [lease EXCEPT ![n] = now] ELSE lease
    /\ orch' = [orch EXCEPT ![n] = "exiting"]
    /\ deadline' = [deadline EXCEPT ![n] =
                       IF orch[n] = "stopping" THEN now + Fence ELSE deadline[n]]
    /\ query' = [query EXCEPT ![n] = Query("idle", 0)]
    /\ UNCHANGED <<now, row, issued, local>>

\* The process exits or is killed; the kernel kills its children with it.
ProcessEnds(n) ==
    /\ orch[n] # "down"
    /\ orch' = [orch EXCEPT ![n] = "down"]
    /\ query' = [query EXCEPT ![n] = Query("idle", 0)]
    /\ local' = [local EXCEPT ![n] = [c \in Connection |-> Absent]]
    /\ deadline' = [deadline EXCEPT ![n] = 0]
    /\ UNCHANGED <<now, lease, row, issued>>

-----------------------------------------------------------------------------
(* Taking a failed node's connection over.                                 *)

ExpiredPastMargin(p) == p # NoNode /\ lease[p] + Margin <= now

\* The row's compare-and-swap and the local entry, under takeoverMu.
TakeOverFailedNodeWorker(n, c) ==
    /\ orch[n] = "up"
    /\ row[c].node # n
    /\ ExpiredPastMargin(row[c].node)
    /\ row' = [row EXCEPT ![c].node = n]
    /\ local' = IF local[n][c].phase = "none"
                THEN [local EXCEPT ![n][c] = Failed(row[c].launch)]
                ELSE local
    /\ UNCHANGED <<now, lvars, issued>>

\* Neither the UPDATE nor the check of its effect was answered: the entry is
\* kept for shutdown's sake and the node fences itself.
TakeOverUnresolved(n, c) ==
    /\ orch[n] = "up"
    /\ row[c].node # n
    /\ ExpiredPastMargin(row[c].node)
    /\ \E taken \in BOOLEAN : row' = IF taken THEN [row EXCEPT ![c].node = n] ELSE row
    /\ local' = IF local[n][c].phase = "none"
                THEN [local EXCEPT ![n][c] = Failed(row[c].launch)]
                ELSE local
    /\ orch' = [orch EXCEPT ![n] = "fencing"]
    /\ deadline' = [deadline EXCEPT ![n] = now + Fence]
    /\ UNCHANGED <<now, lease, query, issued>>

-----------------------------------------------------------------------------
(* Launching a child.                                                      *)

\* The claim expects the launch of the failed entry it replaces, or no row.
SendClaim(n, c, retry) ==
    /\ orch[n] = "up"
    /\ issued[c] < MaxLaunch
    /\ Put(n, c, [phase |-> "claiming", launch |-> 0,
                  prev |-> local[n][c].launch, retry |-> retry])
    /\ UNCHANGED <<now, lvars, row, issued>>

\* A spawn command that the registry routes to this node.
SpawnWorker(n, c) ==
    /\ row[c].node \in {n, NoNode}
    /\ local[n][c].phase \in {"none", "error"}
    /\ SendClaim(n, c, FALSE)

\* The delayed restart of a failed entry whose launch is still the row's.
ScheduleRestart(n, c) ==
    /\ local[n][c].phase = "error"
    /\ row[c].launch = local[n][c].launch
    /\ SendClaim(n, c, TRUE)

\* Mutant: the claim overwrites whatever launch the row has.
ClaimUnchecked(n, c) ==
    /\ local[n][c].phase = "claiming"
    /\ issued' = [issued EXCEPT ![c] = @ + 1]
    /\ row' = [row EXCEPT ![c] = [node |-> n, launch |-> issued[c] + 1]]
    /\ Put(n, c, [phase |-> "claimed", launch |-> issued[c] + 1,
                  prev |-> local[n][c].prev, retry |-> local[n][c].retry])
    /\ UNCHANGED <<now, lvars>>

\* The upsert: without a row it inserts, whatever it expected; with one it is a
\* compare-and-swap on launch_id that does not look at node_id.
ClaimWorkerLaunch(n, c) ==
    /\ local[n][c].phase = "claiming"
    /\ IF row[c] = NoRow \/ row[c].launch = local[n][c].prev
       THEN /\ issued' = [issued EXCEPT ![c] = @ + 1]
            /\ row' = [row EXCEPT ![c] = [node |-> n, launch |-> issued[c] + 1]]
            /\ Put(n, c, [phase |-> "claimed", launch |-> issued[c] + 1,
                          prev |-> local[n][c].prev, retry |-> local[n][c].retry])
       ELSE /\ Put(n, c, Absent)
            /\ UNCHANGED <<row, issued>>
    /\ UNCHANGED <<now, lvars>>

\* The claim failed, or took effect and its answer was lost: restorePrevious.
ClaimFailed(n, c) ==
    /\ local[n][c].phase \in {"claiming", "claimed"}
    /\ Put(n, c, Failed(local[n][c].prev))
    /\ UNCHANGED <<now, lvars, row, issued>>

StartProcess(n, c) ==
    /\ local[n][c].phase = "claimed"
    /\ Put(n, c, [local[n][c] EXCEPT !.phase = "started"])
    /\ UNCHANGED <<now, lvars, row, issued>>

\* The PID is recorded for exactly this launch on this node; the child of a
\* launch that has been replaced is ended at once.
ActivateWorkerLaunch(n, c) ==
    LET l == local[n][c].launch IN
    /\ local[n][c].phase = "started"
    /\ Put(n, c, IF row[c] = [node |-> n, launch |-> l] THEN Entry("running", l) ELSE Absent)
    /\ UNCHANGED <<now, lvars, row, issued>>

\* The child could not be started, or its activation not be written: it is
\* ended; a restart keeps its launch to try again, a first launch removes its
\* row unless that fails too.
LaunchFailed(n, c) ==
    LET l == local[n][c].launch IN
    /\ local[n][c].phase \in {"claimed", "started"}
    /\ Put(n, c, IF local[n][c].retry THEN Failed(l) ELSE Absent)
    /\ \E removed \in BOOLEAN :
          row' = IF removed /\ ~local[n][c].retry /\ row[c].launch = l
                 THEN [row EXCEPT ![c] = NoRow] ELSE row
    /\ UNCHANGED <<now, lvars, issued>>

\* The child exits by itself, or its restart failed. When the restart budget is
\* used up, the row of exactly this launch is removed and the entry with it;
\* otherwise, and if the removal fails, the entry is kept.
HandleWorkerFailure(n, c) ==
    /\ local[n][c].phase \in {"running", "error"}
    /\ \/ /\ Put(n, c, Entry("error", local[n][c].launch))
          /\ UNCHANGED row
       \/ /\ orch[n] = "up"
          /\ row[c].launch = local[n][c].launch
          /\ row' = [row EXCEPT ![c] = NoRow]
          /\ Put(n, c, Absent)
    /\ UNCHANGED <<now, lvars, issued>>

-----------------------------------------------------------------------------
(* Timers are obeyed: a renewal is sent when it is due, a node whose       *)
(* deadline has come fences itself before time goes on, an answer to a     *)
(* lease statement arrives within Reply or not at all, and a fence has     *)
(* ended the last child, and any spawn it found under way, by its end.     *)
(* The code bounds a renewal's answer by the lease's own deadline; for a   *)
(* registration's answer, which manager.go:243 awaits without a timeout,   *)
(* and for the locks Stop waits for (manager.go:444-457) besides its 30    *)
(* seconds, Reply and Fence are assumptions on the environment.            *)
Tick ==
    /\ now < Horizon
    /\ \A n \in Node :
        /\ orch[n] \in Authority => now < deadline[n]
        /\ orch[n] \in Authority /\ query[n].phase = "idle" => now < query[n].at
        /\ orch[n] \in Authority \cup {"registering"} /\ query[n].phase = "done"
              => now < query[n].at + Reply
        /\ orch[n] \in Ending /\ (\E c \in Connection : local[n][c].phase \in Hazard)
              => now < deadline[n]
    /\ now' = now + 1
    /\ UNCHANGED <<lvars, row, issued, local>>

NodeStep(n) ==
    \/ RegisterNodeLease(n) \/ RecoverOrphanedWorkers(n)
    \/ SendRenewal(n) \/ RenewNodeLease(n) \/ RenewalAnswered(n) \/ RenewalFailed(n)
    \/ SelfFence(n) \/ Shutdown(n) \/ ReleaseNodeLease(n) \/ ProcessEnds(n)

WorkerStep(n, c) ==
    \/ TakeOverFailedNodeWorker(n, c) \/ TakeOverUnresolved(n, c)
    \/ SpawnWorker(n, c) \/ ScheduleRestart(n, c)
    \/ ClaimWorkerLaunch(n, c) \/ ClaimFailed(n, c)
    \/ StartProcess(n, c) \/ ActivateWorkerLaunch(n, c) \/ LaunchFailed(n, c)
    \/ HandleWorkerFailure(n, c) \/ StopWorkerInternal(n, c)

Next ==
    \/ Tick
    \/ \E n \in Node : NodeStep(n)
    \/ \E n \in Node, c \in Connection : WorkerStep(n, c)

Spec == Init /\ [][Next]_vars

-----------------------------------------------------------------------------
Clients(c) == {n \in Node : local[n][c].phase \in Alive}

\* Two WhatsApp clients of one connection are never alive at once: the owner of
\* a row that is taken over "has provably self-fenced" (runNodeTakeover).
OneClient == \A c \in Connection : \A m, n \in Clients(c) : m = n

\* A live client is the launch and the node the registry names, so that a stop
\* or unlink command, routed by the registry, finds it (resolveOwnership).
ClientIsRegistered ==
    \A c \in Connection : \A n \in Clients(c) :
        row[c] = [node |-> n, launch |-> local[n][c].launch]

\* A node loses a connection only when its lease has been expired for the
\* margin: neither a late takeover nor a late claim of a former owner takes it
\* from a node that renews ("node affinity", docs/deployment.md).
AffinityKept ==
    [][\A c \in Connection :
          row[c].node # NoNode /\ row'[c].node \notin {NoNode, row[c].node}
              => lease[row[c].node] + Margin <= now]_vars

Session == INSTANCE SessionOwner WITH holders <- [c \in Connection |-> Clients(c)]

\* The lease protocol implements the promise the sessions rest on.
OneOwnerAtATime == Session!Spec
=============================================================================
