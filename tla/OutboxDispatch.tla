---------------------------- MODULE OutboxDispatch ----------------------------
(***************************************************************************)
(* Which workspace has outbox work: the readiness marker                   *)
(* (apps/api/src/services/outbox-dispatch.service.ts and the trigger of    *)
(* migration 084).                                                         *)
(*                                                                         *)
(* Every write to a tenant's nats_outbox marks its workspace due in the    *)
(* same transaction.  A dispatcher claims a due workspace, works through   *)
(* its outbox, then measures what is left and writes the next due time,    *)
(* unless the marker's generation shows that somebody wrote in between.    *)
(* Losing a wakeup leaves a workspace's commands unsent.                   *)
(*                                                                         *)
(* The outbox rows are abstracted to what the marker depends on: whether a *)
(* row is active and when it is next due (CommandOutbox has the detail).   *)
(* The database clock and the bound on faults are as in CommandOutbox.     *)
(***************************************************************************)
EXTENDS Integers, FiniteSets

CONSTANTS
    Company,       \* workspace ids, as numbers: the recovery cursor orders them
    Job,           \* outbox rows
    Owner,         \* the workspace of each row
    Dispatcher,    \* the API replicas' poll loops
    BatchSize,     \* rows a turn takes (BATCH_SIZE)
    PageSize,      \* workspaces a recovery page visits
    MaxRetries,    \* failed publications per row before the row is final
    RowLease, RetryDelay, ClaimLease, ReleaseDelay, RecoveryInterval,
    MaxTime, MaxFaults, MaxSuspensions   \* bounds

ASSUME OwnerAssumption == Company \subseteq Nat /\ Owner \in [Job -> Company]

ASSUME DelayAssumption ==
    /\ RowLease \in Nat /\ RetryDelay \in Nat /\ ClaimLease \in Nat \ {0}
    /\ ReleaseDelay \in Nat /\ RecoveryInterval \in Nat
    /\ MaxRetries \in Nat /\ MaxTime \in Nat /\ MaxFaults \in Nat /\ MaxSuspensions \in Nat

Null == -1          \* SQL NULL, for times, cursors and measurements
NoToken == "none"
ASSUME TokenAssumption == NoToken \notin Dispatcher

VARIABLES
    now, faults, suspensions,
    active,       \* companies.status = 'active'
    job,          \* the outbox rows
    marked,       \* workspaces with a row in public.outbox_dispatch_ready
    marker,       \* that row
    recovery,     \* public.outbox_dispatch_recovery
    pc,           \* where each dispatcher's turn is
    turn,         \* the workspace it claimed, and what it has read
    held          \* the rows whose claim it holds

clockVars == <<now, faults, suspensions>>
turnVars == <<pc, turn, held>>
markerVars == <<marked, marker>>
vars == <<clockVars, active, job, markerVars, recovery, turnVars>>

Time == Nat \cup {Null}
Marker == [generation : Nat, due : Time, token : Dispatcher \cup {NoToken}, until : Time]
NewMarker(due) == [generation |-> 0, due |-> due, token |-> NoToken, until |-> Null]
Turn == [company : Company \cup {Null}, generation : Nat, due : Time]
NoTurn == [company |-> Null, generation |-> 0, due |-> Null]

\* The type invariant.  A missing marker carries no data, and a marker has a
\* lease exactly while it has a claim token.
TypeOK ==
    /\ now \in Nat /\ faults \in Nat /\ suspensions \in Nat
    /\ active \in SUBSET Company
    /\ job \in [Job -> [state : {"none", "active", "final"}, next : Nat, retries : Nat]]
    /\ marked \in SUBSET Company
    /\ marker \in [Company -> Marker]
    /\ \A w \in Company :
         /\ w \notin marked => marker[w] = NewMarker(Null)
         /\ marker[w].token = NoToken <=> marker[w].until = Null
    /\ recovery \in [cursor : Time, next : Nat]
    /\ pc \in [Dispatcher -> {"idle", "dispatch", "publish", "finish", "measure", "settle"}]
    /\ turn \in [Dispatcher -> Turn]
    /\ \A d \in Dispatcher : pc[d] # "idle" => turn[d].company \in Company
    /\ held \in [Dispatcher -> SUBSET Job]

Init ==
    /\ now = 0 /\ faults = 0 /\ suspensions = 0
    /\ active = Company
    /\ job = [j \in Job |-> [state |-> "none", next |-> 0, retries |-> 0]]
    /\ marked = {}
    /\ marker = [w \in Company |-> NewMarker(Null)]
    /\ recovery = [cursor |-> Null, next |-> 0]
    /\ pc = [d \in Dispatcher |-> "idle"]
    /\ turn = [d \in Dispatcher |-> NoTurn]
    /\ held = [d \in Dispatcher |-> {}]

-----------------------------------------------------------------------------
Active(j) == job[j].state = "active"
HasWork(w) == \E j \in Job : Owner[j] = w /\ Active(j)

\* SQL LEAST ignores NULL; GREATEST is only used on a time.
Least(a, b) == IF a = Null THEN b ELSE IF b = Null \/ a <= b THEN a ELSE b
Greatest(a, b) == IF a >= b THEN a ELSE b

\* Mutant: the trigger marks the workspace due but does not count the write.
MarkedUncounted(m) == [m EXCEPT !.due = Least(@, now)]

\* mark_outbox_dispatch_ready: fires in the transaction of every write to an
\* outbox row.  The generation counts the writes; it is only tested for equality.
Marked(m) ==
    [generation |-> m.generation + 1, due |-> Least(m.due, now),
     token |-> m.token, until |-> m.until]

WriteMarks(w) ==
    /\ marked' = marked \cup {w}
    /\ marker' = [marker EXCEPT ![w] = Marked(@)]

\* The claim of a marker ends and its due time is set.
Unclaimed(m, due) ==
    [generation |-> m.generation, due |-> due, token |-> NoToken, until |-> Null]

\* min(next_attempt_at) over the active rows, NULL when there is none.
IsSummary(w, due) ==
    \/ due = Null /\ ~HasWork(w)
    \/ /\ \E j \in Job : Owner[j] = w /\ Active(j) /\ job[j].next = due
       /\ \A j \in Job : Owner[j] = w /\ Active(j) => due <= job[j].next

\* A turn ends: its local variables and its row claims are gone.
EndTurn(d) ==
    /\ pc' = [pc EXCEPT ![d] = "idle"]
    /\ turn' = [turn EXCEPT ![d] = NoTurn]
    /\ held' = [held EXCEPT ![d] = {}]

-----------------------------------------------------------------------------
\* A request commits a new command.
EnqueueJob(j) ==
    /\ job[j].state = "none"
    /\ job' = [job EXCEPT ![j] = [state |-> "active", next |-> now, retries |-> 0]]
    /\ WriteMarks(Owner[j])
    /\ UNCHANGED <<clockVars, active, recovery, turnVars>>

\* claimReadyWorkspace: the workspace that has been due longest.
Claimable(w) ==
    /\ w \in marked /\ w \in active
    /\ marker[w].due # Null /\ marker[w].due <= now
    /\ marker[w].until <= now      \* NULL included

ClaimReadyWorkspace(d, w) ==
    /\ pc[d] = "idle"
    /\ Claimable(w)
    /\ \A x \in Company : Claimable(x) =>
         \/ marker[w].due < marker[x].due
         \/ marker[w].due = marker[x].due /\ w <= x
    /\ marker' = [marker EXCEPT ![w] =
                    [generation |-> @.generation, due |-> @.due,
                     token |-> d, until |-> now + ClaimLease]]
    /\ turn' = [turn EXCEPT ![d].company = w]
    /\ pc' = [pc EXCEPT ![d] = "dispatch"]
    /\ UNCHANGED <<clockVars, active, job, marked, recovery, held>>

\* dispatchCompany's claim transaction, or its finding nothing to claim.
DueJobs(w) == {j \in Job : Owner[j] = w /\ Active(j) /\ job[j].next <= now}

ClaimRows(d, S) ==
    LET w == turn[d].company
    IN  /\ pc[d] = "dispatch"
        /\ S # {} /\ S \subseteq DueJobs(w)
        /\ Cardinality(S) = BatchSize \/ (Cardinality(S) < BatchSize /\ S = DueJobs(w))
        /\ job' = [j \in Job |->
                     IF j \in S THEN [state |-> "active", next |-> now + RowLease,
                                      retries |-> job[j].retries]
                                ELSE job[j]]
        /\ held' = [e \in Dispatcher |-> IF e = d THEN S ELSE held[e] \ S]
        /\ WriteMarks(w)
        /\ pc' = [pc EXCEPT ![d] = "publish"]
        /\ UNCHANGED <<clockVars, active, recovery, turn>>

NothingDue(d) ==
    /\ pc[d] = "dispatch"
    /\ DueJobs(turn[d].company) = {}
    /\ pc' = [pc EXCEPT ![d] = "finish"]
    /\ UNCHANGED <<clockVars, active, job, markerVars, recovery, turn, held>>

\* One row of the batch is published (or has failed for good), is put back for
\* a retry, or stays leased because its outcome could not be written.
RowFinal(d, j) ==
    /\ pc[d] = "publish" /\ j \in held[d]
    /\ job' = [job EXCEPT ![j].state = "final"]
    /\ held' = [held EXCEPT ![d] = @ \ {j}]
    /\ WriteMarks(Owner[j])
    /\ UNCHANGED <<clockVars, active, recovery, pc, turn>>

RowRetried(d, j) ==
    /\ pc[d] = "publish" /\ j \in held[d]
    /\ job[j].retries < MaxRetries
    /\ job' = [job EXCEPT ![j] =
                 [state |-> "active", next |-> now + RetryDelay, retries |-> @.retries + 1]]
    /\ held' = [held EXCEPT ![d] = @ \ {j}]
    /\ WriteMarks(Owner[j])
    /\ UNCHANGED <<clockVars, active, recovery, pc, turn>>

RowLeftLeased(d, j) ==
    /\ pc[d] = "publish" /\ j \in held[d]
    /\ faults < MaxFaults /\ faults' = faults + 1
    /\ held' = [held EXCEPT ![d] = @ \ {j}]
    /\ UNCHANGED <<now, suspensions, active, job, markerVars, recovery, pc, turn>>

RowsDone(d) ==
    /\ pc[d] = "publish" /\ held[d] = {}
    /\ pc' = [pc EXCEPT ![d] = "finish"]
    /\ UNCHANGED <<clockVars, active, job, markerVars, recovery, turn, held>>

(***************************************************************************)
(* finishWorkspaceDispatch: generation first, then the summary, then the   *)
(* conditional write of settleWorkspaceDispatch.  Three statements, with   *)
(* other transactions in between.                                          *)
(***************************************************************************)
\* Mutant: a turn ends the claim of its workspace without checking whose it is.
HoldsAnyToken(d) == turn[d].company \in marked

HoldsToken(d) == marker[turn[d].company].token = d

ReadGeneration(d) ==
    /\ pc[d] = "finish"
    /\ IF HoldsToken(d)
         THEN /\ turn' = [turn EXCEPT ![d].generation = marker[turn[d].company].generation]
              /\ pc' = [pc EXCEPT ![d] = "measure"]
              /\ held' = held
         ELSE EndTurn(d)
    /\ UNCHANGED <<clockVars, active, job, markerVars, recovery>>

MeasureWork(d, due) ==
    /\ pc[d] = "measure"
    /\ IsSummary(turn[d].company, due)
    /\ turn' = [turn EXCEPT ![d].due = due]
    /\ pc' = [pc EXCEPT ![d] = "settle"]
    /\ UNCHANGED <<clockVars, active, job, markerVars, recovery, held>>

SettledDue(m, t) ==
    IF m.generation # t.generation THEN now
    ELSE IF t.due = Null THEN Null ELSE Greatest(t.due, now)

SettleWorkspaceDispatch(d) ==
    LET w == turn[d].company
    IN  /\ pc[d] = "settle"
        /\ marker' = IF HoldsToken(d)
                       THEN [marker EXCEPT ![w] = Unclaimed(@, SettledDue(@, turn[d]))]
                       ELSE marker
        /\ EndTurn(d)
        /\ UNCHANGED <<clockVars, active, job, marked, recovery>>

\* An exception in the turn: releaseWorkspaceDispatch.
ReleaseWorkspaceDispatch(d) ==
    LET w == turn[d].company
    IN  /\ pc[d] # "idle"
        /\ faults < MaxFaults /\ faults' = faults + 1
        /\ marker' = IF HoldsToken(d)
                       THEN [marker EXCEPT ![w] = Unclaimed(@, now + ReleaseDelay)]
                       ELSE marker
        /\ EndTurn(d)
        /\ UNCHANGED <<now, suspensions, active, job, marked, recovery>>

\* The replica dies: the marker stays claimed until its lease runs out.
Crash(d) ==
    /\ pc[d] # "idle"
    /\ faults < MaxFaults /\ faults' = faults + 1
    /\ EndTurn(d)
    /\ UNCHANGED <<now, suspensions, active, job, markerVars, recovery>>

-----------------------------------------------------------------------------
(***************************************************************************)
(* recoverOutboxDispatch: one page of active workspaces per interval, in   *)
(* one transaction that also removes the markers of inactive workspaces.   *)
(***************************************************************************)
\* Mutant: the durable cursor is not used, every page is the first one.
IsFirstPage(P) ==
    /\ P \subseteq active
    /\ \A w \in P, x \in active \ P : w < x
    /\ Cardinality(P) = PageSize \/ (Cardinality(P) < PageSize /\ P = active)

IsPage(P) ==
    LET rest == {w \in active : recovery.cursor = Null \/ w > recovery.cursor}
    IN  /\ P \subseteq rest
        /\ \A w \in P, x \in rest \ P : w < x
        /\ Cardinality(P) = PageSize \/ (Cardinality(P) < PageSize /\ P = rest)

Recovered(m, due) ==
    IF due = Null THEN m
    ELSE [generation |-> m.generation + 1, due |-> Least(m.due, due),
          token |-> m.token, until |-> m.until]

IsCursor(P, c) ==
    IF Cardinality(P) = PageSize THEN c \in P /\ \A x \in P : x <= c ELSE c = Null

RecoverOutboxDispatch(P, summary, c) ==
    /\ recovery.next <= now
    /\ IsPage(P) /\ IsCursor(P, c)
    /\ \A w \in P : IsSummary(w, summary[w])
    /\ marked' = (marked \cap active) \cup {w \in P : HasWork(w)}
    /\ marker' = [w \in Company |->
                    IF w \in P
                      THEN IF w \in marked THEN Recovered(marker[w], summary[w])
                                           ELSE NewMarker(summary[w])
                      ELSE IF w \in active THEN marker[w] ELSE NewMarker(Null)]
    /\ recovery' = [cursor |-> c, next |-> now + RecoveryInterval]
    /\ UNCHANGED <<clockVars, active, job, turnVars>>

Recover ==
    \E P \in SUBSET Company : \E c \in P \cup {Null} :
      \E summary \in [P -> {job[j].next : j \in Job} \cup {Null}] :
        RecoverOutboxDispatch(P, summary, c)

\* A workspace is suspended and comes back (companies.status).
Suspend(w) ==
    /\ suspensions < MaxSuspensions /\ suspensions' = suspensions + 1
    /\ w \in active /\ active' = active \ {w}
    /\ UNCHANGED <<now, faults, job, markerVars, recovery, turnVars>>

Reactivate(w) ==
    /\ w \notin active /\ active' = active \cup {w}
    /\ UNCHANGED <<clockVars, job, markerVars, recovery, turnVars>>

\* Everybody waits for a deadline, and there is work to wait for.
Quiescent ==
    /\ \A d \in Dispatcher : pc[d] = "idle"
    /\ \A w \in Company : ~Claimable(w)
    /\ recovery.next > now
    /\ \E w \in active : HasWork(w)

Tick ==
    /\ now < MaxTime /\ now' = now + 1
    /\ IF Quiescent THEN faults' = faults
                    ELSE faults < MaxFaults /\ faults' = faults + 1
    /\ UNCHANGED <<suspensions, active, job, markerVars, recovery, turnVars>>

-----------------------------------------------------------------------------
Work(d) ==
    \/ \E S \in SUBSET Job : ClaimRows(d, S)
    \/ NothingDue(d) \/ RowsDone(d)
    \/ \E j \in Job : RowFinal(d, j) \/ RowRetried(d, j) \/ RowLeftLeased(d, j)
    \/ ReadGeneration(d)
    \/ \E due \in {job[j].next : j \in Job} \cup {Null} : MeasureWork(d, due)
    \/ SettleWorkspaceDispatch(d)

Next ==
    \/ \E j \in Job : EnqueueJob(j)
    \/ \E d \in Dispatcher :
         \/ \E w \in Company : ClaimReadyWorkspace(d, w)
         \/ Work(d) \/ ReleaseWorkspaceDispatch(d) \/ Crash(d)
    \/ Recover
    \/ \E w \in Company : Suspend(w) \/ Reactivate(w)
    \/ Tick

\* The poll loops reschedule themselves, their awaits settle, recovery is part
\* of every poll, and time passes.
Fairness ==
    /\ \A d \in Dispatcher :
         /\ WF_vars(\E w \in Company : ClaimReadyWorkspace(d, w))
         /\ WF_vars(Work(d))
    /\ WF_vars(Recover) /\ WF_vars(Tick)

Spec == Init /\ [][Next]_vars /\ Fairness

-----------------------------------------------------------------------------
(***************************************************************************)
(* Properties                                                              *)
(***************************************************************************)

\* A workspace with work left is marked, and due in good time: no later than its
\* first row, give or take the delay of a release.  No write can fall between a
\* dispatcher's measurement and its settling of the marker.  Only the scan that
\* meets a suspended workspace takes its mark away, until a later scan.
NoLostWakeup ==
    \A j \in Job :
        LET m == marker[Owner[j]]
        IN  Active(j) /\ (Owner[j] \in marked \/ suspensions = 0) =>
              m.due # Null /\ m.due <= Greatest(job[j].next, now) + ReleaseDelay

\* The claim of a replica that took over an expired workspace claim is only
\* ended by that replica: a claim somebody else made is never cleared.
ClaimsEndedByOwner ==
    [][\A w \in Company : \A d \in Dispatcher :
         /\ marker[w].token = d /\ marker[w].until > now
         /\ w \in marked' /\ marker'[w].token # d
         => pc[d] # "idle" /\ pc'[d] = "idle" /\ turn[d].company = w]_vars

\* Every row of an active workspace is eventually final, unless the workspace
\* is suspended: whatever the marker lost, the recovery scan finds.
WorkIsDone ==
    \A j \in Job : Active(j) ~> (~Active(j) \/ Owner[j] \notin active)
=============================================================================
