------------------------------ MODULE Broadcast ------------------------------
(***************************************************************************)
(* Scheduled messages and broadcasts (apps/api/src/services/               *)
(* scheduled-message.service.ts and bulk-job.service.ts): every API        *)
(* replica polls scheduled_messages, claims due rows under a lease, sends  *)
(* each through a fenced transaction and closes a broadcast's job once no  *)
(* recipient row is pending, while request handlers reschedule and cancel. *)
(*                                                                         *)
(* Times are abstracted to what the code asks of them: whether a row's     *)
(* next_attempt_at has passed, and whether the connection's pacing and     *)
(* daily quota let it send. Both count from the start of the cycle, so     *)
(* they may pass at any later step.                                        *)
(* One connection carries every contact, and every job has media.          *)
(***************************************************************************)
EXTENDS Naturals

CONSTANTS
    Leaf,        \* rows of scheduled_messages
    NoLeaf,
    Job,         \* broadcasts
    NoJob,
    JobOf,       \* a row's bulk_job_id
    Object,      \* stored media objects
    ObjectOf,    \* a job's media_url, which its rows copy
    Replica,     \* dispatchers
    NoReplica,
    Handler,     \* requests in progress
    MaxAttempts,
    MaxFaults,   \* bound of crashes, stalls and transient errors
    MaxMoves     \* bound of what users and contacts change

ASSUME JobOfAssumption == JobOf \in [Leaf -> Job \cup {NoJob}]
ASSUME ObjectOfAssumption == ObjectOf \in [Job -> Object]
ASSUME NoneAssumption ==
    NoJob \notin Job /\ NoLeaf \notin Leaf /\ NoReplica \notin Replica
ASSUME ActorAssumption == Replica \cap Handler = {}
ASSUME LimitAssumption ==
    MaxAttempts \in Nat /\ MaxFaults \in Nat /\ MaxMoves \in Nat

VARIABLES
    leaf,      \* status, whether next_attempt_at has passed, attempts, claimer
    sends,     \* messages committed to the command outbox for the row
    contact,   \* the row's contact: deleted or without the connection is unlinked
    job,       \* status, whether completed_at is set, result notices sent
    media,     \* the media object is still stored
    task,      \* what a replica or a handler is doing
    eligible,  \* bulk_connection_budgets lets the connection send
    online,    \* the connection is connected
    faults,
    crashed,   \* an actor stopped, or failed to finalize, half-way
    moves

vars == <<leaf, sends, contact, job, media, task, eligible, online,
          faults, crashed, moves>>

Actor == Replica \cup Handler
LeavesOf(j) == {l \in Leaf : JobOf[l] = j}
Plain == {l \in Leaf : JobOf[l] = NoJob}
Sharing(j) == {i \in Job : ObjectOf[i] = ObjectOf[j]}
Carriers(j) == UNION {LeavesOf(i) : i \in Sharing(j)}

Pending == {"scheduled", "processing"}
Settled == {"sent", "failed", "canceled", "skipped"}
Open == {"scheduled", "running"}
Completed == {"completed", "completed_with_errors"}
Linked == {"fit", "blocked"}
Cleanup == {"messages", "schedules", "siblings", "delete"}
Phases == {"idle", "rows", "sweep", "pick", "held", "examine", "settle",
           "close", "progress", "stamp", "notify", "marked", "counted"} \cup Cleanup
Verdicts == {"none", "send", "skip", "cancel", "permanent", "retry", "busy"}
            \cup Open \cup Completed \cup {"canceled"}

Leaves == [status : {"absent"} \cup Pending \cup Settled,
           due : BOOLEAN, tries : Nat, by : Replica \cup {NoReplica}]
Jobs == [status : {"absent", "canceled"} \cup Open \cup Completed,
         closed : BOOLEAN, notices : Nat]
Tasks == [phase : Phases, leaf : Leaf \cup {NoLeaf}, job : Job \cup {NoJob},
          todo : SUBSET Leaf, jobs : SUBSET Job, verdict : Verdicts]

\* A row waiting to be claimed, and one with an outcome, whose attempts no
\* longer count.
Waiting(tries) ==
    [status |-> "scheduled", due |-> FALSE, tries |-> tries, by |-> NoReplica]
Outcome(s) == [status |-> s, due |-> FALSE, tries |-> 0, by |-> NoReplica]
Idle == [phase |-> "idle", leaf |-> NoLeaf, job |-> NoJob,
         todo |-> {}, jobs |-> {}, verdict |-> "none"]
Go(w, t) == task' = [task EXCEPT ![w] = t]

TypeOK ==
    /\ leaf \in [Leaf -> Leaves]
    /\ sends \in [Leaf -> Nat]
    /\ contact \in [Leaf -> Linked \cup {"unlinked"}]
    /\ job \in [Job -> Jobs]
    /\ media \in [Object -> BOOLEAN]
    /\ task \in [Actor -> Tasks]
    /\ eligible \in BOOLEAN /\ online \in BOOLEAN /\ crashed \in BOOLEAN
    /\ faults \in Nat /\ moves \in Nat

Init ==
    /\ leaf = [l \in Leaf |-> Outcome("absent")]
    /\ sends = [l \in Leaf |-> 0]
    /\ contact = [l \in Leaf |-> "fit"]
    /\ job = [j \in Job |-> [status |-> "absent", closed |-> FALSE, notices |-> 0]]
    /\ media = [o \in Object |-> TRUE]
    /\ task = [w \in Actor |-> Idle]
    /\ eligible = TRUE /\ online = TRUE
    /\ faults = 0 /\ crashed = FALSE
    /\ moves = 0

\* What an uncommitted cancelBulkJob has locked.
Canceling == {w \in Handler : task[w].phase \in {"marked", "counted"}}
JobLocked(j) == \E w \in Canceling : task[w].job = j
LeafLocked(l) == \E w \in Canceling : l \in task[w].todo

\* Mutant: a claim whose dispatcher died is never taken over.
DueScheduled(l) == leaf[l].status = "scheduled" /\ leaf[l].due /\ ~LeafLocked(l)

Due(l) == leaf[l].status \in Pending /\ leaf[l].due /\ ~LeafLocked(l)

-----------------------------------------------------------------------------
(* Finalization and media cleanup, by replicas and handlers.               *)

\* What the caller of finalizeBulkJobIfComplete goes on with: the sweep's next
\* job, the claim after the sweep, or nothing.
Resume(w, jobs) ==
    IF jobs # {} THEN [Idle EXCEPT !.phase = "close", !.jobs = jobs]
    ELSE IF w \in Replica /\ task[w].leaf = NoLeaf THEN [Idle EXCEPT !.phase = "pick"]
    ELSE Idle
Return(w) == Go(w, Resume(w, task[w].jobs))

FinalizeBulkJob(w) ==
    /\ task[w].phase = "close"
    /\ \E j \in task[w].jobs :
          IF job[j].status \in Completed
          THEN Go(w, Resume(w, task[w].jobs \ {j}))
          ELSE Go(w, [task[w] EXCEPT !.phase = "progress", !.job = j,
                                     !.jobs = @ \ {j}, !.verdict = job[j].status])
    /\ UNCHANGED <<leaf, sends, contact, job, media, eligible, online,
                   faults, crashed, moves>>

\* Mutant: rows being sent are not counted.
DrainedOfWaiting(j) == \A l \in LeavesOf(j) : leaf[l].status # "scheduled"

Drained(j) == \A l \in LeavesOf(j) : leaf[l].status \notin Pending

DeriveBulkJobOutcome(j) ==
    IF \E l \in LeavesOf(j) : leaf[l].status \in {"failed", "skipped"}
    THEN "completed_with_errors" ELSE "completed"

GetBulkJobProgress(w) ==
    LET j == task[w].job IN
    /\ task[w].phase = "progress"
    /\ IF Drained(j)
       THEN Go(w, [task[w] EXCEPT !.phase = "stamp",
                                  !.verdict = IF @ = "canceled" THEN @
                                              ELSE DeriveBulkJobOutcome(j)])
       ELSE Return(w)
    /\ UNCHANGED <<leaf, sends, contact, job, media, eligible, online,
                   faults, crashed, moves>>

\* Mutant: the UPDATE is not guarded by the job's status.
StampUnguarded(w) ==
    LET j == task[w].job IN
    /\ task[w].phase = "stamp"
    /\ ~JobLocked(j)
    /\ job' = [job EXCEPT ![j].status = task[w].verdict, ![j].closed = TRUE]
    /\ Go(w, [task[w] EXCEPT !.phase = "messages"])
    /\ UNCHANGED <<leaf, sends, contact, media, eligible, online,
                   faults, crashed, moves>>

\* A canceled job only gains completed_at; the guarded UPDATE of another lets
\* one caller through.
StampBulkJob(w) ==
    LET j == task[w].job
        v == task[w].verdict IN
    /\ task[w].phase = "stamp"
    /\ ~JobLocked(j)
    /\ IF v = "canceled" \/ job[j].status \in Open
       THEN /\ job' = [job EXCEPT ![j].status = IF v = "canceled" THEN @ ELSE v,
                                  ![j].closed = TRUE]
            /\ Go(w, [task[w] EXCEPT !.phase = "messages"])
       ELSE Return(w) /\ UNCHANGED job
    /\ UNCHANGED <<leaf, sends, contact, media, eligible, online,
                   faults, crashed, moves>>

\* cleanupBulkJobMediaObject is over; whoever closed the job goes on to the
\* audit log and the notice.
Cleaned(w) ==
    IF task[w].verdict \in Completed THEN Go(w, [task[w] EXCEPT !.phase = "notify"])
                                     ELSE Return(w)

\* It asks, one query after the other, for a message with the object, a row yet to
\* be sent with it and another live job with it. Each of them keeps the object.
AskFor(w, phase, found, next) ==
    /\ task[w].phase = phase
    /\ IF found THEN Cleaned(w) ELSE Go(w, [task[w] EXCEPT !.phase = next])
    /\ UNCHANGED <<leaf, sends, contact, job, media, eligible, online,
                   faults, crashed, moves>>

ReferencedByMessage(w) ==
    AskFor(w, "messages", \E l \in Carriers(task[w].job) : leaf[l].status = "sent", "schedules")
ReferencedByPendingSchedule(w) ==
    AskFor(w, "schedules", \E l \in Carriers(task[w].job) : leaf[l].status \in Pending, "siblings")
ReferencedBySiblingJob(w) ==
    AskFor(w, "siblings",
           \E i \in Sharing(task[w].job) \ {task[w].job} : job[i].status \in Open, "delete")

DeleteMedia(w) ==
    /\ task[w].phase = "delete"
    /\ media' = [media EXCEPT ![ObjectOf[task[w].job]] = FALSE]
    /\ Cleaned(w)
    /\ UNCHANGED <<leaf, sends, contact, job, eligible, online,
                   faults, crashed, moves>>

\* An error of the cleanup is logged and no more.
CleanupFails(w) ==
    /\ task[w].phase \in Cleanup
    /\ faults < MaxFaults
    /\ faults' = faults + 1
    /\ Cleaned(w)
    /\ UNCHANGED <<leaf, sends, contact, job, media, eligible, online, crashed, moves>>

\* "Broadcast finished".
NotifyResult(w) ==
    /\ task[w].phase = "notify"
    /\ job' = [job EXCEPT ![task[w].job].notices = @ + 1]
    /\ Return(w)
    /\ UNCHANGED <<leaf, sends, contact, media, eligible, online,
                   faults, crashed, moves>>

\* Another error of finalizeBulkJobIfComplete is logged by the dispatcher, which goes
\* on, and fails a request.
FinalizeFails(w) ==
    /\ faults < MaxFaults
    /\ faults' = faults + 1
    /\ crashed' = TRUE
    /\ \/ /\ task[w].phase = "close"
          /\ \E j \in task[w].jobs : Go(w, Resume(w, task[w].jobs \ {j}))
       \/ task[w].phase \in {"progress", "stamp", "notify"} /\ Return(w)
    /\ UNCHANGED <<leaf, sends, contact, job, media, eligible, online, moves>>

-----------------------------------------------------------------------------
(* One polling cycle of a replica.                                         *)

Claimed(l, d) == [leaf[l] EXCEPT !.status = "processing", !.due = FALSE, !.by = d]

\* dispatchCompanyScheduledMessages claims every due row that is not of a job.
ClaimScheduledMessages(d) ==
    LET rows == {l \in Plain : Due(l)} IN
    /\ task[d].phase = "idle"
    /\ leaf' = [l \in Leaf |-> IF l \in rows THEN Claimed(l, d) ELSE leaf[l]]
    /\ Go(d, [Idle EXCEPT !.phase = "rows", !.todo = rows])
    /\ UNCHANGED <<sends, contact, job, media, eligible, online,
                   faults, crashed, moves>>

\* Recipients who lost their contact or its connection. The sweep is one UPDATE:
\* its subquery finds them in the statement's snapshot ...
FindOrphanedBulkLeaves(d) ==
    LET orphans == {l \in Leaf \ Plain : leaf[l].status \in Pending /\ leaf[l].due
                                          /\ contact[l] \notin Linked} IN
    /\ task[d].phase = "rows"
    /\ task[d].todo = {}
    /\ Go(d, IF orphans = {} THEN Resume(d, {})
             ELSE [Idle EXCEPT !.phase = "sweep", !.todo = orphans])
    /\ UNCHANGED <<leaf, sends, contact, job, media, eligible, online,
                   faults, crashed, moves>>

\* Mutant: the jobs of swept rows are not finalized.
SweepWithoutFinalize(d) ==
    LET rows == {l \in task[d].todo : leaf[l].status \in Pending} IN
    /\ task[d].phase = "sweep"
    /\ \A l \in task[d].todo : ~LeafLocked(l)
    /\ leaf' = [l \in Leaf |-> IF l \in rows THEN Outcome("skipped") ELSE leaf[l]]
    /\ Go(d, Resume(d, {}))
    /\ UNCHANGED <<sends, contact, job, media, eligible, online,
                   faults, crashed, moves>>

\* ... and, once it has a row's lock, checks only the status again (READ COMMITTED):
\* a row that was claimed in between is swept all the same.
SweepOrphanedBulkLeaves(d) ==
    LET rows == {l \in task[d].todo : leaf[l].status \in Pending} IN
    /\ task[d].phase = "sweep"
    /\ \A l \in task[d].todo : ~LeafLocked(l)
    /\ leaf' = [l \in Leaf |-> IF l \in rows THEN Outcome("skipped") ELSE leaf[l]]
    /\ Go(d, Resume(d, {JobOf[l] : l \in rows}))
    /\ UNCHANGED <<sends, contact, job, media, eligible, online,
                   faults, crashed, moves>>

Claimable == {l \in Leaf \ Plain : Due(l) /\ contact[l] \in Linked}
MayClaim == eligible /\ online

\* The claim and the budget commit together.
ClaimBulkLeaf(d) ==
    /\ task[d].phase = "pick"
    /\ MayClaim
    /\ \E l \in Claimable :
          /\ leaf' = [leaf EXCEPT ![l] = Claimed(l, d)]
          /\ Go(d, [Idle EXCEPT !.phase = "held", !.leaf = l])
    /\ eligible' = FALSE
    /\ UNCHANGED <<sends, contact, job, media, online, faults, crashed, moves>>

\* No candidate, or nothing to claim.
EndCycle(d) ==
    /\ task[d].phase = "pick"
    /\ ~MayClaim \/ Claimable = {}
    /\ Go(d, Idle)
    /\ UNCHANGED <<leaf, sends, contact, job, media, eligible, online,
                   faults, crashed, moves>>

MarkBulkJobRunning(d) ==
    LET j == JobOf[task[d].leaf] IN
    /\ task[d].phase = "held"
    /\ ~JobLocked(j)
    /\ job' = IF job[j].status = "scheduled"
              THEN [job EXCEPT ![j].status = "running"] ELSE job
    /\ Go(d, [task[d] EXCEPT !.phase = "examine"])
    /\ UNCHANGED <<leaf, sends, contact, media, eligible, online,
                   faults, crashed, moves>>

\* What sendScheduledMessage may find before its transaction, and the checks at
\* the transaction's start, which other parts of the system decide (access to the
\* contact, eligibility of an automatic reply). A recipient whose contact is gone
\* is skipped, and so is one who left the connection the job is for; without one,
\* and for a plain row, another channel may reach the contact.
BulkVerdicts(l) ==
    IF contact[l] = "blocked" THEN {"skip"}
    ELSE IF contact[l] = "unlinked" THEN {"skip", "send", "permanent"}
    ELSE IF ~online THEN {"retry"}
    ELSE IF ~media[ObjectOf[JobOf[l]]] THEN {"permanent"}
    ELSE {"send"}
PlainVerdicts(l) ==
    IF contact[l] = "unlinked" THEN {"send", "permanent"}
    ELSE IF ~online THEN {"retry"}
    ELSE IF contact[l] = "blocked" THEN {"permanent", "cancel"}
    ELSE {"send", "permanent", "cancel"}

ExamineBulk(d) ==
    /\ task[d].phase = "examine"
    /\ \E v \in BulkVerdicts(task[d].leaf) :
          Go(d, [task[d] EXCEPT !.phase = "settle", !.verdict = v])
    /\ UNCHANGED <<leaf, sends, contact, job, media, eligible, online,
                   faults, crashed, moves>>

ExaminePlain(d) ==
    /\ task[d].phase = "rows"
    /\ \E l \in task[d].todo : \E v \in PlainVerdicts(l) :
          Go(d, [task[d] EXCEPT !.phase = "settle", !.leaf = l,
                                !.todo = @ \ {l}, !.verdict = v])
    /\ UNCHANGED <<leaf, sends, contact, job, media, eligible, online,
                   faults, crashed, moves>>

\* Any error before the commit is an attempt to be made again.
TransientError(d) ==
    /\ task[d].phase = "settle"
    /\ task[d].verdict = "send"
    /\ faults < MaxFaults
    /\ faults' = faults + 1
    /\ Go(d, [task[d] EXCEPT !.verdict = "retry"])
    /\ UNCHANGED <<leaf, sends, contact, job, media, eligible, online, crashed, moves>>

\* Mutants: no fence, and a fence without the token.
OwnsAlways(d, l) == TRUE
OwnsByStatus(d, l) == leaf[l].status = "processing"

\* The row's next_attempt_at still holds this claim's token.
Owns(d, l) == leaf[l].status = "processing" /\ leaf[l].by = d

\* markDispatched, recordDispatchFailure, recordBulkSkip and the cancellation
\* of an automatic reply.
AfterVerdict(l, v) ==
    LET n == leaf[l].tries + 1 IN
    CASE v = "send" -> Outcome("sent")
      [] v = "skip" -> Outcome("skipped")
      [] v = "cancel" -> Outcome("canceled")
      [] v = "permanent" \/ (v = "retry" /\ n >= MaxAttempts) -> Outcome("failed")
      [] OTHER -> Waiting(n)

\* Every outcome is fenced; a send that is not the claimer's is rolled back.
SettleLeaf(d) ==
    LET l == task[d].leaf
        v == task[d].verdict IN
    /\ task[d].phase = "settle"
    /\ IF Owns(d, l)
       THEN /\ leaf' = [leaf EXCEPT ![l] = AfterVerdict(l, v)]
            /\ sends' = IF v = "send" THEN [sends EXCEPT ![l] = @ + 1] ELSE sends
       ELSE UNCHANGED <<leaf, sends>>
    /\ Go(d, IF l \in Plain
             THEN [Idle EXCEPT !.phase = "rows", !.todo = task[d].todo]
             ELSE [Idle EXCEPT !.phase = "close", !.leaf = l, !.jobs = {JobOf[l]}])
    /\ UNCHANGED <<contact, job, media, eligible, online, faults, crashed, moves>>

-----------------------------------------------------------------------------
(* Requests.                                                               *)

ScheduleMessage(l) ==
    /\ l \in Plain
    /\ leaf[l].status = "absent"
    /\ contact[l] = "fit"
    /\ leaf' = [leaf EXCEPT ![l] = Waiting(0)]
    /\ UNCHANGED <<sends, contact, job, media, task, eligible, online,
                   faults, crashed, moves>>

\* The job and all its rows commit together; recipients who are not eligible
\* are skipped from the start. The media object has been looked at before.
CreateBulkJob(j) ==
    /\ job[j].status = "absent"
    /\ media[ObjectOf[j]]
    /\ \E l \in LeavesOf(j) : contact[l] = "fit"
    /\ job' = [job EXCEPT ![j].status = "scheduled"]
    /\ leaf' = [l \in Leaf |->
                   IF l \in LeavesOf(j)
                   THEN IF contact[l] = "fit" THEN Waiting(0) ELSE Outcome("skipped")
                   ELSE leaf[l]]
    /\ UNCHANGED <<sends, contact, media, task, eligible, online,
                   faults, crashed, moves>>

\* Refused once any row has been claimed or has an outcome.
RescheduleBulkJob(j) ==
    /\ moves < MaxMoves
    /\ job[j].status = "scheduled" /\ ~JobLocked(j)
    /\ \A l \in LeavesOf(j) : leaf[l].status \in {"scheduled", "skipped"}
    /\ leaf' = [l \in Leaf |-> IF l \in LeavesOf(j) THEN [leaf[l] EXCEPT !.due = FALSE]
                                                    ELSE leaf[l]]
    /\ moves' = moves + 1
    /\ UNCHANGED <<sends, contact, job, media, task, eligible, online, faults, crashed>>

Cancelable == {"scheduled", "failed"}

\* DELETE /scheduled/:id; canceling a recipient may be the job's last word.
CancelScheduledMessage(h, l) ==
    /\ task[h].phase = "idle"
    /\ moves < MaxMoves
    /\ moves' = moves + 1
    /\ leaf[l].status \in Cancelable /\ ~LeafLocked(l)
    /\ leaf' = [leaf EXCEPT ![l] = Outcome("canceled")]
    /\ Go(h, IF l \in Plain THEN Idle
             ELSE [Idle EXCEPT !.phase = "close", !.leaf = l, !.jobs = {JobOf[l]}])
    /\ UNCHANGED <<sends, contact, job, media, eligible, online,
                   faults, crashed>>

\* cancelBulkJob is one READ COMMITTED transaction: the compare-and-set of the
\* job and the UPDATE of its unsent rows, seen by nobody yet, ...
CancelBulkJob(h, j) ==
    /\ task[h].phase = "idle"
    /\ moves < MaxMoves
    /\ moves' = moves + 1
    /\ job[j].status \in Open /\ ~JobLocked(j)
    /\ Go(h, [Idle EXCEPT !.phase = "marked", !.job = j,
                          !.todo = {l \in LeavesOf(j) : leaf[l].status \in Cancelable}])
    /\ UNCHANGED <<leaf, sends, contact, job, media, eligible, online,
                   faults, crashed>>

\* ... the count of the rows a dispatcher still holds, ...
CountProcessing(h) ==
    /\ task[h].phase = "marked"
    /\ Go(h, [task[h] EXCEPT !.phase = "counted",
                !.verdict = IF \E l \in LeavesOf(task[h].job) : leaf[l].status = "processing"
                            THEN "busy" ELSE "none"])
    /\ UNCHANGED <<leaf, sends, contact, job, media, eligible, online,
                   faults, crashed, moves>>

\* ... and the commit, with completed_at if that count was zero.
CommitCancel(h) ==
    LET t == task[h] IN
    /\ t.phase = "counted"
    /\ job' = [job EXCEPT ![t.job].status = "canceled",
                          ![t.job].closed = t.verdict # "busy"]
    /\ leaf' = [l \in Leaf |-> IF l \in t.todo THEN Outcome("canceled")
                                               ELSE leaf[l]]
    /\ Go(h, IF t.verdict = "busy" THEN Idle
             ELSE [Idle EXCEPT !.phase = "messages", !.job = t.job])
    /\ UNCHANGED <<sends, contact, media, eligible, online, faults, crashed, moves>>

-----------------------------------------------------------------------------
(* The world: time, contacts, the connection and faults.                   *)

Holding == {"held", "examine", "settle", "rows"}
Working(d, l) ==
    task[d].phase \in Holding /\ (task[d].leaf = l \/ l \in task[d].todo)

\* A row comes due, and the lease of a claim nobody works on runs out.
NextAttemptComes(l) ==
    /\ leaf[l].status \in Pending /\ ~leaf[l].due
    /\ leaf[l].status = "processing" => ~Working(leaf[l].by, l)
    /\ leaf' = [leaf EXCEPT ![l].due = TRUE]
    /\ UNCHANGED <<sends, contact, job, media, task, eligible, online,
                   faults, crashed, moves>>

\* A claimer that stalls outlives its lease.
LeaseLapses(l) ==
    /\ leaf[l].status = "processing" /\ ~leaf[l].due
    /\ Working(leaf[l].by, l)
    /\ faults < MaxFaults
    /\ faults' = faults + 1
    /\ leaf' = [leaf EXCEPT ![l].due = TRUE]
    /\ UNCHANGED <<sends, contact, job, media, task, eligible, online, crashed, moves>>

\* The process dies, or an error ends the cycle: an open transaction is rolled
\* back and what was claimed waits for its lease.
Crash(w) ==
    /\ task[w] # Idle
    /\ faults < MaxFaults
    /\ faults' = faults + 1
    /\ crashed' = TRUE
    /\ Go(w, Idle)
    /\ UNCHANGED <<leaf, sends, contact, job, media, eligible, online, moves>>

ContactChanges(l) ==
    /\ contact[l] = "fit"
    /\ moves < MaxMoves
    /\ \E s \in {"blocked", "unlinked"} : contact' = [contact EXCEPT ![l] = s]
    /\ moves' = moves + 1
    /\ UNCHANGED <<leaf, sends, job, media, task, eligible, online, faults, crashed>>

ContactReturns(l) ==
    /\ contact[l] # "fit"
    /\ contact' = [contact EXCEPT ![l] = "fit"]
    /\ UNCHANGED <<leaf, sends, job, media, task, eligible, online, faults, crashed, moves>>

Disconnect ==
    /\ online /\ moves < MaxMoves
    /\ online' = FALSE
    /\ moves' = moves + 1
    /\ UNCHANGED <<leaf, sends, contact, job, media, task, eligible, faults, crashed>>

Reconnect ==
    /\ ~online
    /\ online' = TRUE
    /\ UNCHANGED <<leaf, sends, contact, job, media, task, eligible,
                   faults, crashed, moves>>

\* next_eligible_at passes, and a new day resets the quota.
BecomesEligible ==
    /\ ~eligible
    /\ eligible' = TRUE
    /\ UNCHANGED <<leaf, sends, contact, job, media, task, online,
                   faults, crashed, moves>>

-----------------------------------------------------------------------------
Finalize(w) ==
    FinalizeBulkJob(w) \/ GetBulkJobProgress(w) \/ StampBulkJob(w)
    \/ ReferencedByMessage(w) \/ ReferencedByPendingSchedule(w)
    \/ ReferencedBySiblingJob(w) \/ DeleteMedia(w) \/ NotifyResult(w)

Poll(d) ==
    ClaimScheduledMessages(d) \/ FindOrphanedBulkLeaves(d) \/ SweepOrphanedBulkLeaves(d)
    \/ ClaimBulkLeaf(d) \/ EndCycle(d) \/ MarkBulkJobRunning(d) \/ ExamineBulk(d) \/ ExaminePlain(d)
    \/ SettleLeaf(d) \/ Finalize(d)

Answer(h) == CountProcessing(h) \/ CommitCancel(h) \/ Finalize(h)

\* Time goes on: rows come due, leases and pacing run out, and a connection
\* comes back.
TimePasses == (\E l \in Leaf : NextAttemptComes(l)) \/ BecomesEligible \/ Reconnect

Next ==
    \/ \E d \in Replica : Poll(d) \/ TransientError(d)
    \/ \E h \in Handler : \/ Answer(h)
                          \/ \E l \in Leaf : CancelScheduledMessage(h, l)
                          \/ \E j \in Job : CancelBulkJob(h, j)
    \/ \E l \in Leaf : \/ ScheduleMessage(l) \/ LeaseLapses(l)
                       \/ ContactChanges(l) \/ ContactReturns(l)
    \/ \E j \in Job : CreateBulkJob(j) \/ RescheduleBulkJob(j)
    \/ \E w \in Actor : Crash(w) \/ CleanupFails(w) \/ FinalizeFails(w)
    \/ Disconnect \/ TimePasses

Fairness ==
    /\ \A d \in Replica : WF_vars(Poll(d))
    /\ \A h \in Handler : WF_vars(Answer(h))
    /\ WF_vars(TimePasses)

Spec == Init /\ [][Next]_vars /\ Fairness

-----------------------------------------------------------------------------
\* SentIsRecorded: a row's message is committed once if the row is "sent" and
\* never otherwise, however often leases lapse and replicas overlap
\* (scheduled-message.service.ts: "a crash or a concurrent replica can never
\* double-send").
SentIsRecorded ==
    \A l \in Leaf : sends[l] = IF leaf[l].status = "sent" THEN 1 ELSE 0

\* ClosedMeansDrained: a job that reports completion has no recipient left to be
\* sent to, and one that reports it without errors has none that failed or was
\* skipped (finalizeBulkJobIfComplete, deriveBulkJobOutcome). Recipients that a
\* user canceled count neither way: such a job reports "completed" although the
\* comment of deriveBulkJobOutcome says that every recipient was handed over.
ClosedMeansDrained ==
    \A j \in Job :
        /\ job[j].status \in Completed =>
              \A l \in LeavesOf(j) : leaf[l].status \in Settled
        /\ job[j].status = "completed" =>
              \A l \in LeavesOf(j) : leaf[l].status \in {"sent", "canceled"}

Announcing(w, j) ==
    /\ task[w].phase \in Cleanup \cup {"notify"}
    /\ task[w].job = j /\ task[w].verdict \in Completed

\* OneVerdict: however many replicas, cancellations and sweeps finalize a job at
\* once, at most one result notice is sent and none for a job that did not
\* complete; and a completed job has its notice or somebody who is on the way to
\* send it, unless an actor stopped half-way: the notice comes after the media
\* cleanup, and nobody sends it later (finalizeBulkJobIfComplete: "exactly one
\* caller observes the transition and emits the single job-level notification").
OneVerdict ==
    \A j \in Job :
        /\ job[j].notices <= IF job[j].status \in Completed THEN 1 ELSE 0
        /\ ~crashed /\ job[j].status \in Completed =>
              job[j].notices = 1 \/ \E w \in Actor : Announcing(w, j)

\* MediaKept: what cleanupBulkJobMediaObject says of itself, "The object is kept
\* whenever anything may still need it": a message with it, a row yet to be sent
\* with it, another live job with it.
MediaKept ==
    \A j \in Job : ~media[ObjectOf[j]] =>
        /\ job[j].status \notin Open
        /\ \A l \in LeavesOf(j) : leaf[l].status \notin Pending \cup {"sent"}

Closing(w, j) ==
    j \in task[w].jobs \/ (task[w].phase \in {"progress", "stamp"} /\ task[w].job = j)

\* NoJobForgotten: whoever gives the last recipient of an open job its outcome, a
\* dispatcher, a sweep or a cancellation, goes on to close the job, and whoever
\* finds recipients still pending may leave it to the one who settles the last;
\* so no drained job is left without an actor about to close it, unless an actor
\* stopped half-way (finalizeBulkJobIfComplete, called by each of them).
NoJobForgotten ==
    ~crashed => \A j \in Job : job[j].status \in Open /\ Drained(j) =>
                   \E w \in Actor : Closing(w, j)

\* SettledIsFinal: an outcome stands; only a failed row may still be canceled.
SettledIsFinal ==
    [][\A l \in Leaf : leaf[l].status \in Settled =>
          \/ leaf'[l].status = leaf[l].status
          \/ leaf[l].status = "failed" /\ leaf'[l].status = "canceled"]_vars

\* LiveClaimIsExclusive: while a claim's lease runs, only its claimer changes the
\* row: a replica whose lease has lapsed cannot settle its successor's. The one
\* exception is a sweep that had found the row, due and without its contact,
\* before the claim; the claimer's own outcome is then refused. (The comment of
\* sweepOrphanedBulkLeaves knows no exception: "a concurrently claimed leaf is
\* untouched".)
LiveClaimIsExclusive ==
    [][\A l \in Leaf :
          leaf[l].status = "processing" /\ ~leaf[l].due /\ leaf'[l] # leaf[l] =>
             \/ leaf'[l] = [leaf[l] EXCEPT !.due = TRUE]
             \/ task'[leaf[l].by] # task[leaf[l].by] /\ Working(leaf[l].by, l)
             \/ /\ leaf'[l].status = "skipped"
                /\ \E d \in Replica : /\ task[d].phase = "sweep" /\ l \in task[d].todo
                                       /\ task'[d].phase # "sweep"]_vars

\* EveryLeafSettles: a scheduled row is sent, skipped, failed or canceled in
\* the end, through crashes, lapsed leases, a connection that comes and goes,
\* the daily cap and contacts that disappear.
EveryLeafSettles == <>[](\A l \in Leaf : leaf[l].status \notin Pending)

\* JobCloses: a broadcast reports its result or is canceled, unless an actor stopped
\* between a recipient's outcome and the job's.
JobCloses == <>[](crashed \/ \A j \in Job : job[j].status \notin Open)
=============================================================================
