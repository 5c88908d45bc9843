--------------------------- MODULE BroadcastProofs ---------------------------
(***************************************************************************)
(* For any rows, broadcasts, replicas, handlers and bounds: a message is   *)
(* committed once and only with its row's "sent", outcomes stand, a live   *)
(* claim is its claimer's, and a finished broadcast is drained and its     *)
(* result announced at most once, and once if nothing stops half-way.      *)
(*                                                                         *)
(* The argument: what an actor has read stays true while it goes on. An    *)
(* outcome, once there, stands (Frame), so the verdict a finalizer derived *)
(* is still right when it stamps the job (Sealing); what a cancellation    *)
(* has locked keeps its status until the commit (Locking), and no two      *)
(* cancellations, and no two announcers, share a job (Unique).             *)
(***************************************************************************)
EXTENDS Broadcast, TLAPS

Finished == Completed \cup {"canceled"}
Reporting == Cleanup \cup {"notify"}
Finalizing == {"progress", "stamp", "marked", "counted"} \cup Reporting

\* Whoever closed a job is on the way to announce its result.
Reports(w) == task[w].phase \in Reporting /\ task[w].verdict \in Completed

AtMostOne == \A x \in Job : job[x].notices <= IF job[x].status \in Completed THEN 1 ELSE 0

\* What a task names exists.
Named(w) ==
    /\ task[w].phase \in {"held", "examine", "settle"}
          => task[w].leaf \in Leaf /\ leaf[task[w].leaf].status # "absent"
    /\ task[w].phase \in {"held", "examine"} => JobOf[task[w].leaf] \in Job
    /\ task[w].phase \in Finalizing
          => task[w].job \in Job /\ job[task[w].job].status # "absent"
    /\ \A x \in task[w].jobs : job[x].status # "absent"
    /\ \A l \in task[w].todo : leaf[l].status # "absent"
    /\ task[w].phase = "sweep" => task[w].todo \cap Plain = {}

\* What a finalizer has read of its job and the job's rows is still so.
Sealing(w) ==
    /\ task[w].phase \in {"progress", "stamp"} /\ task[w].verdict = "canceled"
          => job[task[w].job].status = "canceled"
    /\ task[w].phase = "stamp" /\ task[w].verdict # "canceled"
          => /\ task[w].verdict \in Completed
             /\ \A l \in LeavesOf(task[w].job) :
                   /\ leaf[l].status \in Settled
                   /\ task[w].verdict = "completed" => leaf[l].status \in {"sent", "canceled"}
    /\ Reports(w) => job[task[w].job].status \in Completed /\ job[task[w].job].notices = 0
    /\ task[w].phase = "notify" => task[w].verdict \in Completed

\* What a cancellation has locked.
Locking(w) ==
    task[w].phase \in {"marked", "counted"} =>
        /\ w \in Handler
        /\ job[task[w].job].status \in Open
        /\ \A l \in task[w].todo : JobOf[l] = task[w].job /\ leaf[l].status \in Cancelable

Unique ==
    /\ \A g, h \in Handler :
          /\ task[g].phase \in {"marked", "counted"}
          /\ task[h].phase \in {"marked", "counted"}
          /\ task[g].job = task[h].job
          => g = h
    /\ \A v, w \in Actor : Reports(v) /\ Reports(w) /\ task[v].job = task[w].job => v = w

TaskInv(w) == Named(w) /\ Sealing(w) /\ Locking(w)

RowInv ==
    /\ SentIsRecorded
    /\ ClosedMeansDrained
    /\ AtMostOne
    /\ \A l \in Leaf \ Plain :
          leaf[l].status = "absent" <=> job[JobOf[l]].status = "absent"
    /\ \A l \in Leaf : leaf[l].status = "processing" => leaf[l].by \in Replica

IInv == TypeOK /\ RowInv /\ Unique /\ \A w \in Actor : TaskInv(w)

\* What no step does to rows and jobs, and what none does to the rows and the
\* job of a cancellation, or to the notices of a job that somebody announces, but
\* the cancellation and the announcer.
Frame ==
    /\ \A l \in Leaf : leaf[l].status # "absent" => leaf'[l].status # "absent"
    /\ \A l \in Leaf : leaf[l].status \in Settled =>
          \/ leaf'[l].status = leaf[l].status
          \/ leaf[l].status = "failed" /\ leaf'[l].status = "canceled"
    /\ \A x \in Job : job[x].status # "absent" => job'[x].status # "absent"
    /\ \A x \in Job : job[x].status \in Finished => job'[x].status = job[x].status
    /\ \A h \in Canceling : task'[h] = task[h] =>
          /\ job'[task[h].job].status \in Open
          /\ \A l \in task[h].todo : leaf'[l].status \in Cancelable
    /\ \A w \in Actor : Reports(w) /\ task'[w] = task[w] =>
          job'[task[w].job].notices = job[task[w].job].notices

-----------------------------------------------------------------------------
\* Rows, jobs and tasks built by the update operators have their types.
LEMMA Built ==
    /\ Idle \in Tasks
    /\ \A s \in {"absent"} \cup Settled : Outcome(s) \in Leaves /\ Outcome(s).status = s
    /\ \A n \in Nat : Waiting(n) \in Leaves /\ Waiting(n).status = "scheduled"
    /\ \A w \in Actor, js \in SUBSET Job :
          /\ Resume(w, js) \in Tasks
          /\ Resume(w, js).phase \in {"idle", "pick", "close"}
          /\ Resume(w, js).jobs = js /\ Resume(w, js).todo = {}
<1>1. Idle \in Tasks
  BY DEF Idle, Tasks, Phases, Verdicts
<1>2. \A t \in {"absent"} \cup Settled : Outcome(t) \in Leaves /\ Outcome(t).status = t
  BY DEF Outcome, Leaves
<1>3. \A n \in Nat : Waiting(n) \in Leaves /\ Waiting(n).status = "scheduled"
  BY DEF Waiting, Leaves, Pending
<1>4. ASSUME NEW w \in Actor, NEW js \in SUBSET Job
      PROVE  /\ Resume(w, js) \in Tasks
             /\ Resume(w, js).phase \in {"idle", "pick", "close"}
             /\ Resume(w, js).jobs = js /\ Resume(w, js).todo = {}
  BY DEF Resume, Idle, Tasks, Phases, Verdicts
<1>5. QED  BY <1>1, <1>2, <1>3, <1>4

\* Every row is of a job or plain.
LEMMA JobOfLeaf ==
    \A l \in Leaf : (l \in Plain /\ JobOf[l] = NoJob) \/ (l \notin Plain /\ JobOf[l] \in Job)
BY JobOfAssumption, NoneAssumption DEF Plain

\* A step that leaves rows and jobs alone keeps what is said of them.
LEMMA QuietStep ==
    ASSUME IInv, UNCHANGED <<leaf, job, sends>>
    PROVE  Frame /\ RowInv'
<1>1. RowInv'
  BY DEF IInv, RowInv, SentIsRecorded, ClosedMeansDrained, AtMostOne, LeavesOf, Plain
<1>2. Frame
  BY DEF IInv, TaskInv, Locking, Frame, Canceling, Actor
<1>3. QED  BY <1>1, <1>2

\* An actor that does not move keeps what it knows.
LEMMA OthersKept ==
    ASSUME IInv, Frame, NEW w \in Actor, task'[w] = task[w]
    PROVE  TaskInv(w)'
<1>0. TaskInv(w) /\ task[w] \in Tasks  BY DEF IInv, TypeOK
<1>1. Named(w)'
  BY <1>0 DEF TaskInv, Named, Frame, Tasks
<1>2. Sealing(w)'
  <2>1. /\ task[w].phase \in {"progress", "stamp"} \cup Reporting => task[w].job \in Job
        /\ \A l \in LeavesOf(task[w].job) : l \in Leaf
    BY <1>0 DEF TaskInv, Named, Finalizing, LeavesOf
  <2>2. (task[w].phase \in {"progress", "stamp"} /\ task[w].verdict = "canceled"
           => job[task[w].job].status = "canceled")'
    BY <1>0, <2>1 DEF TaskInv, Sealing, Frame, Finished
  <2>3. (task[w].phase = "stamp" /\ task[w].verdict # "canceled"
          => /\ task[w].verdict \in Completed
             /\ \A l \in LeavesOf(task[w].job) :
                   /\ leaf[l].status \in Settled
                   /\ task[w].verdict = "completed" => leaf[l].status \in {"sent", "canceled"})'
    BY <1>0, <2>1, SMTT(30) DEF TaskInv, Sealing, Frame, Settled, LeavesOf
  <2>4. (Reports(w) => job[task[w].job].status \in Completed /\ job[task[w].job].notices = 0)'
    BY <1>0, <2>1 DEF TaskInv, Sealing, Frame, Finished, Reports
  <2>5. (task[w].phase = "notify" => task[w].verdict \in Completed)'
    BY <1>0 DEF TaskInv, Sealing
  <2>6. QED  BY <2>2, <2>3, <2>4, <2>5 DEF Sealing
<1>3. Locking(w)'
  BY <1>0, <1>1 DEF TaskInv, Locking, Frame, Canceling, Named
<1>4. QED  BY <1>1, <1>2, <1>3 DEF TaskInv

\* If one actor moves, the invariant follows from what that actor then knows.
LEMMA OneMoves ==
    ASSUME IInv, Frame, TypeOK', RowInv', NEW w \in Actor,
           \A v \in Actor \ {w} : task'[v] = task[v],
           TaskInv(w)', Unique'
    PROVE  IInv' /\ Frame
BY OthersKept DEF IInv

\* If none moves, nothing more is needed.
LEMMA NoneMoves ==
    ASSUME IInv, Frame, TypeOK', RowInv', task' = task
    PROVE  IInv' /\ Frame
<1>1. Unique'  BY DEF IInv, Unique, Reports
<1>2. \A w \in Actor : task'[w] = task[w]  OBVIOUS
<1>3. QED  BY <1>1, <1>2, OthersKept DEF IInv

\* No cancellation and no announcement begins, so none shares a job.
LEMMA UniqueKept ==
    ASSUME IInv, NEW w \in Actor, \A v \in Actor \ {w} : task'[v] = task[v],
           task'[w].phase \in {"marked", "counted"}
              => task[w].phase \in {"marked", "counted"} /\ task'[w].job = task[w].job,
           Reports(w)' => Reports(w) /\ task'[w].job = task[w].job
    PROVE  Unique'
<1>1. \A v \in Actor \ {w} : Reports(v)' <=> Reports(v)  BY DEF Reports
<1>2. QED  BY <1>1 DEF IInv, Unique, Actor

\* The move of one actor.
LEMMA Moves ==
    ASSUME IInv, NEW w \in Actor, NEW t \in Tasks, Go(w, t)
    PROVE  /\ task' \in [Actor -> Tasks] /\ task'[w] = t
           /\ \A v \in Actor \ {w} : task'[v] = task[v]
BY DEF IInv, TypeOK, Go

\* Reading a job's status.
LEMMA FinalizeKeeps ==
    ASSUME IInv, NEW w \in Actor, FinalizeBulkJob(w)
    PROVE  IInv' /\ Frame
<1>0. task[w] \in Tasks /\ TaskInv(w)  BY DEF IInv, TypeOK
<1>1. PICK x \in task[w].jobs :
         IF job[x].status \in Completed
         THEN Go(w, Resume(w, task[w].jobs \ {x}))
         ELSE Go(w, [task[w] EXCEPT !.phase = "progress", !.job = x,
                                    !.jobs = @ \ {x}, !.verdict = job[x].status])
  BY DEF FinalizeBulkJob
<1>2. x \in Job /\ job[x] \in Jobs /\ job[x].status # "absent"
  BY <1>0 DEF IInv, TypeOK, Tasks, TaskInv, Named
<1> DEFINE t == IF job[x].status \in Completed THEN Resume(w, task[w].jobs \ {x})
                ELSE [task[w] EXCEPT !.phase = "progress", !.job = x,
                                     !.jobs = @ \ {x}, !.verdict = job[x].status]
<1>3. /\ t \in Tasks /\ t.phase \in {"idle", "pick", "close", "progress"}
      /\ t.jobs = task[w].jobs \ {x} /\ t.todo \subseteq task[w].todo
      /\ t.phase = "progress" => t.job = x /\ t.verdict = job[x].status
  <2>1. CASE job[x].status \in Completed
    BY <2>1, <1>0, Built DEF Tasks
  <2>2. CASE job[x].status \notin Completed
    BY <2>2, <1>0, <1>2 DEF Tasks, Jobs, Phases, Verdicts
  <2>3. QED  BY <2>1, <2>2
<1>4. Go(w, t)  BY <1>1
<1> HIDE DEF t
<1>5. /\ task' \in [Actor -> Tasks] /\ task'[w] = t
      /\ \A v \in Actor \ {w} : task'[v] = task[v]
  BY <1>3, <1>4, Moves
<1>6. TypeOK'  BY <1>5 DEF IInv, TypeOK, FinalizeBulkJob
<1>7. Frame /\ RowInv'  BY QuietStep DEF FinalizeBulkJob
<1>8. job' = job /\ leaf' = leaf  BY DEF FinalizeBulkJob
<1>9. TaskInv(w)'
  BY <1>0, <1>2, <1>3, <1>5, <1>8 DEF TaskInv, Named, Sealing, Locking, Finalizing,
     Reports, Reporting, Cleanup
<1>10. Unique'  BY <1>3, <1>5, UniqueKept DEF Reports, Reporting, Cleanup
<1>11. QED  BY <1>5, <1>6, <1>7, <1>9, <1>10, OneMoves

\* Reading a job's progress.
LEMMA ProgressKeeps ==
    ASSUME IInv, NEW w \in Actor, GetBulkJobProgress(w)
    PROVE  IInv' /\ Frame
<1>0. task[w] \in Tasks /\ TaskInv(w)  BY DEF IInv, TypeOK, Actor
<1>01. task[w].phase = "progress"  BY DEF GetBulkJobProgress
<1> DEFINE t == IF Drained(task[w].job)
                THEN [task[w] EXCEPT !.phase = "stamp",
                                     !.verdict = IF @ = "canceled" THEN @
                                                 ELSE DeriveBulkJobOutcome(task[w].job)]
                ELSE Resume(w, task[w].jobs)
<1>1. /\ t \in Tasks
      /\ t.jobs = task[w].jobs /\ t.todo \subseteq task[w].todo
      /\ t.phase \in {"idle", "pick", "close", "stamp"}
      /\ t.phase = "stamp" =>
            /\ Drained(task[w].job) /\ t.job = task[w].job
            /\ t.verdict = IF task[w].verdict = "canceled" THEN "canceled"
                           ELSE DeriveBulkJobOutcome(task[w].job)
  <2>0. DeriveBulkJobOutcome(task[w].job) \in Completed
    BY DEF DeriveBulkJobOutcome, Completed
  <2>1. CASE Drained(task[w].job)
    BY <2>0, <2>1, <1>0 DEF Tasks, Phases, Verdicts
  <2>2. CASE ~Drained(task[w].job)
    BY <2>2, <1>0, Built DEF Tasks
  <2>3. QED  BY <2>1, <2>2
<1>2. Go(w, t)
  BY DEF GetBulkJobProgress, Return
<1> HIDE DEF t
<1>3. /\ task' \in [Actor -> Tasks] /\ task'[w] = t
      /\ \A v \in Actor \ {w} : task'[v] = task[v]
  BY <1>1, <1>2, Moves DEF Actor
<1>4. TypeOK'
  BY <1>3 DEF IInv, TypeOK, GetBulkJobProgress
<1>5. Frame /\ RowInv'
  BY QuietStep DEF GetBulkJobProgress
<1>6. TaskInv(w)'
  <2>0. leaf' = leaf /\ job' = job  BY DEF GetBulkJobProgress
  <2>1. Named(w)'
    BY <1>0, <1>01, <1>1, <1>3, <2>0 DEF TaskInv, Named, Finalizing, Reporting, Cleanup
  <2>2. Sealing(w)'
    <3>1. CASE t.phase # "stamp"
      BY <3>1, <1>1, <1>3 DEF Sealing, Reports, Reporting, Cleanup
    <3>2. CASE t.phase = "stamp" /\ task[w].verdict = "canceled"
      BY <3>2, <1>0, <1>01, <1>1, <1>3, <2>0 DEF Sealing, TaskInv, Reports, Reporting, Cleanup
    <3>3. CASE t.phase = "stamp" /\ task[w].verdict # "canceled"
      <4>1. \A l \in LeavesOf(task[w].job) : leaf[l].status \in Settled
        <5> SUFFICES ASSUME NEW l \in LeavesOf(task[w].job)  PROVE leaf[l].status \in Settled
          OBVIOUS
        <5>1. task[w].job \in Job /\ job[task[w].job].status # "absent"
          BY <1>0, <1>01 DEF TaskInv, Named, Finalizing
        <5>2. l \in Leaf \ Plain /\ JobOf[l] = task[w].job
          BY <5>1, NoneAssumption DEF LeavesOf, Plain
        <5>3. leaf[l] \in Leaves /\ leaf[l].status # "absent"
          BY <5>1, <5>2 DEF IInv, TypeOK, RowInv
        <5>4. leaf[l].status \notin Pending  BY <3>3, <1>1 DEF Drained
        <5>5. QED  BY <5>3, <5>4 DEF Leaves
      <4>2. t.verdict = "completed" =>
               \A l \in LeavesOf(task[w].job) : leaf[l].status \in {"sent", "canceled"}
        BY <4>1, <3>3, <1>1 DEF DeriveBulkJobOutcome, Settled
      <4>3. t.verdict \in Completed  BY <3>3, <1>1 DEF DeriveBulkJobOutcome, Completed
      <4>4. QED
        BY <4>1, <4>2, <4>3, <3>3, <1>1, <1>3, <2>0 DEF Sealing, LeavesOf, Completed,
           Reports, Reporting, Cleanup
    <3>4. QED  BY <3>1, <3>2, <3>3
  <2>3. Locking(w)'  BY <1>1, <1>3 DEF Locking
  <2>4. QED  BY <2>1, <2>2, <2>3 DEF TaskInv
<1>7. Unique'
  BY <1>1, <1>3, UniqueKept DEF Actor, Reports, Reporting, Cleanup
<1>8. QED  BY <1>3, <1>4, <1>5, <1>6, <1>7, OneMoves DEF Actor

\* A step of the media cleanup: to its next step, or to the notice of whoever
\* closed the job, or out.
LEMMA CleanupMoves ==
    ASSUME IInv, NEW w \in Actor, task[w].phase \in Cleanup,
           Cleaned(w) \/ \E p \in Cleanup : Go(w, [task[w] EXCEPT !.phase = p])
    PROVE  /\ task' \in [Actor -> Tasks]
           /\ \A v \in Actor \ {w} : task'[v] = task[v]
           /\ task'[w].jobs = task[w].jobs /\ task'[w].todo \subseteq task[w].todo
           /\ task'[w].phase \in {"idle", "pick", "close"} \cup Reporting
           /\ task'[w].jobs # {} => task'[w].phase \in {"close"} \cup Reporting
           /\ task[w].verdict \in Completed => task'[w].phase \in Reporting
           /\ task'[w].phase \in Reporting =>
                 task'[w].job = task[w].job /\ task'[w].verdict = task[w].verdict
           /\ task'[w].phase = "notify" => task'[w].verdict \in Completed
<1>0. task[w] \in Tasks /\ task[w].jobs \in SUBSET Job  BY DEF IInv, TypeOK, Tasks
<1>1. ASSUME NEW p \in Cleanup \cup {"notify"}, Go(w, [task[w] EXCEPT !.phase = p]),
             p = "notify" => task[w].verdict \in Completed
      PROVE  /\ task' \in [Actor -> Tasks]
             /\ \A v \in Actor \ {w} : task'[v] = task[v]
             /\ task'[w].phase = p /\ task'[w].jobs = task[w].jobs
             /\ task'[w].todo = task[w].todo /\ task'[w].job = task[w].job
             /\ task'[w].verdict = task[w].verdict
  <2> DEFINE t == [task[w] EXCEPT !.phase = p]
  <2>1. /\ t \in Tasks /\ t.phase = p /\ t.jobs = task[w].jobs /\ t.todo = task[w].todo
        /\ t.job = task[w].job /\ t.verdict = task[w].verdict
    BY <1>0 DEF Tasks, Phases
  <2>2. Go(w, t)  BY <1>1
  <2> HIDE DEF t
  <2>3. QED  BY <2>1, <2>2, Moves
<1>2. CASE \E p \in Cleanup : Go(w, [task[w] EXCEPT !.phase = p])
  BY <1>1, <1>2 DEF Reporting, Cleanup
<1>3. CASE Cleaned(w) /\ task[w].verdict \in Completed
  BY <1>1, <1>3 DEF Cleaned, Reporting
<1>4. CASE Cleaned(w) /\ task[w].verdict \notin Completed
  <2> DEFINE t == Resume(w, task[w].jobs)
  <2>1. /\ t \in Tasks /\ t.phase \in {"idle", "pick", "close"} /\ t.jobs = task[w].jobs
        /\ t.todo = {}
    BY <1>0, Built
  <2>2. Go(w, t)  BY <1>4 DEF Cleaned, Return
  <2>3. t.jobs # {} => t.phase = "close"  BY DEF Resume, Idle
  <2> HIDE DEF t
  <2>4. QED  BY <1>4, <2>1, <2>2, <2>3, Moves DEF Reporting, Cleanup
<1>5. QED  BY <1>2, <1>3, <1>4

\* It leaves rows and jobs alone.
LEMMA CleanupKeeps ==
    ASSUME IInv, NEW w \in Actor, task[w].phase \in Cleanup,
           Cleaned(w) \/ \E p \in Cleanup : Go(w, [task[w] EXCEPT !.phase = p]),
           UNCHANGED <<leaf, sends, contact, job, eligible, online, crashed, moves>>,
           media' \in [Object -> BOOLEAN], faults' \in Nat
    PROVE  IInv' /\ Frame
<1>0. task[w] \in Tasks /\ TaskInv(w)  BY DEF IInv, TypeOK
<1>1. /\ task' \in [Actor -> Tasks]
      /\ \A v \in Actor \ {w} : task'[v] = task[v]
      /\ task'[w].jobs = task[w].jobs /\ task'[w].todo \subseteq task[w].todo
      /\ task'[w].phase \in {"idle", "pick", "close"} \cup Reporting
      /\ task'[w].phase \in Reporting =>
            task'[w].job = task[w].job /\ task'[w].verdict = task[w].verdict
      /\ task'[w].phase = "notify" => task'[w].verdict \in Completed
  BY CleanupMoves
<1>2. TypeOK'  BY <1>1 DEF IInv, TypeOK
<1>3. Frame /\ RowInv'  BY QuietStep
<1>4. TaskInv(w)'
  BY <1>0, <1>1 DEF TaskInv, Named, Sealing, Locking, Finalizing, Reports, Reporting, Cleanup
<1>5. Unique'  BY <1>0, <1>1, UniqueKept DEF Reports, Reporting, Cleanup
<1>6. QED  BY <1>1, <1>2, <1>3, <1>4, <1>5, OneMoves

\* Asking for what still needs the media, and its deletion.
LEMMA CleaningKeeps ==
    ASSUME IInv, NEW w \in Actor,
           \/ ReferencedByMessage(w) \/ ReferencedByPendingSchedule(w)
           \/ ReferencedBySiblingJob(w) \/ DeleteMedia(w) \/ CleanupFails(w)
    PROVE  IInv' /\ Frame
<1>0. media \in [Object -> BOOLEAN] /\ faults \in Nat  BY DEF IInv, TypeOK
<1>1. CASE ReferencedByMessage(w) \/ ReferencedByPendingSchedule(w) \/ ReferencedBySiblingJob(w)
  BY <1>0, <1>1, CleanupKeeps DEF ReferencedByMessage, ReferencedByPendingSchedule,
     ReferencedBySiblingJob, AskFor, Cleanup
<1>2. CASE DeleteMedia(w)
  <2>1. media' \in [Object -> BOOLEAN]  BY <1>0, <1>2 DEF DeleteMedia
  <2>2. QED  BY <1>0, <1>2, <2>1, CleanupKeeps DEF DeleteMedia, Cleanup
<1>3. CASE CleanupFails(w)
  BY <1>0, <1>3, CleanupKeeps DEF CleanupFails
<1>4. QED  BY <1>1, <1>2, <1>3

\* An error of the finalization.
LEMMA FinalizeFailsKeeps ==
    ASSUME IInv, NEW w \in Actor, FinalizeFails(w)
    PROVE  IInv' /\ Frame
<1>0. task[w] \in Tasks /\ TaskInv(w) /\ task[w].jobs \in SUBSET Job
  BY DEF IInv, TypeOK, Tasks
<1>1. PICK js \in SUBSET task[w].jobs : Go(w, Resume(w, js))
  BY DEF FinalizeFails, Return
<1> DEFINE t == Resume(w, js)
<1>2. t \in Tasks /\ t.phase \in {"idle", "pick", "close"} /\ t.jobs = js /\ t.todo = {}
  BY <1>0, Built
<1>3. Go(w, t)  BY <1>1
<1> HIDE DEF t
<1>4. /\ task' \in [Actor -> Tasks] /\ task'[w] = t
      /\ \A v \in Actor \ {w} : task'[v] = task[v]
  BY <1>2, <1>3, Moves
<1>5. TypeOK'
  <2>1. faults' \in Nat /\ crashed' \in BOOLEAN  BY DEF IInv, TypeOK, FinalizeFails
  <2>2. QED  BY <1>4, <2>1 DEF IInv, TypeOK, FinalizeFails
<1>6. Frame /\ RowInv'  BY QuietStep DEF FinalizeFails
<1>7. TaskInv(w)'
  BY <1>0, <1>1, <1>2, <1>4 DEF FinalizeFails, TaskInv, Named, Sealing, Locking, Finalizing,
     Reports, Reporting, Cleanup
<1>8. Unique'  BY <1>2, <1>4, UniqueKept DEF Reports, Reporting, Cleanup
<1>9. QED  BY <1>4, <1>5, <1>6, <1>7, <1>8, OneMoves

\* The end of a cycle.
LEMMA EndCycleKeeps ==
    ASSUME IInv, NEW d \in Replica, EndCycle(d)
    PROVE  IInv' /\ Frame
<1>0. task[d] \in Tasks /\ TaskInv(d)  BY DEF IInv, TypeOK, Actor
<1> DEFINE t == Idle
<1>1. /\ t \in Tasks /\ t.phase = "idle" /\ t.jobs = {} /\ t.todo = {}
  BY <1>0, Built DEF Tasks, Phases, Verdicts, Idle
<1>2. Go(d, t)
  BY DEF EndCycle, Return
<1> HIDE DEF t
<1>3. /\ task' \in [Actor -> Tasks] /\ task'[d] = t
      /\ \A v \in Actor \ {d} : task'[v] = task[v]
  BY <1>1, <1>2, Moves DEF Actor
<1>4. TypeOK'
  BY <1>3 DEF IInv, TypeOK, EndCycle
<1>5. Frame /\ RowInv'
  BY QuietStep DEF EndCycle
<1>6. TaskInv(d)'
  <2>1. task'[d].phase = "idle" /\ task'[d].jobs = {} /\ task'[d].todo = {}
    BY <1>1, <1>3
  <2>2. QED  BY <2>1 DEF TaskInv, Named, Sealing, Locking, Finalizing,
     Reports, Reporting, Cleanup
<1>7. Unique'
  BY <1>1, <1>3, UniqueKept DEF Actor, Reports, Reporting, Cleanup
<1>8. QED  BY <1>3, <1>4, <1>5, <1>6, <1>7, OneMoves DEF Actor

\* The checks on a recipient.
LEMMA ExamineBulkKeeps ==
    ASSUME IInv, NEW d \in Replica, ExamineBulk(d)
    PROVE  IInv' /\ Frame
<1>0. task[d] \in Tasks /\ TaskInv(d)  BY DEF IInv, TypeOK, Actor
<1>01. PICK v \in BulkVerdicts(task[d].leaf) :
         Go(d, [task[d] EXCEPT !.phase = "settle", !.verdict = v])
  BY DEF ExamineBulk
<1> DEFINE t == [task[d] EXCEPT !.phase = "settle", !.verdict = v]
<1>1. /\ t \in Tasks /\ t.phase = "settle" /\ t.jobs = task[d].jobs /\ t.todo \subseteq task[d].todo
      /\ t.leaf = task[d].leaf
  <2>1. v \in Verdicts
    BY DEF BulkVerdicts, Verdicts
  <2>2. QED  BY <1>0, <2>1 DEF Tasks, Phases
<1>2. Go(d, t)
  BY <1>01
<1> HIDE DEF t
<1>3. /\ task' \in [Actor -> Tasks] /\ task'[d] = t
      /\ \A w \in Actor \ {d} : task'[w] = task[w]
  BY <1>1, <1>2, Moves DEF Actor
<1>4. TypeOK'
  BY <1>3 DEF IInv, TypeOK, ExamineBulk
<1>5. Frame /\ RowInv'
  BY QuietStep DEF ExamineBulk
<1>6. TaskInv(d)'
  BY <1>0, <1>1, <1>3 DEF ExamineBulk, TaskInv, Named, Sealing, Locking, Finalizing,
     Reports, Reporting, Cleanup
<1>7. Unique'
  BY <1>1, <1>3, UniqueKept DEF Actor, Reports, Reporting, Cleanup
<1>8. QED  BY <1>3, <1>4, <1>5, <1>6, <1>7, OneMoves DEF Actor

\* An error before the commit.
LEMMA TransientKeeps ==
    ASSUME IInv, NEW d \in Replica, TransientError(d)
    PROVE  IInv' /\ Frame
<1>0. task[d] \in Tasks /\ TaskInv(d)  BY DEF IInv, TypeOK, Actor
<1> DEFINE t == [task[d] EXCEPT !.verdict = "retry"]
<1>1. /\ t \in Tasks /\ t.phase = "settle" /\ t.jobs = task[d].jobs /\ t.todo \subseteq task[d].todo
      /\ t.leaf = task[d].leaf
  BY <1>0, Built DEF Tasks, Phases, Verdicts, Idle, TransientError
<1>2. Go(d, t)
  BY DEF TransientError, Return
<1> HIDE DEF t
<1>3. /\ task' \in [Actor -> Tasks] /\ task'[d] = t
      /\ \A v \in Actor \ {d} : task'[v] = task[v]
  BY <1>1, <1>2, Moves DEF Actor
<1>4. TypeOK'
  BY <1>3 DEF IInv, TypeOK, TransientError
<1>5. Frame /\ RowInv'
  BY QuietStep DEF TransientError
<1>6. TaskInv(d)'
  BY <1>0, <1>1, <1>3 DEF TransientError, TaskInv, Named, Sealing, Locking, Finalizing,
     Reports, Reporting, Cleanup
<1>7. Unique'
  BY <1>1, <1>3, UniqueKept DEF Actor, Reports, Reporting, Cleanup
<1>8. QED  BY <1>3, <1>4, <1>5, <1>6, <1>7, OneMoves DEF Actor

\* A crash.
LEMMA CrashKeeps ==
    ASSUME IInv, NEW w \in Actor, Crash(w)
    PROVE  IInv' /\ Frame
<1>0. task[w] \in Tasks /\ TaskInv(w)  BY DEF IInv, TypeOK, Actor
<1> DEFINE t == Idle
<1>1. /\ t \in Tasks /\ t.phase = "idle" /\ t.jobs = {} /\ t.todo = {}
  BY <1>0, Built DEF Tasks, Phases, Verdicts, Idle
<1>2. Go(w, t)
  BY DEF Crash, Return
<1> HIDE DEF t
<1>3. /\ task' \in [Actor -> Tasks] /\ task'[w] = t
      /\ \A v \in Actor \ {w} : task'[v] = task[v]
  BY <1>1, <1>2, Moves DEF Actor
<1>4. TypeOK'
  BY <1>3 DEF IInv, TypeOK, Crash
<1>5. Frame /\ RowInv'
  BY QuietStep DEF Crash
<1>6. TaskInv(w)'
  <2>1. task'[w].phase = "idle" /\ task'[w].jobs = {} /\ task'[w].todo = {}
    BY <1>1, <1>3
  <2>2. QED  BY <2>1 DEF TaskInv, Named, Sealing, Locking, Finalizing,
     Reports, Reporting, Cleanup
<1>7. Unique'
  BY <1>1, <1>3, UniqueKept DEF Actor, Reports, Reporting, Cleanup
<1>8. QED  BY <1>3, <1>4, <1>5, <1>6, <1>7, OneMoves DEF Actor

\* The count of rows in flight.
LEMMA CountKeeps ==
    ASSUME IInv, NEW h \in Handler, CountProcessing(h)
    PROVE  IInv' /\ Frame
<1>0. task[h] \in Tasks /\ TaskInv(h)  BY DEF IInv, TypeOK, Actor
<1>01. task[h].phase = "marked"  BY DEF CountProcessing
<1> DEFINE t == [task[h] EXCEPT !.phase = "counted",
                        !.verdict = IF \E l \in LeavesOf(task[h].job) :
                                          leaf[l].status = "processing"
                                    THEN "busy" ELSE "none"]
<1>1. /\ t \in Tasks /\ t.phase = "counted" /\ t.jobs = task[h].jobs
      /\ t.job = task[h].job /\ t.todo = task[h].todo
  <2>1. (IF \E l \in LeavesOf(task[h].job) : leaf[l].status = "processing"
         THEN "busy" ELSE "none") \in Verdicts
    BY DEF Verdicts
  <2>2. QED  BY <1>0, <2>1 DEF Tasks, Phases
<1>2. Go(h, t)
  BY DEF CountProcessing, Return
<1> HIDE DEF t
<1>3. /\ task' \in [Actor -> Tasks] /\ task'[h] = t
      /\ \A v \in Actor \ {h} : task'[v] = task[v]
  BY <1>1, <1>2, Moves DEF Actor
<1>4. TypeOK'
  BY <1>3 DEF IInv, TypeOK, CountProcessing
<1>5. Frame /\ RowInv'
  BY QuietStep DEF CountProcessing
<1>6. TaskInv(h)'
  BY <1>0, <1>01, <1>1, <1>3 DEF CountProcessing, TaskInv, Named, Sealing, Locking, Finalizing,
     Reports, Reporting, Cleanup
<1>7. Unique'
  BY <1>01, <1>1, <1>3, UniqueKept DEF Actor, Reports, Reporting, Cleanup
<1>8. QED  BY <1>3, <1>4, <1>5, <1>6, <1>7, OneMoves DEF Actor

\* The start of a cancellation.
LEMMA CancelKeeps ==
    ASSUME IInv, NEW h \in Handler, NEW x \in Job, CancelBulkJob(h, x)
    PROVE  IInv' /\ Frame
<1>0. task[h] \in Tasks /\ TaskInv(h)  BY DEF IInv, TypeOK, Actor
<1> DEFINE t == [Idle EXCEPT !.phase = "marked", !.job = x,
                          !.todo = {l \in LeavesOf(x) : leaf[l].status \in Cancelable}]
<1>1. /\ t \in Tasks /\ t.phase = "marked" /\ t.jobs = {} /\ t.job = x
      /\ t.todo = {l \in LeavesOf(x) : leaf[l].status \in Cancelable}
  BY <1>0, Built DEF Tasks, Phases, Verdicts, Idle, LeavesOf
<1>2. Go(h, t)
  BY DEF CancelBulkJob, Return
<1> HIDE DEF t
<1>3. /\ task' \in [Actor -> Tasks] /\ task'[h] = t
      /\ \A v \in Actor \ {h} : task'[v] = task[v]
  BY <1>1, <1>2, Moves DEF Actor
<1>4. TypeOK'
  BY <1>3 DEF IInv, TypeOK, CancelBulkJob
<1>5. Frame /\ RowInv'
  BY QuietStep DEF CancelBulkJob
<1>6. TaskInv(h)'
  BY <1>1, <1>3 DEF CancelBulkJob, TaskInv, Named, Sealing, Locking, Finalizing,
     Reports, Reporting, Cleanup, LeavesOf, Open, Cancelable
<1>7. Unique'
  <2>1. ~Reports(h)' /\ \A v \in Actor \ {h} : Reports(v)' <=> Reports(v)
    BY <1>1, <1>3 DEF Reports, Reporting, Cleanup
  <2>2. ~JobLocked(x)  BY DEF CancelBulkJob
  <2>3. \A v, w \in Actor : (Reports(v) /\ Reports(w) /\ task[v].job = task[w].job => v = w)'
    BY <2>1, <1>3 DEF IInv, Unique
  <2>4. QED  BY <1>1, <1>3, <2>2, <2>3 DEF IInv, Unique, JobLocked, Canceling, Actor
<1>8. QED  BY <1>3, <1>4, <1>5, <1>6, <1>7, OneMoves DEF Actor

\* The checks on a scheduled message.
LEMMA ExaminePlainKeeps ==
    ASSUME IInv, NEW d \in Replica, ExaminePlain(d)
    PROVE  IInv' /\ Frame
<1>0. task[d] \in Tasks /\ TaskInv(d)  BY DEF IInv, TypeOK, Actor
<1>01. PICK l \in task[d].todo : \E v \in PlainVerdicts(l) :
         Go(d, [task[d] EXCEPT !.phase = "settle", !.leaf = l, !.todo = @ \ {l}, !.verdict = v])
  BY DEF ExaminePlain
<1>1. PICK v \in PlainVerdicts(l) :
         Go(d, [task[d] EXCEPT !.phase = "settle", !.leaf = l, !.todo = @ \ {l}, !.verdict = v])
  BY <1>01
<1> DEFINE t == [task[d] EXCEPT !.phase = "settle", !.leaf = l, !.todo = @ \ {l},
                                !.verdict = v]
<1>2. /\ t \in Tasks /\ t.phase = "settle" /\ t.jobs = task[d].jobs /\ t.todo \subseteq task[d].todo
      /\ t.leaf = l /\ l \in Leaf
  <2>1. v \in Verdicts  BY DEF PlainVerdicts, Verdicts
  <2>2. QED  BY <1>0, <2>1 DEF Tasks, Phases
<1> HIDE DEF t
<1>3. /\ task' \in [Actor -> Tasks] /\ task'[d] = t
      /\ \A w \in Actor \ {d} : task'[w] = task[w]
  BY <1>1, <1>2, Moves DEF Actor, t
<1>4. TypeOK'  BY <1>3 DEF IInv, TypeOK, ExaminePlain
<1>5. Frame /\ RowInv'  BY QuietStep DEF ExaminePlain
<1>6. leaf[l].status # "absent"
  BY <1>0, <1>1 DEF TaskInv, Named, ExaminePlain
<1>7. TaskInv(d)'
  BY <1>0, <1>2, <1>3, <1>6 DEF ExaminePlain, TaskInv, Named, Sealing, Locking, Finalizing,
     Reports, Reporting, Cleanup
<1>8. Unique'  BY <1>2, <1>3, UniqueKept DEF Actor, Reports, Reporting, Cleanup
<1>9. QED  BY <1>3, <1>4, <1>5, <1>7, <1>8, OneMoves DEF Actor

\* A contact changes.
LEMMA ContactKeeps ==
    ASSUME IInv, NEW l \in Leaf, ContactChanges(l) \/ ContactReturns(l)
    PROVE  IInv' /\ Frame
<1>1. TypeOK'
  <2>1. PICK s \in {"fit", "blocked", "unlinked"} : contact' = [contact EXCEPT ![l] = s]
    BY DEF ContactChanges, ContactReturns
  <2>2. moves' \in Nat  BY DEF IInv, TypeOK, ContactChanges, ContactReturns
  <2>3. QED  BY <2>1, <2>2 DEF IInv, TypeOK, Linked, ContactChanges, ContactReturns
<1>2. Frame /\ RowInv'
  BY QuietStep DEF ContactChanges, ContactReturns
<1>3. task' = task
  BY DEF ContactChanges, ContactReturns
<1>4. QED  BY <1>1, <1>2, <1>3, NoneMoves

\* The connection goes.
LEMMA DisconnectKeeps ==
    ASSUME IInv, Disconnect
    PROVE  IInv' /\ Frame
<1>1. TypeOK'
  <2>1. moves' \in Nat
    BY DEF IInv, TypeOK, Disconnect
  <2>2. online' \in BOOLEAN
    BY DEF Disconnect
  <2>3. QED  BY <2>1, <2>2 DEF IInv, TypeOK, Disconnect
<1>2. Frame /\ RowInv'
  BY QuietStep DEF Disconnect
<1>3. task' = task
  BY DEF Disconnect
<1>4. QED  BY <1>1, <1>2, <1>3, NoneMoves

\* The connection comes back.
LEMMA ReconnectKeeps ==
    ASSUME IInv, Reconnect
    PROVE  IInv' /\ Frame
<1>1. TypeOK'
  BY DEF IInv, TypeOK, Linked, Reconnect
<1>2. Frame /\ RowInv'
  BY QuietStep DEF Reconnect
<1>3. task' = task
  BY DEF Reconnect
<1>4. QED  BY <1>1, <1>2, <1>3, NoneMoves

\* Pacing and quota let the connection send.
LEMMA EligibleKeeps ==
    ASSUME IInv, BecomesEligible
    PROVE  IInv' /\ Frame
<1>1. TypeOK'
  BY DEF IInv, TypeOK, Linked, BecomesEligible
<1>2. Frame /\ RowInv'
  BY QuietStep DEF BecomesEligible
<1>3. task' = task
  BY DEF BecomesEligible
<1>4. QED  BY <1>1, <1>2, <1>3, NoneMoves

\* What steps that change rows only may do to them.
RowMoves(l) ==
    \/ leaf'[l].status = leaf[l].status /\ sends'[l] = sends[l]
    \/ /\ leaf[l].status \in Pending \cup {"failed"}
       /\ ~LeafLocked(l)
       /\ leaf'[l].status # "absent"
       /\ leaf[l].status = "failed" => leaf'[l].status = "canceled"
       /\ sends'[l] = IF leaf'[l].status = "sent" THEN sends[l] + 1 ELSE sends[l]
    \/ /\ l \in Plain
       /\ leaf[l].status = "absent" /\ leaf'[l].status = "scheduled"
       /\ sends'[l] = sends[l]

\* They keep what is said of rows and jobs.
LEMMA RowStep ==
    ASSUME IInv, job' = job, leaf' \in [Leaf -> Leaves],
           \A l \in Leaf : RowMoves(l),
           \A l \in Leaf : leaf'[l].status = "processing" => leaf'[l].by \in Replica
    PROVE  Frame /\ RowInv'
<1>0. \A l \in Leaf : leaf[l] \in Leaves /\ sends[l] \in Nat  BY DEF IInv, TypeOK
<1>1. \A l \in Leaf : leaf[l].status # "absent" => leaf'[l].status # "absent"
  BY DEF RowMoves
<1>2. \A l \in Leaf : leaf[l].status \in Settled =>
         \/ leaf'[l].status = leaf[l].status
         \/ leaf[l].status = "failed" /\ leaf'[l].status = "canceled"
  BY DEF RowMoves, Settled, Pending
<1>3. ASSUME NEW h \in Canceling
      PROVE  /\ job'[task[h].job].status \in Open
             /\ \A l \in task[h].todo : leaf'[l].status \in Cancelable
  <2>1. Locking(h) /\ task[h] \in Tasks /\ task[h].phase \in {"marked", "counted"}
    BY DEF IInv, TypeOK, TaskInv, Canceling, Actor
  <2>2. ASSUME NEW l \in task[h].todo  PROVE leaf'[l].status \in Cancelable
    <3>1. l \in Leaf /\ leaf[l].status \in Cancelable /\ LeafLocked(l)
      BY <2>1 DEF Locking, Tasks, LeafLocked
    <3>2. leaf[l].status # "absent"  BY <3>1 DEF Cancelable
    <3>3. leaf'[l].status = leaf[l].status  BY <3>1, <3>2 DEF RowMoves
    <3>4. QED  BY <3>1, <3>3
  <2>3. QED  BY <2>1, <2>2 DEF Locking
<1>4. Frame  BY <1>1, <1>2, <1>3 DEF Frame
<1>5. SentIsRecorded'
  <2> SUFFICES ASSUME NEW l \in Leaf
               PROVE  sends'[l] = IF leaf'[l].status = "sent" THEN 1 ELSE 0
    BY DEF SentIsRecorded
  <2>1. sends[l] = IF leaf[l].status = "sent" THEN 1 ELSE 0
    BY DEF IInv, RowInv, SentIsRecorded
  <2>2. RowMoves(l)  OBVIOUS
  <2>3. QED  BY <2>1, <2>2, <1>0 DEF RowMoves, Pending
<1>6. ClosedMeansDrained'
  <2> SUFFICES ASSUME NEW x \in Job, NEW l \in LeavesOf(x), job[x].status \in Completed
               PROVE  /\ leaf'[l].status \in Settled
                      /\ job[x].status = "completed" => leaf'[l].status \in {"sent", "canceled"}
    BY DEF ClosedMeansDrained, LeavesOf, Completed
  <2>1. /\ l \in Leaf /\ leaf[l].status \in Settled
        /\ job[x].status = "completed" => leaf[l].status \in {"sent", "canceled"}
    BY DEF IInv, RowInv, ClosedMeansDrained, LeavesOf
  <2>2. QED  BY <2>1, <1>2 DEF Settled
<1>7. AtMostOne'  BY DEF IInv, RowInv, AtMostOne
<1>9. \A l \in Leaf \ Plain :
         leaf'[l].status = "absent" <=> job[JobOf[l]].status = "absent"
  BY DEF IInv, RowInv, RowMoves, Pending
<1>10. QED
  BY <1>4, <1>5, <1>6, <1>7, <1>9 DEF IInv, RowInv, Plain

\* A row comes due.
LEMMA NextAttemptKeeps ==
    ASSUME IInv, NEW l \in Leaf, NextAttemptComes(l)
    PROVE  IInv' /\ Frame
<1>a. /\ leaf' \in [Leaf -> Leaves] /\ \A k \in Leaf : RowMoves(k)
      /\ \A k \in Leaf : leaf'[k].status = "processing" => leaf'[k].by \in Replica
  <2>1. /\ \A k \in Leaf : leaf[k] \in Leaves
        /\ leaf' = [leaf EXCEPT ![l] = [leaf[l] EXCEPT !.due = TRUE]] /\ sends' = sends
    BY DEF IInv, TypeOK, NextAttemptComes
  <2>2. [leaf[l] EXCEPT !.due = TRUE] \in Leaves  BY <2>1 DEF Leaves
  <2>3. \A k \in Leaf : leaf'[k] \in Leaves /\ leaf'[k].status = leaf[k].status
                         /\ leaf'[k].by = leaf[k].by
    BY <2>1, <2>2 DEF Leaves, IInv, TypeOK
  <2>4. QED  BY <2>1, <2>2, <2>3 DEF IInv, TypeOK, RowInv, RowMoves
<1>b. Frame /\ RowInv'
  BY <1>a, RowStep DEF NextAttemptComes
<1>c. TypeOK'
  BY <1>a DEF IInv, TypeOK, NextAttemptComes
<1>d. task' = task
  BY DEF NextAttemptComes
<1>e. QED  BY <1>b, <1>c, <1>d, NoneMoves

\* A lease lapses.
LEMMA LapseKeeps ==
    ASSUME IInv, NEW l \in Leaf, LeaseLapses(l)
    PROVE  IInv' /\ Frame
<1>a. /\ leaf' \in [Leaf -> Leaves] /\ \A k \in Leaf : RowMoves(k)
      /\ \A k \in Leaf : leaf'[k].status = "processing" => leaf'[k].by \in Replica
  <2>1. /\ \A k \in Leaf : leaf[k] \in Leaves
        /\ leaf' = [leaf EXCEPT ![l] = [leaf[l] EXCEPT !.due = TRUE]] /\ sends' = sends
    BY DEF IInv, TypeOK, LeaseLapses
  <2>2. [leaf[l] EXCEPT !.due = TRUE] \in Leaves  BY <2>1 DEF Leaves
  <2>3. \A k \in Leaf : leaf'[k] \in Leaves /\ leaf'[k].status = leaf[k].status
                         /\ leaf'[k].by = leaf[k].by
    BY <2>1, <2>2 DEF Leaves, IInv, TypeOK
  <2>4. QED  BY <2>1, <2>2, <2>3 DEF IInv, TypeOK, RowInv, RowMoves
<1>b. Frame /\ RowInv'
  BY <1>a, RowStep DEF LeaseLapses
<1>c. TypeOK'
  <2>1. faults' \in Nat  BY DEF IInv, TypeOK, LeaseLapses
  <2>2. QED  BY <1>a, <2>1 DEF IInv, TypeOK, LeaseLapses
<1>d. task' = task
  BY DEF LeaseLapses
<1>e. QED  BY <1>b, <1>c, <1>d, NoneMoves

\* A message is scheduled.
LEMMA ScheduleKeeps ==
    ASSUME IInv, NEW l \in Leaf, ScheduleMessage(l)
    PROVE  IInv' /\ Frame
<1>a. /\ leaf' \in [Leaf -> Leaves] /\ \A k \in Leaf : RowMoves(k)
      /\ \A k \in Leaf : leaf'[k].status = "processing" => leaf'[k].by \in Replica
  <2>1. /\ leaf \in [Leaf -> Leaves]
        /\ leaf' = [leaf EXCEPT ![l] = Waiting(0)] /\ sends' = sends
    BY DEF IInv, TypeOK, ScheduleMessage
  <2>2. Waiting(0) \in Leaves /\ Waiting(0).status = "scheduled"  BY Built
  <2>3. QED  BY <2>1, <2>2 DEF RowMoves, ScheduleMessage, IInv, RowInv
<1>b. Frame /\ RowInv'
  BY <1>a, RowStep DEF ScheduleMessage
<1>c. TypeOK'
  BY <1>a DEF IInv, TypeOK, ScheduleMessage
<1>d. task' = task
  BY DEF ScheduleMessage
<1>e. QED  BY <1>b, <1>c, <1>d, NoneMoves

\* A broadcast is rescheduled.
LEMMA RescheduleKeeps ==
    ASSUME IInv, NEW x \in Job, RescheduleBulkJob(x)
    PROVE  IInv' /\ Frame
<1>a. /\ leaf' \in [Leaf -> Leaves] /\ \A k \in Leaf : RowMoves(k)
      /\ \A k \in Leaf : leaf'[k].status = "processing" => leaf'[k].by \in Replica
  <2>1. /\ \A k \in Leaf : leaf[k] \in Leaves
        /\ leaf' = [l \in Leaf |-> IF l \in LeavesOf(x) THEN [leaf[l] EXCEPT !.due = FALSE]
                                                        ELSE leaf[l]]
        /\ sends' = sends
    BY DEF IInv, TypeOK, RescheduleBulkJob
  <2>2. \A k \in Leaf : leaf'[k] \in Leaves /\ leaf'[k].status = leaf[k].status
                         /\ leaf'[k].by = leaf[k].by
    BY <2>1 DEF Leaves
  <2>3. QED  BY <2>1, <2>2 DEF RowMoves, IInv, RowInv
<1>b. Frame /\ RowInv'
  BY <1>a, RowStep DEF RescheduleBulkJob
<1>c. TypeOK'
  <2>1. moves' \in Nat  BY DEF IInv, TypeOK, RescheduleBulkJob
  <2>2. QED  BY <1>a, <2>1 DEF IInv, TypeOK, RescheduleBulkJob
<1>d. task' = task
  BY DEF RescheduleBulkJob
<1>e. QED  BY <1>b, <1>c, <1>d, NoneMoves

\* Due messages are claimed.
LEMMA ClaimScheduledKeeps ==
    ASSUME IInv, NEW d \in Replica, ClaimScheduledMessages(d)
    PROVE  IInv' /\ Frame
<1>0. task[d] \in Tasks /\ TaskInv(d)  BY DEF IInv, TypeOK, Actor
<1>a. /\ leaf' \in [Leaf -> Leaves] /\ \A k \in Leaf : RowMoves(k)
      /\ \A k \in Leaf : leaf'[k].status = "processing" => leaf'[k].by \in Replica
  <2>1. \A k \in Leaf : leaf[k] \in Leaves  BY DEF IInv, TypeOK
  <2>2. \A k \in Leaf : /\ Claimed(k, d) \in Leaves /\ Claimed(k, d).status = "processing"
                         /\ Claimed(k, d).by = d
    BY <2>1 DEF Claimed, Leaves, Pending
  <2>3. /\ leaf' = [l \in Leaf |-> IF l \in Plain /\ Due(l) THEN Claimed(l, d) ELSE leaf[l]]
        /\ sends' = sends
    BY DEF ClaimScheduledMessages
  <2>4. ASSUME NEW k \in Leaf
        PROVE  RowMoves(k) /\ (leaf'[k].status = "processing" => leaf'[k].by \in Replica)
    <3>1. CASE k \in Plain /\ Due(k)
      BY <3>1, <2>2, <2>3 DEF RowMoves, Due, Pending
    <3>2. CASE ~(k \in Plain /\ Due(k))
      BY <3>2, <2>3 DEF RowMoves, IInv, RowInv
    <3>3. QED  BY <3>1, <3>2
  <2>5. leaf' \in [Leaf -> Leaves]  BY <2>1, <2>2, <2>3
  <2>6. QED  BY <2>4, <2>5
<1>b. Frame /\ RowInv'
  BY <1>a, RowStep DEF ClaimScheduledMessages
<1> DEFINE t == [Idle EXCEPT !.phase = "rows", !.todo = {l \in Plain : Due(l)}]
<1>1. /\ t \in Tasks /\ t.phase = "rows" /\ t.jobs = {}
      /\ t.todo = {l \in Plain : Due(l)}
  BY Built DEF Tasks, Phases, Verdicts, Idle, Plain
<1>2. Go(d, t)
  BY DEF ClaimScheduledMessages
<1> HIDE DEF t
<1>3. /\ task' \in [Actor -> Tasks] /\ task'[d] = t
      /\ \A v \in Actor \ {d} : task'[v] = task[v]
  BY <1>1, <1>2, Moves DEF Actor
<1>4. TypeOK'
  BY <1>a, <1>3 DEF IInv, TypeOK, ClaimScheduledMessages
<1>6. TaskInv(d)'
  <2>1. \A k \in t.todo : leaf'[k].status # "absent"
    BY <1>1, <1>b DEF Frame, Due, Pending, Plain
  <2>2. QED  BY <1>1, <1>3, <2>1 DEF TaskInv, Named, Sealing, Locking, Finalizing,
     Reports, Reporting, Cleanup
<1>7. Unique'
  BY <1>1, <1>3, UniqueKept DEF Actor, Reports, Reporting, Cleanup
<1>8. QED  BY <1>b, <1>3, <1>4, <1>6, <1>7, OneMoves DEF Actor

\* The sweep looks for recipients without a connection ...
LEMMA FindKeeps ==
    ASSUME IInv, NEW d \in Replica, FindOrphanedBulkLeaves(d)
    PROVE  IInv' /\ Frame
<1>0. task[d] \in Tasks /\ TaskInv(d)  BY DEF IInv, TypeOK, Actor
<1> DEFINE O == {l \in Leaf \ Plain : leaf[l].status \in Pending /\ leaf[l].due
                                      /\ contact[l] \notin Linked}
           t == IF O = {} THEN Resume(d, {}) ELSE [Idle EXCEPT !.phase = "sweep", !.todo = O]
<1>1. O \subseteq Leaf /\ O \cap Plain = {} /\ \A l \in O : leaf[l].status # "absent"
  BY DEF Pending
<1>2. Go(d, t)  BY DEF FindOrphanedBulkLeaves
<1> HIDE DEF O
<1>3. /\ t \in Tasks /\ t.jobs = {} /\ t.todo \subseteq O
      /\ t.phase \in {"idle", "pick", "close", "sweep"}
  <2>1. CASE O = {}  BY <2>1, Built DEF Actor
  <2>2. CASE O # {}
    BY <2>2, <1>1, Built DEF Tasks, Phases, Idle
  <2>3. QED  BY <2>1, <2>2
<1> HIDE DEF t
<1>4. /\ task' \in [Actor -> Tasks] /\ task'[d] = t
      /\ \A v \in Actor \ {d} : task'[v] = task[v]
  BY <1>2, <1>3, Moves DEF Actor
<1>5. TypeOK'  BY <1>4 DEF IInv, TypeOK, FindOrphanedBulkLeaves
<1>6. Frame /\ RowInv'  BY QuietStep DEF FindOrphanedBulkLeaves
<1>7. TaskInv(d)'
  <2>1. leaf' = leaf  BY DEF FindOrphanedBulkLeaves
  <2>2. Plain' = Plain  BY DEF Plain
  <2>3. QED  BY <1>1, <1>3, <1>4, <2>1, <2>2 DEF TaskInv, Named, Sealing, Locking, Finalizing,
          Reports, Reporting, Cleanup
<1>8. Unique'  BY <1>3, <1>4, UniqueKept DEF Actor, Reports, Reporting, Cleanup
<1>9. QED  BY <1>4, <1>5, <1>6, <1>7, <1>8, OneMoves DEF Actor

\* ... and skips those that are still pending.
LEMMA SweepKeeps ==
    ASSUME IInv, NEW d \in Replica, SweepOrphanedBulkLeaves(d)
    PROVE  IInv' /\ Frame
<1>0. task[d] \in Tasks /\ TaskInv(d)  BY DEF IInv, TypeOK, Actor
<1> DEFINE O == {l \in task[d].todo : leaf[l].status \in Pending}
<1>01. O \subseteq Leaf \ Plain /\ \A k \in O : leaf[k].status \in Pending /\ ~LeafLocked(k)
  <2>1. task[d].phase = "sweep" /\ \A l \in task[d].todo : ~LeafLocked(l)
    BY DEF SweepOrphanedBulkLeaves
  <2>2. task[d].todo \subseteq Leaf /\ task[d].todo \cap Plain = {}
    BY <1>0, <2>1 DEF TaskInv, Named, Tasks
  <2>3. QED  BY <2>1, <2>2
<1>a. /\ leaf' \in [Leaf -> Leaves] /\ \A k \in Leaf : RowMoves(k)
      /\ \A k \in Leaf : leaf'[k].status = "processing" => leaf'[k].by \in Replica
  <2>1. Outcome("skipped") \in Leaves /\ Outcome("skipped").status = "skipped"
    BY Built DEF Settled
  <2>2. /\ leaf \in [Leaf -> Leaves] /\ sends' = sends
        /\ leaf' = [l \in Leaf |-> IF l \in O THEN Outcome("skipped") ELSE leaf[l]]
    BY DEF SweepOrphanedBulkLeaves, IInv, TypeOK
  <2> HIDE DEF O
  <2>4. ASSUME NEW k \in Leaf
        PROVE  RowMoves(k) /\ (leaf'[k].status = "processing" => leaf'[k].by \in Replica)
    <3>1. CASE k \in O  BY <3>1, <2>1, <2>2, <1>01 DEF RowMoves, Pending
    <3>2. CASE k \notin O  BY <3>2, <2>2 DEF RowMoves, IInv, RowInv
    <3>3. QED  BY <3>1, <3>2
  <2>5. leaf' \in [Leaf -> Leaves]  BY <2>1, <2>2
  <2>6. QED  BY <2>4, <2>5
<1>b. Frame /\ RowInv'
  BY <1>a, RowStep DEF SweepOrphanedBulkLeaves
<1> DEFINE t == Resume(d, {JobOf[l] : l \in O})
<1>2. Go(d, t)
  BY DEF SweepOrphanedBulkLeaves
<1> HIDE DEF O
<1>1. /\ t \in Tasks /\ t.phase \in {"idle", "pick", "close"} /\ t.todo = {}
      /\ t.jobs = {JobOf[l] : l \in O}
  <2>1. {JobOf[l] : l \in O} \in SUBSET Job
    BY <1>01, JobOfLeaf
  <2>2. QED  BY <2>1, Built DEF Actor
<1> HIDE DEF t
<1>3. /\ task' \in [Actor -> Tasks] /\ task'[d] = t
      /\ \A v \in Actor \ {d} : task'[v] = task[v]
  BY <1>1, <1>2, Moves DEF Actor
<1>4. TypeOK'
  BY <1>a, <1>3 DEF IInv, TypeOK, SweepOrphanedBulkLeaves
<1>6. TaskInv(d)'
  <2>1. \A x \in t.jobs : job'[x].status # "absent"
    BY <1>01, <1>1 DEF SweepOrphanedBulkLeaves, Pending, IInv, RowInv
  <2>2. QED  BY <1>1, <1>3, <2>1 DEF TaskInv, Named, Sealing, Locking, Finalizing,
          Reports, Reporting, Cleanup
<1>7. Unique'
  BY <1>1, <1>3, UniqueKept DEF Actor, Reports, Reporting, Cleanup
<1>8. QED  BY <1>b, <1>3, <1>4, <1>6, <1>7, OneMoves DEF Actor

\* A recipient is claimed.
LEMMA ClaimBulkKeeps ==
    ASSUME IInv, NEW d \in Replica, ClaimBulkLeaf(d)
    PROVE  IInv' /\ Frame
<1>1. PICK l \in Claimable :
         /\ leaf' = [leaf EXCEPT ![l] = Claimed(l, d)]
         /\ Go(d, [Idle EXCEPT !.phase = "held", !.leaf = l])
  BY DEF ClaimBulkLeaf
<1>2. /\ l \in Leaf \ Plain /\ leaf[l].status \in Pending /\ ~LeafLocked(l)
      /\ leaf \in [Leaf -> Leaves] /\ sends' = sends
  BY DEF Claimable, Due, IInv, TypeOK, ClaimBulkLeaf
<1>3. /\ Claimed(l, d) \in Leaves /\ Claimed(l, d).status = "processing"
      /\ Claimed(l, d).by = d
  BY <1>2 DEF Claimed, Leaves, Pending
<1>4. leaf' \in [Leaf -> Leaves]  BY <1>1, <1>2, <1>3
<1>5. \A k \in Leaf : RowMoves(k) /\ (leaf'[k].status = "processing" => leaf'[k].by \in Replica)
  <2> SUFFICES ASSUME NEW k \in Leaf
               PROVE  RowMoves(k) /\ (leaf'[k].status = "processing" => leaf'[k].by \in Replica)
    OBVIOUS
  <2>1. CASE k = l  BY <2>1, <1>1, <1>2, <1>3 DEF RowMoves, Pending
  <2>2. CASE k # l  BY <2>2, <1>1, <1>2 DEF RowMoves, IInv, RowInv
  <2>3. QED  BY <2>1, <2>2
<1>6. Frame /\ RowInv'  BY <1>4, <1>5, RowStep DEF ClaimBulkLeaf
<1> DEFINE t == [Idle EXCEPT !.phase = "held", !.leaf = l]
<1>7. t \in Tasks /\ t.phase = "held" /\ t.leaf = l /\ t.jobs = {} /\ t.todo = {}
  BY <1>2, Built DEF Tasks, Phases, Idle
<1>8. Go(d, t)  BY <1>1
<1> HIDE DEF t
<1>9. /\ task' \in [Actor -> Tasks] /\ task'[d] = t
      /\ \A v \in Actor \ {d} : task'[v] = task[v]
  BY <1>7, <1>8, Moves DEF Actor
<1>10. TypeOK'
  <2>1. eligible' \in BOOLEAN  BY DEF ClaimBulkLeaf
  <2>2. QED  BY <1>4, <1>9, <2>1 DEF IInv, TypeOK, ClaimBulkLeaf
<1>11. TaskInv(d)'
  <2>1. leaf'[l].status # "absent" /\ JobOf[l] \in Job
    BY <1>2, <1>4, <1>1, <1>3, JobOfLeaf
  <2>2. QED  BY <1>2, <1>7, <1>9, <2>1 DEF TaskInv, Named, Sealing, Locking, Finalizing,
     Reports, Reporting, Cleanup
<1>12. Unique'  BY <1>7, <1>9, UniqueKept DEF Actor, Reports, Reporting, Cleanup
<1>13. QED  BY <1>6, <1>9, <1>10, <1>11, <1>12, OneMoves DEF Actor

\* A row gets its outcome.
LEMMA SettleKeeps ==
    ASSUME IInv, NEW d \in Replica, SettleLeaf(d)
    PROVE  IInv' /\ Frame
<1>0. task[d] \in Tasks /\ TaskInv(d)  BY DEF IInv, TypeOK, Actor
<1>01. /\ task[d].phase = "settle" /\ task[d].leaf \in Leaf
       /\ leaf[task[d].leaf].status # "absent"
  BY <1>0 DEF SettleLeaf, TaskInv, Named
<1>a. /\ leaf' \in [Leaf -> Leaves] /\ \A k \in Leaf : RowMoves(k)
      /\ \A k \in Leaf : leaf'[k].status = "processing" => leaf'[k].by \in Replica
  <2> DEFINE l == task[d].leaf
             v == task[d].verdict
  <2>1. CASE ~Owns(d, l)
    <3>1. leaf' = leaf /\ sends' = sends  BY <2>1 DEF SettleLeaf
    <3>2. QED  BY <3>1 DEF RowMoves, IInv, TypeOK, RowInv
  <2>2. CASE Owns(d, l)
    <3>1. /\ leaf \in [Leaf -> Leaves] /\ sends \in [Leaf -> Nat]
          /\ leaf' = [leaf EXCEPT ![l] = AfterVerdict(l, v)]
          /\ sends' = IF v = "send" THEN [sends EXCEPT ![l] = @ + 1] ELSE sends
          /\ leaf[l].status = "processing"
      BY <2>2 DEF SettleLeaf, IInv, TypeOK, Owns
    <3>2. leaf[l].tries + 1 \in Nat  BY <1>01, <3>1 DEF Leaves
    <3>3. /\ AfterVerdict(l, v) \in Leaves
          /\ AfterVerdict(l, v).status \in Settled \cup {"scheduled"}
          /\ AfterVerdict(l, v).status = "sent" <=> v = "send"
      BY <3>2, Built DEF AfterVerdict, Settled
    <3>4. ~LeafLocked(l)
      BY <3>1 DEF LeafLocked, Canceling, IInv, TaskInv, Locking, Actor, Cancelable
    <3>5. ASSUME NEW k \in Leaf
          PROVE  RowMoves(k) /\ (leaf'[k].status = "processing" => leaf'[k].by \in Replica)
      <4>1. CASE k = l
        <5>1. leaf'[k] = AfterVerdict(l, v)  BY <4>1, <3>1
        <5>2. sends'[k] = IF v = "send" THEN sends[k] + 1 ELSE sends[k]  BY <4>1, <3>1
        <5>3. QED  BY <4>1, <5>1, <5>2, <3>1, <3>3, <3>4 DEF RowMoves, Settled, Pending
      <4>2. CASE k # l
        <5>1. leaf'[k] = leaf[k] /\ sends'[k] = sends[k]  BY <4>2, <3>1
        <5>2. QED  BY <5>1 DEF RowMoves, IInv, RowInv
      <4>3. QED  BY <4>1, <4>2
    <3>6. leaf' \in [Leaf -> Leaves]  BY <3>1, <3>3, <1>01
    <3>7. QED  BY <3>5, <3>6
  <2>3. QED  BY <2>1, <2>2
<1>b. Frame /\ RowInv'
  BY <1>a, RowStep DEF SettleLeaf
<1> DEFINE t == IF task[d].leaf \in Plain
                THEN [Idle EXCEPT !.phase = "rows", !.todo = task[d].todo]
                ELSE [Idle EXCEPT !.phase = "close", !.leaf = task[d].leaf,
                                  !.jobs = {JobOf[task[d].leaf]}]
<1>1. /\ t \in Tasks
      /\ t.phase \in {"rows", "close"} /\ t.todo \subseteq task[d].todo
      /\ \A x \in t.jobs : task[d].leaf \notin Plain /\ x = JobOf[task[d].leaf]
  <2>1. CASE task[d].leaf \in Plain
    BY <2>1, <1>0, Built DEF Tasks, Phases, Idle
  <2>2. CASE task[d].leaf \notin Plain
    <3>1. JobOf[task[d].leaf] \in Job  BY <2>2, <1>01, JobOfLeaf
    <3>2. t = [phase |-> "close", leaf |-> task[d].leaf, job |-> NoJob, todo |-> {},
               jobs |-> {JobOf[task[d].leaf]}, verdict |-> "none"]
      BY <2>2 DEF Idle
    <3>3. QED  BY <2>2, <3>1, <3>2, <1>0, <1>01 DEF Tasks, Phases, Verdicts
  <2>3. QED  BY <2>1, <2>2
<1>2. Go(d, t)
  BY DEF SettleLeaf
<1> HIDE DEF t
<1>3. /\ task' \in [Actor -> Tasks] /\ task'[d] = t
      /\ \A v \in Actor \ {d} : task'[v] = task[v]
  BY <1>1, <1>2, Moves DEF Actor
<1>4. TypeOK'
  <2>1. sends' \in [Leaf -> Nat]
    BY <1>01 DEF IInv, TypeOK, SettleLeaf
  <2>2. QED  BY <1>a, <1>3, <2>1 DEF IInv, TypeOK, SettleLeaf
<1>6. TaskInv(d)'
  <2>1. \A x \in t.jobs : job'[x].status # "absent"
    BY <1>1, <1>01 DEF SettleLeaf, IInv, RowInv
  <2>2. \A k \in t.todo : leaf'[k].status # "absent"
    BY <1>0, <1>1, <1>b DEF Frame, TaskInv, Named, Tasks
  <2>3. QED  BY <1>1, <1>3, <2>1, <2>2 DEF TaskInv, Named, Sealing, Locking, Finalizing,
     Reports, Reporting, Cleanup
<1>7. Unique'
  BY <1>1, <1>3, UniqueKept DEF Actor, Reports, Reporting, Cleanup
<1>8. QED  BY <1>b, <1>3, <1>4, <1>6, <1>7, OneMoves DEF Actor

\* A row is canceled.
LEMMA CancelMessageKeeps ==
    ASSUME IInv, NEW h \in Handler, NEW l \in Leaf, CancelScheduledMessage(h, l)
    PROVE  IInv' /\ Frame
<1>0. task[h] \in Tasks /\ TaskInv(h)  BY DEF IInv, TypeOK, Actor
<1>a. /\ leaf' \in [Leaf -> Leaves] /\ \A k \in Leaf : RowMoves(k)
      /\ \A k \in Leaf : leaf'[k].status = "processing" => leaf'[k].by \in Replica
  <2>1. /\ leaf \in [Leaf -> Leaves] /\ sends' = sends /\ ~LeafLocked(l)
        /\ leaf' = [leaf EXCEPT ![l] = Outcome("canceled")]
        /\ leaf[l].status \in Cancelable
    BY DEF CancelScheduledMessage, IInv, TypeOK
  <2>2. Outcome("canceled") \in Leaves /\ Outcome("canceled").status = "canceled"
    BY Built DEF Settled
  <2>3. ASSUME NEW k \in Leaf
        PROVE  RowMoves(k) /\ (leaf'[k].status = "processing" => leaf'[k].by \in Replica)
    <3>1. CASE k = l  BY <3>1, <2>1, <2>2 DEF RowMoves, Pending, Cancelable
    <3>2. CASE k # l  BY <3>2, <2>1 DEF RowMoves, IInv, RowInv
    <3>3. QED  BY <3>1, <3>2
  <2>4. leaf' \in [Leaf -> Leaves]  BY <2>1, <2>2
  <2>5. QED  BY <2>3, <2>4
<1>b. Frame /\ RowInv'
  BY <1>a, RowStep DEF CancelScheduledMessage
<1> DEFINE t == IF l \in Plain THEN Idle
                ELSE [Idle EXCEPT !.phase = "close", !.leaf = l, !.jobs = {JobOf[l]}]
<1>1. /\ t \in Tasks
      /\ t.phase \in {"idle", "close"} /\ t.todo = {}
      /\ \A x \in t.jobs : l \notin Plain /\ x = JobOf[l]
  <2>1. CASE l \in Plain  BY <2>1, Built DEF Idle
  <2>2. CASE l \notin Plain
    <3>1. JobOf[l] \in Job  BY <2>2, JobOfLeaf
    <3>2. t = [phase |-> "close", leaf |-> l, job |-> NoJob, todo |-> {},
               jobs |-> {JobOf[l]}, verdict |-> "none"]
      BY <2>2 DEF Idle
    <3>3. QED  BY <2>2, <3>1, <3>2 DEF Tasks, Phases, Verdicts
  <2>3. QED  BY <2>1, <2>2
<1>2. Go(h, t)
  BY DEF CancelScheduledMessage
<1> HIDE DEF t
<1>3. /\ task' \in [Actor -> Tasks] /\ task'[h] = t
      /\ \A v \in Actor \ {h} : task'[v] = task[v]
  BY <1>1, <1>2, Moves DEF Actor
<1>4. TypeOK'
  <2>1. moves' \in Nat  BY DEF IInv, TypeOK, CancelScheduledMessage
  <2>2. QED  BY <1>a, <1>3, <2>1 DEF IInv, TypeOK, CancelScheduledMessage
<1>6. TaskInv(h)'
  <2>1. \A x \in t.jobs : job'[x].status # "absent"
    BY <1>1 DEF CancelScheduledMessage, IInv, RowInv, Cancelable
  <2>2. QED  BY <1>1, <1>3, <2>1 DEF TaskInv, Named, Sealing, Locking, Finalizing,
     Reports, Reporting, Cleanup
<1>7. Unique'
  BY <1>1, <1>3, UniqueKept DEF Actor, Reports, Reporting, Cleanup
<1>8. QED  BY <1>b, <1>3, <1>4, <1>6, <1>7, OneMoves DEF Actor

-----------------------------------------------------------------------------
\* A job changes, rows do not: its status goes forward, and what it then says
\* of its rows is so.
LEMMA JobStep ==
    ASSUME IInv, leaf' = leaf, sends' = sends,
           NEW x \in Job, NEW r \in Jobs, job' = [job EXCEPT ![x] = r], ~JobLocked(x),
           job[x].status # "absent", r.status # "absent",
           job[x].status \in Finished => r.status = job[x].status,
           r.notices = job[x].notices,
           r.status \in Completed =>
              \A l \in LeavesOf(x) :
                 /\ leaf[l].status \in Settled
                 /\ r.status = "completed" => leaf[l].status \in {"sent", "canceled"}
    PROVE  Frame /\ RowInv'
<1>0. /\ job \in [Job -> Jobs] /\ job'[x] = r
      /\ \A y \in Job \ {x} : job'[y] = job[y]
  BY DEF IInv, TypeOK
<1>1. Frame
  <2>1. ASSUME NEW h \in Canceling
        PROVE  /\ job'[task[h].job].status \in Open
               /\ \A l \in task[h].todo : leaf'[l].status \in Cancelable
    <3>1. /\ Locking(h) /\ task[h].phase \in {"marked", "counted"}
          /\ task[h].job \in Job
      BY DEF IInv, TaskInv, Named, Canceling, Actor, Finalizing
    <3>2. task[h].job # x  BY DEF JobLocked
    <3>3. QED  BY <3>1, <3>2, <1>0 DEF Locking
  <2>2. ASSUME NEW w \in Actor, Reports(w)
        PROVE  job'[task[w].job].notices = job[task[w].job].notices
    <3>1. task[w].job \in Job
      BY <2>2 DEF IInv, TaskInv, Named, Finalizing, Reports
    <3>2. QED  BY <3>1, <1>0
  <2>3. QED  BY <1>0, <2>1, <2>2 DEF Frame
<1>2. SentIsRecorded'  BY DEF IInv, RowInv, SentIsRecorded
<1>3. ClosedMeansDrained'
  BY <1>0 DEF IInv, RowInv, ClosedMeansDrained, LeavesOf, Completed
<1>4. AtMostOne'
  <2>1. job[x].status \in Completed => r.status \in Completed  BY DEF Finished
  <2>2. job[x].notices <= IF job[x].status \in Completed THEN 1 ELSE 0
    BY DEF IInv, RowInv, AtMostOne
  <2>3. job[x].notices \in Nat  BY <1>0 DEF Jobs
  <2>4. r.notices <= IF r.status \in Completed THEN 1 ELSE 0  BY <2>1, <2>2, <2>3
  <2>5. QED  BY <1>0, <2>4 DEF IInv, RowInv, AtMostOne
<1>5. \A l \in Leaf \ Plain :
         leaf[l].status = "absent" <=> job'[JobOf[l]].status = "absent"
  BY <1>0, JobOfLeaf DEF IInv, RowInv
<1>6. QED
  BY <1>1, <1>2, <1>3, <1>4, <1>5 DEF IInv, RowInv, Plain

\* The notice of a job's result.
LEMMA NotifyKeeps ==
    ASSUME IInv, NEW w \in Actor, NotifyResult(w)
    PROVE  IInv' /\ Frame
<1>0. task[w] \in Tasks /\ TaskInv(w)  BY DEF IInv, TypeOK
<1> DEFINE x == task[w].job
           t == Resume(w, task[w].jobs)
<1>1. /\ task[w].phase = "notify" /\ Reports(w) /\ x \in Job
      /\ job[x].status \in Completed /\ job[x].notices = 0
      /\ job \in [Job -> Jobs] /\ job[x] \in Jobs
  BY <1>0 DEF NotifyResult, TaskInv, Named, Sealing, Finalizing, Reports, Reporting, IInv, TypeOK
<1>2. t \in Tasks /\ t.phase \in {"idle", "pick", "close"} /\ t.jobs = task[w].jobs /\ t.todo = {}
  BY <1>0, Built DEF Tasks
<1>3. Go(w, t)  BY DEF NotifyResult, Return
<1> DEFINE r == [job[x] EXCEPT !.notices = job[x].notices + 1]
<1>4. r \in Jobs /\ r.status = job[x].status /\ r.notices = 1  BY <1>1 DEF Jobs
<1>5. job' = [job EXCEPT ![x] = r]  BY <1>1 DEF NotifyResult
<1> HIDE DEF t, r
<1>6. /\ task' \in [Actor -> Tasks] /\ task'[w] = t
      /\ \A v \in Actor \ {w} : task'[v] = task[v]
  BY <1>2, <1>3, Moves
<1>7. /\ job' \in [Job -> Jobs] /\ job'[x] = r /\ \A y \in Job \ {x} : job'[y] = job[y]
      /\ \A y \in Job : job'[y].status = job[y].status
  BY <1>1, <1>4, <1>5
<1>8. leaf' = leaf /\ sends' = sends  BY DEF NotifyResult
<1>9. TypeOK'  BY <1>6, <1>7 DEF IInv, TypeOK, NotifyResult
<1>10. Frame
  <2>1. ASSUME NEW v \in Actor, Reports(v), task'[v] = task[v]
        PROVE  job'[task[v].job].notices = job[task[v].job].notices
    <3>1. v # w  BY <2>1, <1>1, <1>2, <1>6
    <3>2. task[v].job # x  BY <3>1, <2>1, <1>1 DEF IInv, Unique
    <3>3. task[v].job \in Job
      BY <2>1 DEF IInv, TaskInv, Named, Finalizing, Reports
    <3>4. QED  BY <3>2, <3>3, <1>7
  <2>2. ASSUME NEW h \in Canceling
        PROVE  /\ job'[task[h].job].status \in Open
               /\ \A l \in task[h].todo : leaf'[l].status \in Cancelable
    <3>1. /\ Locking(h) /\ task[h].phase \in {"marked", "counted"}
          /\ task[h].job \in Job
      BY DEF IInv, TaskInv, Named, Canceling, Actor, Finalizing
    <3>2. QED  BY <3>1, <1>7, <1>8 DEF Locking
  <2>3. QED  BY <1>7, <1>8, <2>1, <2>2 DEF Frame
<1>11. RowInv'
  <2>1. SentIsRecorded' /\ ClosedMeansDrained'
    BY <1>7, <1>8 DEF IInv, RowInv, SentIsRecorded, ClosedMeansDrained, LeavesOf
  <2>2. AtMostOne'
    BY <1>1, <1>4, <1>7 DEF IInv, RowInv, AtMostOne
  <2>3. \A l \in Leaf \ Plain : job'[JobOf[l]].status = job[JobOf[l]].status
    BY <1>7, JobOfLeaf
  <2>4. QED  BY <1>8, <2>1, <2>2, <2>3 DEF IInv, RowInv, Plain
<1>12. TaskInv(w)'
  <2>1. \A y \in t.jobs : job'[y].status # "absent"
    BY <1>0, <1>2, <1>7 DEF TaskInv, Named, Tasks
  <2>2. QED
    BY <1>2, <1>6, <2>1 DEF TaskInv, Named, Sealing, Locking, Finalizing,
       Reports, Reporting, Cleanup
<1>13. Unique'  BY <1>2, <1>6, UniqueKept DEF Reports, Reporting, Cleanup
<1>14. QED  BY <1>6, <1>9, <1>10, <1>11, <1>12, <1>13, OneMoves

\* A claimed recipient's job is marked running.
LEMMA MarkRunningKeeps ==
    ASSUME IInv, NEW d \in Replica, MarkBulkJobRunning(d)
    PROVE  IInv' /\ Frame
<1>0. task[d] \in Tasks /\ TaskInv(d)  BY DEF IInv, TypeOK, Actor
<1>1. /\ task[d].phase = "held" /\ task[d].leaf \in Leaf
      /\ JobOf[task[d].leaf] \in Job /\ leaf[task[d].leaf].status # "absent"
  BY <1>0 DEF MarkBulkJobRunning, TaskInv, Named
<1> DEFINE t == [task[d] EXCEPT !.phase = "examine"]
           x == JobOf[task[d].leaf]
<1>2. /\ t \in Tasks /\ t.phase = "examine" /\ t.leaf = task[d].leaf
      /\ t.jobs = task[d].jobs /\ t.todo = task[d].todo
  BY <1>0 DEF Tasks, Phases
<1>3. Go(d, t)  BY DEF MarkBulkJobRunning
<1>4. x \in Job /\ ~JobLocked(x) /\ job[x] \in Jobs /\ job \in [Job -> Jobs]
  BY <1>1 DEF MarkBulkJobRunning, IInv, TypeOK
<1>4a. job' = IF job[x].status = "scheduled" THEN [job EXCEPT ![x].status = "running"] ELSE job
  BY DEF MarkBulkJobRunning
<1> HIDE DEF t, x
<1>5. /\ task' \in [Actor -> Tasks] /\ task'[d] = t
      /\ \A v \in Actor \ {d} : task'[v] = task[v]
  BY <1>2, <1>3, Moves DEF Actor
<1>6. leaf' = leaf /\ sends' = sends  BY DEF MarkBulkJobRunning
<1>7. job' \in [Job -> Jobs] /\ Frame /\ RowInv'
  <2>1. CASE job[x].status = "scheduled"
    <3> DEFINE r == [job[x] EXCEPT !.status = "running"]
    <3>1. /\ r \in Jobs /\ r.status = "running" /\ r.notices = job[x].notices
      BY <1>4 DEF Jobs, Open
    <3>2. job' = [job EXCEPT ![x] = r]
      BY <2>1, <1>4, <1>4a
    <3> HIDE DEF r
    <3>4. Frame /\ RowInv'
      BY <2>1, <3>1, <3>2, <1>4, <1>6, JobStep DEF Finished, Completed
    <3>5. QED  BY <3>1, <3>2, <3>4, <1>4
  <2>2. CASE job[x].status # "scheduled"
    BY <2>2, <1>4, <1>4a, <1>6, QuietStep
  <2>3. QED  BY <2>1, <2>2
<1>8. TypeOK'  BY <1>5, <1>7 DEF IInv, TypeOK, MarkBulkJobRunning
<1>9. TaskInv(d)'
  <2>1. \A y \in t.jobs : job'[y].status # "absent"
    BY <1>0, <1>2, <1>7 DEF Frame, TaskInv, Named, Tasks
  <2>2. QED
    BY <1>0, <1>1, <1>2, <1>5, <1>6, <2>1 DEF TaskInv, Named, Sealing, Locking, Finalizing,
     Reports, Reporting, Cleanup
<1>10. Unique'  BY <1>2, <1>5, UniqueKept DEF Actor, Reports, Reporting, Cleanup
<1>11. QED  BY <1>5, <1>7, <1>8, <1>9, <1>10, OneMoves DEF Actor

\* A job gets its result.
LEMMA StampKeeps ==
    ASSUME IInv, NEW w \in Actor, StampBulkJob(w)
    PROVE  IInv' /\ Frame
<1>0. task[w] \in Tasks /\ TaskInv(w)  BY DEF IInv, TypeOK
<1> DEFINE x == task[w].job
           v == task[w].verdict
           go == v = "canceled" \/ job[x].status \in Open
           t == IF go THEN [task[w] EXCEPT !.phase = "messages"] ELSE Resume(w, task[w].jobs)
           r == [job[x] EXCEPT !.status = IF v = "canceled" THEN job[x].status ELSE v,
                               !.closed = TRUE]
<1>1. /\ task[w].phase = "stamp" /\ ~JobLocked(x)
      /\ x \in Job /\ job[x] \in Jobs /\ job \in [Job -> Jobs] /\ job[x].status # "absent"
      /\ v = "canceled" => job[x].status = "canceled"
      /\ v # "canceled" =>
            /\ v \in Completed
            /\ \A l \in LeavesOf(x) :
                  /\ leaf[l].status \in Settled
                  /\ v = "completed" => leaf[l].status \in {"sent", "canceled"}
  BY <1>0 DEF StampBulkJob, TaskInv, Named, Sealing, Finalizing, IInv, TypeOK
<1>2. /\ t \in Tasks /\ t.jobs = task[w].jobs /\ t.todo \subseteq task[w].todo
      /\ t.phase \in {"idle", "pick", "close", "messages"}
      /\ t.phase = "messages" => go /\ t.job = x /\ t.verdict = v
  <2>1. CASE go  BY <2>1, <1>0 DEF Tasks, Phases, Cleanup
  <2>2. CASE ~go  BY <2>2, <1>0, Built DEF Tasks
  <2>3. QED  BY <2>1, <2>2
<1>3. Go(w, t)  BY DEF StampBulkJob, Return
<1>4. leaf' = leaf /\ sends' = sends  BY DEF StampBulkJob
<1>5. go => job' = [job EXCEPT ![x] = r]  BY <1>1 DEF StampBulkJob
<1>6. ~go => job' = job  BY DEF StampBulkJob
<1>7. go => /\ r \in Jobs /\ r.notices = job[x].notices
            /\ r.status = IF v = "canceled" THEN "canceled" ELSE v
  BY <1>1 DEF Jobs
<1>7a. go /\ v # "canceled" => job[x].status \in Open /\ job[x].notices = 0
  <2>1. go /\ v # "canceled" => job[x].status \in Open  OBVIOUS
  <2>2. job[x].notices \in Nat  BY <1>1 DEF Jobs
  <2>3. QED  BY <2>1, <2>2, <1>1 DEF IInv, RowInv, AtMostOne, Open, Completed
<1> HIDE DEF t, r
<1>8. /\ task' \in [Actor -> Tasks] /\ task'[w] = t
      /\ \A u \in Actor \ {w} : task'[u] = task[u]
  BY <1>2, <1>3, Moves
<1>9. job' \in [Job -> Jobs] /\ Frame /\ RowInv'
  <2>1. CASE go
    <3>1. /\ r.status # "absent"
          /\ job[x].status \in Finished => r.status = job[x].status
      BY <2>1, <1>1, <1>7 DEF Finished, Completed, Open
    <3>2. r.status \in Completed =>
             \A l \in LeavesOf(x) :
                /\ leaf[l].status \in Settled
                /\ r.status = "completed" => leaf[l].status \in {"sent", "canceled"}
      BY <2>1, <1>1, <1>7 DEF Completed
    <3>3. Frame /\ RowInv'
      BY <2>1, <3>1, <3>2, <1>1, <1>4, <1>5, <1>7, JobStep
    <3>4. QED  BY <2>1, <3>3, <1>1, <1>5, <1>7
  <2>2. CASE ~go  BY <2>2, <1>1, <1>4, <1>6, QuietStep
  <2>3. QED  BY <2>1, <2>2
<1>10. TypeOK'  BY <1>8, <1>9 DEF IInv, TypeOK, StampBulkJob
<1>11. TaskInv(w)'
  <2>1. \A y \in t.jobs : job'[y].status # "absent"
    BY <1>0, <1>2, <1>9 DEF Frame, TaskInv, Named, Tasks
  <2>2. \A l \in t.todo : leaf'[l].status # "absent"
    BY <1>0, <1>2, <1>4 DEF TaskInv, Named
  <2>3. t.phase = "messages" =>
           /\ job'[x].status # "absent"
           /\ v \in Completed => job'[x].status \in Completed /\ job'[x].notices = 0
    BY <1>1, <1>2, <1>5, <1>7, <1>7a DEF Completed
  <2>4. QED
    BY <1>1, <1>2, <1>8, <2>1, <2>2, <2>3 DEF TaskInv, Named, Sealing, Locking, Finalizing,
       Reports, Reporting, Cleanup
<1>12. Unique'
  <2>1. ASSUME NEW u \in Actor \ {w}, Reports(w)', Reports(u)', task'[u].job = task'[w].job
        PROVE  FALSE
    <3>1. t.phase = "messages" /\ t.verdict \in Completed
      BY <2>1, <1>2, <1>8 DEF Reports, Reporting, Cleanup
    <3>2. job[x].status \in Open  BY <3>1, <1>2, <1>7a DEF Completed
    <3>3. Reports(u) /\ task[u].job = x  BY <2>1, <3>1, <1>2, <1>8 DEF Reports
    <3>4. job[x].status \in Completed  BY <3>3 DEF IInv, TaskInv, Sealing
    <3>5. QED  BY <3>2, <3>4 DEF Open, Completed
  <2>2. \A u \in Actor \ {w} : Reports(u)' <=> Reports(u)  BY <1>8 DEF Reports
  <2>3. \A u, y \in Actor : (Reports(u) /\ Reports(y) /\ task[u].job = task[y].job => u = y)'
    BY <2>1, <2>2, <1>8 DEF IInv, Unique
  <2>4. QED  BY <2>3, <1>2, <1>8 DEF IInv, Unique, Actor
<1>13. QED  BY <1>8, <1>9, <1>10, <1>11, <1>12, OneMoves

\* A broadcast is created.
LEMMA CreateKeeps ==
    ASSUME IInv, NEW x \in Job, CreateBulkJob(x)
    PROVE  IInv' /\ Frame
<1> DEFINE r == [job[x] EXCEPT !.status = "scheduled"]
<1>1. /\ job[x].status = "absent" /\ job \in [Job -> Jobs] /\ job[x] \in Jobs
      /\ sends' = sends /\ task' = task
      /\ leaf \in [Leaf -> Leaves]
  BY DEF CreateBulkJob, IInv, TypeOK
<1>2. r \in Jobs /\ r.status = "scheduled" /\ r.notices = job[x].notices
  BY <1>1 DEF Jobs, Open
<1>3. job' = [job EXCEPT ![x] = r]  BY <1>1 DEF CreateBulkJob
<1> HIDE DEF r
<1>4. /\ job' \in [Job -> Jobs] /\ job'[x] = r /\ \A y \in Job \ {x} : job'[y] = job[y]
  BY <1>1, <1>2, <1>3
<1>5. \A l \in LeavesOf(x) : leaf[l].status = "absent" /\ l \in Leaf \ Plain
  BY <1>1, NoneAssumption DEF IInv, RowInv, LeavesOf, Plain
<1>6. /\ leaf' \in [Leaf -> Leaves]
      /\ \A l \in LeavesOf(x) : leaf'[l].status \in {"scheduled", "skipped"}
      /\ \A l \in Leaf : l \notin LeavesOf(x) => leaf'[l] = leaf[l]
  <2>1. /\ Waiting(0) \in Leaves /\ Waiting(0).status = "scheduled"
        /\ Outcome("skipped") \in Leaves /\ Outcome("skipped").status = "skipped"
    BY Built DEF Settled
  <2>2. leaf' = [l \in Leaf |->
                   IF l \in LeavesOf(x)
                   THEN IF contact[l] = "fit" THEN Waiting(0) ELSE Outcome("skipped")
                   ELSE leaf[l]]
    BY DEF CreateBulkJob
  <2>3. QED  BY <1>1, <2>1, <2>2 DEF LeavesOf
<1>7. TypeOK'  BY <1>1, <1>4, <1>6 DEF IInv, TypeOK, CreateBulkJob
<1>8. Frame
  <2>1. ASSUME NEW h \in Canceling
        PROVE  /\ job'[task[h].job].status \in Open
               /\ \A l \in task[h].todo : leaf'[l].status \in Cancelable
    <3>1. /\ Locking(h) /\ task[h].phase \in {"marked", "counted"}
          /\ task[h].job \in Job /\ task[h] \in Tasks
      BY DEF IInv, TypeOK, TaskInv, Named, Canceling, Actor, Finalizing
    <3>2. task[h].job # x  BY <3>1, <1>1 DEF Locking, Open
    <3>3. \A l \in task[h].todo : l \in Leaf /\ l \notin LeavesOf(x)
      BY <3>1, <3>2 DEF Locking, LeavesOf, Tasks
    <3>4. QED  BY <3>1, <3>2, <3>3, <1>4, <1>6 DEF Locking
  <2>2. \A l \in Leaf : leaf[l].status # "absent" => leaf'[l] = leaf[l]  BY <1>5, <1>6
  <2>3. \A l \in Leaf : leaf[l].status \in Settled => leaf'[l].status = leaf[l].status
    BY <2>2 DEF Settled
  <2>4. ASSUME NEW w \in Actor, Reports(w)
        PROVE  job'[task[w].job].notices = job[task[w].job].notices
    <3>1. task[w].job \in Job
      BY <2>4 DEF IInv, TaskInv, Named, Finalizing, Reports
    <3>2. QED  BY <3>1, <1>2, <1>4
  <2>5. QED  BY <1>1, <1>2, <1>4, <2>1, <2>2, <2>3, <2>4 DEF Frame, Finished, Completed
<1>9. RowInv'
  <2>1. SentIsRecorded'
    <3> SUFFICES ASSUME NEW l \in Leaf
                 PROVE  sends[l] = IF leaf'[l].status = "sent" THEN 1 ELSE 0
      BY <1>1 DEF SentIsRecorded
    <3>1. sends[l] = IF leaf[l].status = "sent" THEN 1 ELSE 0
      BY DEF IInv, RowInv, SentIsRecorded
    <3>2. CASE l \in LeavesOf(x)  BY <3>1, <3>2, <1>5, <1>6
    <3>3. CASE l \notin LeavesOf(x)  BY <3>1, <3>3, <1>6
    <3>4. QED  BY <3>2, <3>3
  <2>2. \A y \in Job \ {x} : \A l \in LeavesOf(y) : l \in Leaf /\ leaf'[l] = leaf[l]
    BY <1>6 DEF LeavesOf
  <2>3. ClosedMeansDrained'
    <3> SUFFICES ASSUME NEW y \in Job, NEW l \in LeavesOf(y), job'[y].status \in Completed
                 PROVE  /\ leaf'[l].status \in Settled
                        /\ job'[y].status = "completed"
                              => leaf'[l].status \in {"sent", "canceled"}
      BY DEF ClosedMeansDrained, LeavesOf, Completed
    <3>1. y # x  BY <1>2, <1>4 DEF Completed
    <3>2. QED  BY <3>1, <2>2, <1>4 DEF IInv, RowInv, ClosedMeansDrained
  <2>4. AtMostOne'
    BY <1>1, <1>2, <1>4 DEF IInv, RowInv, AtMostOne, Completed
  <2>7. \A l \in Leaf \ Plain :
           leaf'[l].status = "absent" <=> job'[JobOf[l]].status = "absent"
    BY <1>2, <1>4, <1>6, JobOfLeaf DEF IInv, RowInv, LeavesOf
  <2>8. \A l \in Leaf : leaf'[l].status = "processing" => leaf'[l].by \in Replica
    BY <1>6 DEF IInv, RowInv
  <2>9. QED
    BY <2>1, <2>3, <2>4, <2>7, <2>8, <1>1, <1>4 DEF RowInv, Plain
<1>10. QED  BY <1>1, <1>7, <1>8, <1>9, NoneMoves

\* A cancellation commits.
LEMMA CommitCancelKeeps ==
    ASSUME IInv, NEW h \in Handler, CommitCancel(h)
    PROVE  IInv' /\ Frame
<1>0. task[h] \in Tasks /\ TaskInv(h)  BY DEF IInv, TypeOK, Actor
<1> DEFINE x == task[h].job
           t == IF task[h].verdict = "busy" THEN Idle
                ELSE [Idle EXCEPT !.phase = "messages", !.job = x]
           r == [job[x] EXCEPT !.status = "canceled", !.closed = task[h].verdict # "busy"]
<1>1. /\ task[h].phase = "counted" /\ x \in Job /\ job[x].status \in Open
      /\ \A l \in task[h].todo : l \in Leaf /\ JobOf[l] = x /\ leaf[l].status \in Cancelable
      /\ job \in [Job -> Jobs] /\ job[x] \in Jobs /\ leaf \in [Leaf -> Leaves]
      /\ sends' = sends
  BY <1>0 DEF CommitCancel, TaskInv, Named, Locking, Finalizing, IInv, TypeOK, Tasks
<1>2. /\ t \in Tasks /\ t.jobs = {} /\ t.todo = {} /\ t.phase \in {"idle", "messages"}
      /\ t.phase = "messages" => t.job = x /\ t.verdict = "none"
  <2>1. CASE task[h].verdict = "busy"  BY <2>1, Built DEF Idle
  <2>2. CASE task[h].verdict # "busy"
    <3>1. t = [phase |-> "messages", leaf |-> NoLeaf, job |-> x, todo |-> {}, jobs |-> {},
               verdict |-> "none"]
      BY <2>2 DEF Idle
    <3> HIDE DEF t
    <3>2. QED  BY <3>1, <1>1 DEF Tasks, Phases, Verdicts, Cleanup
  <2>3. QED  BY <2>1, <2>2
<1>3. Go(h, t)  BY DEF CommitCancel
<1>4. r \in Jobs /\ r.status = "canceled" /\ r.notices = job[x].notices
  BY <1>1 DEF Jobs
<1>5. job' = [job EXCEPT ![x] = r]
  BY <1>1 DEF CommitCancel, Jobs
<1> HIDE DEF t, r
<1>6. /\ task' \in [Actor -> Tasks] /\ task'[h] = t
      /\ \A v \in Actor \ {h} : task'[v] = task[v]
  BY <1>2, <1>3, Moves DEF Actor
<1>7. /\ job' \in [Job -> Jobs] /\ job'[x] = r /\ \A y \in Job \ {x} : job'[y] = job[y]
  BY <1>1, <1>4, <1>5
<1>8. /\ leaf' \in [Leaf -> Leaves]
      /\ \A l \in task[h].todo : leaf'[l].status = "canceled"
      /\ \A l \in Leaf : l \notin task[h].todo => leaf'[l] = leaf[l]
  <2>1. Outcome("canceled") \in Leaves /\ Outcome("canceled").status = "canceled"
    BY Built DEF Settled
  <2>2. leaf' = [l \in Leaf |-> IF l \in task[h].todo THEN Outcome("canceled") ELSE leaf[l]]
    BY DEF CommitCancel
  <2>3. QED  BY <1>1, <2>1, <2>2
<1>9. TypeOK'  BY <1>6, <1>7, <1>8 DEF IInv, TypeOK, CommitCancel
<1>10. Frame
  <2>1. ASSUME NEW g \in Canceling, task'[g] = task[g]
        PROVE  /\ job'[task[g].job].status \in Open
               /\ \A l \in task[g].todo : leaf'[l].status \in Cancelable
    <3>1. /\ Locking(g) /\ task[g].phase \in {"marked", "counted"}
          /\ task[g].job \in Job /\ task[g] \in Tasks /\ g \in Handler
      BY DEF IInv, TypeOK, TaskInv, Named, Canceling, Actor, Finalizing
    <3>2. g # h  BY <2>1, <3>1, <1>2, <1>6
    <3>3. task[g].job # x  BY <3>1, <3>2, <1>1 DEF IInv, Unique
    <3>4. \A l \in task[g].todo : l \in Leaf /\ l \notin task[h].todo
      BY <3>1, <3>3, <1>1 DEF Locking, Tasks
    <3>5. QED  BY <3>1, <3>3, <3>4, <1>7, <1>8 DEF Locking
  <2>2. \A l \in Leaf : leaf[l].status # "absent" => leaf'[l].status # "absent"
    BY <1>8
  <2>3. \A l \in Leaf : leaf[l].status \in Settled =>
           \/ leaf'[l].status = leaf[l].status
           \/ leaf[l].status = "failed" /\ leaf'[l].status = "canceled"
    BY <1>1, <1>8 DEF Settled, Cancelable
  <2>4. \A y \in Job : /\ job[y].status # "absent" => job'[y].status # "absent"
                       /\ job[y].status \in Finished => job'[y].status = job[y].status
    BY <1>1, <1>4, <1>7 DEF Finished, Completed, Open
  <2>5. ASSUME NEW w \in Actor, Reports(w)
        PROVE  job'[task[w].job].notices = job[task[w].job].notices
    <3>1. task[w].job \in Job
      BY <2>5 DEF IInv, TaskInv, Named, Finalizing, Reports
    <3>2. QED  BY <3>1, <1>4, <1>7
  <2>6. QED  BY <2>1, <2>2, <2>3, <2>4, <2>5 DEF Frame
<1>11. RowInv'
  <2>1. SentIsRecorded'
    <3> SUFFICES ASSUME NEW l \in Leaf
                 PROVE  sends[l] = IF leaf'[l].status = "sent" THEN 1 ELSE 0
      BY <1>1 DEF SentIsRecorded
    <3>1. sends[l] = IF leaf[l].status = "sent" THEN 1 ELSE 0
      BY DEF IInv, RowInv, SentIsRecorded
    <3>2. CASE l \in task[h].todo  BY <3>1, <3>2, <1>1, <1>8 DEF Cancelable
    <3>3. CASE l \notin task[h].todo  BY <3>1, <3>3, <1>8
    <3>4. QED  BY <3>2, <3>3
  <2>2. \A y \in Job \ {x} : \A l \in LeavesOf(y) : l \in Leaf /\ leaf'[l] = leaf[l]
    BY <1>1, <1>8 DEF LeavesOf
  <2>3. ClosedMeansDrained'
    <3> SUFFICES ASSUME NEW y \in Job, NEW l \in LeavesOf(y), job'[y].status \in Completed
                 PROVE  /\ leaf'[l].status \in Settled
                        /\ job'[y].status = "completed"
                              => leaf'[l].status \in {"sent", "canceled"}
      BY DEF ClosedMeansDrained, LeavesOf, Completed
    <3>1. y # x  BY <1>4, <1>7 DEF Completed
    <3>2. QED  BY <3>1, <2>2, <1>7 DEF IInv, RowInv, ClosedMeansDrained
  <2>4. AtMostOne'
    BY <1>1, <1>4, <1>7 DEF IInv, RowInv, AtMostOne, Open, Completed
  <2>7. \A l \in Leaf \ Plain :
           leaf'[l].status = "absent" <=> job'[JobOf[l]].status = "absent"
    <3> SUFFICES ASSUME NEW l \in Leaf \ Plain
                 PROVE  leaf'[l].status = "absent" <=> job'[JobOf[l]].status = "absent"
      OBVIOUS
    <3>1. JobOf[l] \in Job  BY JobOfLeaf
    <3>2. leaf[l].status = "absent" <=> job[JobOf[l]].status = "absent"
      BY DEF IInv, RowInv
    <3>3. leaf'[l].status = "absent" <=> leaf[l].status = "absent"
      BY <1>1, <1>8 DEF Cancelable
    <3>4. job'[JobOf[l]].status = "absent" <=> job[JobOf[l]].status = "absent"
      BY <3>1, <1>1, <1>4, <1>7 DEF Open
    <3>5. QED  BY <3>2, <3>3, <3>4
  <2>8. \A l \in Leaf : leaf'[l].status = "processing" => leaf'[l].by \in Replica
    BY <1>8 DEF IInv, RowInv
  <2>9. QED
    BY <2>1, <2>3, <2>4, <2>7, <2>8, <1>1 DEF RowInv, Plain
<1>12. TaskInv(h)'
  BY <1>1, <1>2, <1>4, <1>6, <1>7 DEF TaskInv, Named, Sealing, Locking, Finalizing,
     Reports, Reporting, Cleanup, Completed
<1>13. Unique'
  BY <1>2, <1>6, UniqueKept DEF Actor, Reports, Reporting, Cleanup,
     Completed
<1>14. QED  BY <1>6, <1>9, <1>10, <1>11, <1>12, <1>13, OneMoves DEF Actor

-----------------------------------------------------------------------------
\* A replica's or a handler's step on the way to a job's result.
LEMMA FinalizingKeeps ==
    ASSUME IInv, NEW w \in Actor, Finalize(w)
    PROVE  IInv' /\ Frame
<1>1. CASE FinalizeBulkJob(w)  BY <1>1, FinalizeKeeps
<1>2. CASE GetBulkJobProgress(w)  BY <1>2, ProgressKeeps
<1>3. CASE StampBulkJob(w)  BY <1>3, StampKeeps
<1>4. CASE NotifyResult(w)  BY <1>4, NotifyKeeps
<1>5. QED  BY <1>1, <1>2, <1>3, <1>4, CleaningKeeps DEF Finalize

\* A replica's step.
LEMMA PollKeeps ==
    ASSUME IInv, NEW d \in Replica, Poll(d) \/ TransientError(d)
    PROVE  IInv' /\ Frame
<1>1. CASE ClaimScheduledMessages(d)  BY <1>1, ClaimScheduledKeeps
<1>2. CASE FindOrphanedBulkLeaves(d) \/ SweepOrphanedBulkLeaves(d)
  BY <1>2, FindKeeps, SweepKeeps
<1>3. CASE ClaimBulkLeaf(d)  BY <1>3, ClaimBulkKeeps
<1>4. CASE EndCycle(d)  BY <1>4, EndCycleKeeps
<1>5. CASE MarkBulkJobRunning(d)  BY <1>5, MarkRunningKeeps
<1>6. CASE ExamineBulk(d)  BY <1>6, ExamineBulkKeeps
<1>7. CASE ExaminePlain(d)  BY <1>7, ExaminePlainKeeps
<1>8. CASE SettleLeaf(d)  BY <1>8, SettleKeeps
<1>9. CASE TransientError(d)  BY <1>9, TransientKeeps
<1>10. CASE Finalize(d)  BY <1>10, FinalizingKeeps DEF Actor
<1>11. QED
  BY <1>1, <1>2, <1>3, <1>4, <1>5, <1>6, <1>7, <1>8, <1>9, <1>10 DEF Poll

\* The inductive step: every action keeps the invariant, and outcomes stand.
LEMMA StepKeeps ==
    ASSUME IInv, [Next]_vars
    PROVE  IInv' /\ Frame
<1>1. CASE UNCHANGED vars
  <2>1. Frame /\ RowInv'  BY <1>1, QuietStep DEF vars
  <2>2. TypeOK'  BY <1>1 DEF IInv, TypeOK, vars
  <2>3. QED  BY <2>1, <2>2, <1>1, NoneMoves DEF vars
<1>2. ASSUME NEW d \in Replica, Poll(d) \/ TransientError(d)  PROVE IInv' /\ Frame
  BY <1>2, PollKeeps
<1>3. ASSUME NEW h \in Handler, Answer(h)  PROVE IInv' /\ Frame
  BY <1>3, CountKeeps, CommitCancelKeeps, FinalizingKeeps DEF Answer, Actor
<1>4. ASSUME NEW h \in Handler, NEW l \in Leaf, CancelScheduledMessage(h, l)
      PROVE IInv' /\ Frame
  BY <1>4, CancelMessageKeeps
<1>5. ASSUME NEW h \in Handler, NEW x \in Job, CancelBulkJob(h, x)  PROVE IInv' /\ Frame
  BY <1>5, CancelKeeps
<1>6. ASSUME NEW l \in Leaf, \/ ScheduleMessage(l) \/ LeaseLapses(l)
                              \/ ContactChanges(l) \/ ContactReturns(l)
      PROVE IInv' /\ Frame
  BY <1>6, ScheduleKeeps, ContactKeeps, LapseKeeps
<1>7. ASSUME NEW x \in Job, CreateBulkJob(x) \/ RescheduleBulkJob(x)  PROVE IInv' /\ Frame
  BY <1>7, CreateKeeps, RescheduleKeeps
<1>8. ASSUME NEW w \in Actor, Crash(w) \/ CleanupFails(w) \/ FinalizeFails(w)
      PROVE IInv' /\ Frame
  BY <1>8, CrashKeeps, CleaningKeeps, FinalizeFailsKeeps
<1>9. CASE Disconnect  BY <1>9, DisconnectKeeps
<1>10. CASE TimePasses
  BY <1>10, NextAttemptKeeps, EligibleKeeps, ReconnectKeeps DEF TimePasses
<1>11. QED
  BY <1>1, <1>2, <1>3, <1>4, <1>5, <1>6, <1>7, <1>8, <1>9, <1>10 DEF Next

\* Before the first request nothing is claimed, sent or finished.
LEMMA InitInv == Init => IInv
<1> SUFFICES ASSUME Init  PROVE IInv
  OBVIOUS
<1>1. TypeOK
  <2>1. Outcome("absent") \in Leaves  BY Built
  <2>2. job \in [Job -> Jobs]  BY DEF Init, Jobs
  <2>3. task \in [Actor -> Tasks]  BY Built DEF Init
  <2>4. QED  BY <2>1, <2>2, <2>3 DEF Init, TypeOK, Linked
<1>2. \A l \in Leaf : leaf[l].status = "absent"  BY DEF Init, Outcome
<1>3. \A x \in Job : job[x].status = "absent" /\ job[x].notices = 0
  BY DEF Init
<1>4. RowInv
  <2>1. SentIsRecorded  BY <1>2 DEF Init, SentIsRecorded
  <2>2. ClosedMeansDrained /\ AtMostOne
    BY <1>3 DEF ClosedMeansDrained, AtMostOne, Completed
  <2>3. QED  BY <1>2, <1>3, <2>1, <2>2, JobOfLeaf DEF RowInv
<1>5. \A w \in Actor : task[w].phase = "idle" /\ task[w].jobs = {} /\ task[w].todo = {}
  BY DEF Init, Idle
<1>6. Unique  BY <1>5 DEF Unique, Actor, Reports, Reporting, Cleanup
<1>7. \A w \in Actor : TaskInv(w)
  BY <1>5 DEF TaskInv, Named, Sealing, Locking, Finalizing,
     Reports, Reporting, Cleanup
<1>8. QED  BY <1>1, <1>4, <1>6, <1>7 DEF IInv

\* The inductive invariant: what replicas and handlers have read of rows and
\* jobs is still so when they act on it.
THEOREM Inductive == Spec => []IInv
<1>1. IInv /\ [Next]_vars => IInv'  BY StepKeeps
<1>2. QED  BY <1>1, InitInv, PTL DEF Spec

\* The type invariant holds in every reachable state.
THEOREM TypeCorrect == Spec => []TypeOK
<1>1. IInv => TypeOK  BY DEF IInv
<1>2. QED  BY <1>1, Inductive, PTL

\* No overlap of replicas, lapsed lease or crash commits a row's message twice, or
\* for a row that does not end "sent" (sendScheduledMessage's fenced transaction).
THEOREM SentIsRecordedAlways == Spec => []SentIsRecorded
<1>1. IInv => SentIsRecorded  BY DEF IInv, RowInv
<1>2. QED  BY <1>1, Inductive, PTL

\* A broadcast that reports completion is drained, whatever races its finalizers.
THEOREM ClosedMeansDrainedAlways == Spec => []ClosedMeansDrained
<1>1. IInv => ClosedMeansDrained  BY DEF IInv, RowInv
<1>2. QED  BY <1>1, Inductive, PTL

\* No step takes an outcome back.
THEOREM SettledIsFinalAlways == Spec => SettledIsFinal
<1>1. IInv /\ [Next]_vars =>
         [\A l \in Leaf : leaf[l].status \in Settled =>
             \/ leaf'[l].status = leaf[l].status
             \/ leaf[l].status = "failed" /\ leaf'[l].status = "canceled"]_vars
  BY StepKeeps DEF Frame
<1>2. QED  BY <1>1, Inductive, PTL DEF Spec, SettledIsFinal

\* A sweep that had found the row.
SweptAway(l) ==
    /\ leaf'[l].status = "skipped"
    /\ \E d \in Replica : /\ task[d].phase = "sweep" /\ l \in task[d].todo
                           /\ task'[d].phase # "sweep"

\* What a step may do to a claim whose lease runs.
ClaimKept(l) ==
    leaf[l].status = "processing" /\ ~leaf[l].due /\ leaf'[l] # leaf[l] =>
        \/ leaf'[l] = [leaf[l] EXCEPT !.due = TRUE]
        \/ task'[leaf[l].by] # task[leaf[l].by] /\ Working(leaf[l].by, l)
        \/ SweptAway(l)

\* A step that changes rows a claimer does not hold, or holds no longer.
LEMMA ClaimStep ==
    ASSUME IInv, Next, NEW l \in Leaf
    PROVE  ClaimKept(l)
<1> SUFFICES ASSUME leaf[l].status = "processing", ~leaf[l].due, leaf'[l] # leaf[l]
             PROVE  \/ leaf'[l] = [leaf[l] EXCEPT !.due = TRUE]
                    \/ task'[leaf[l].by] # task[leaf[l].by] /\ Working(leaf[l].by, l)
                    \/ SweptAway(l)
  BY DEF ClaimKept
<1>0. leaf \in [Leaf -> Leaves] /\ task \in [Actor -> Tasks]  BY DEF IInv, TypeOK
<1>1. leaf' # leaf  OBVIOUS
<1>2. ASSUME NEW d \in Replica, ClaimScheduledMessages(d)  PROVE FALSE
  BY <1>2, <1>0 DEF ClaimScheduledMessages, Due
<1>3. ASSUME NEW d \in Replica, SweepOrphanedBulkLeaves(d)  PROVE SweptAway(l)
  <2> DEFINE O == {k \in task[d].todo : leaf[k].status \in Pending}
  <2>1. /\ task[d].phase = "sweep" /\ task[d].todo \subseteq Leaf
        /\ task[d].todo \cap Plain = {}
    BY <1>3 DEF SweepOrphanedBulkLeaves, IInv, TypeOK, Tasks, TaskInv, Named, Actor
  <2>2. leaf'[l] = Outcome("skipped") /\ l \in task[d].todo
    BY <1>3, <1>0 DEF SweepOrphanedBulkLeaves
  <2>3. Outcome("skipped").status = "skipped"  BY DEF Outcome
  <2>4. Go(d, Resume(d, {JobOf[k] : k \in O}))  BY <1>3 DEF SweepOrphanedBulkLeaves
  <2> HIDE DEF O
  <2> DEFINE js == {JobOf[k] : k \in O}
  <2>5. Resume(d, js).phase # "sweep"
    BY DEF Resume, Idle
  <2> HIDE DEF js
  <2>6. task'[d].phase # "sweep"
    <3>1. Go(d, Resume(d, js))  BY <2>4 DEF js
    <3>2. QED  BY <3>1, <2>5, <1>0 DEF Go, Actor
  <2>7. QED  BY <2>1, <2>2, <2>3, <2>6 DEF SweptAway
<1>4. ASSUME NEW d \in Replica, ClaimBulkLeaf(d)  PROVE FALSE
  BY <1>4, <1>0 DEF ClaimBulkLeaf, Claimable, Due
<1>5. ASSUME NEW d \in Replica, SettleLeaf(d)
      PROVE  task'[leaf[l].by] # task[leaf[l].by] /\ Working(leaf[l].by, l)
  <2>1. task[d].phase = "settle" /\ task[d].leaf = l /\ leaf[l].by = d
    BY <1>5, <1>0 DEF SettleLeaf, Owns
  <2> DEFINE t == IF l \in Plain
                  THEN [Idle EXCEPT !.phase = "rows", !.todo = task[d].todo]
                  ELSE [Idle EXCEPT !.phase = "close", !.leaf = l, !.jobs = {JobOf[l]}]
  <2>2. t.phase # "settle"
    <3>1. CASE l \in Plain  BY <3>1 DEF Idle
    <3>2. CASE l \notin Plain
      <4>1. t = [phase |-> "close", leaf |-> l, job |-> NoJob, todo |-> {},
                 jobs |-> {JobOf[l]}, verdict |-> "none"]
        BY <3>2 DEF Idle
      <4> HIDE DEF t
      <4>2. QED  BY <4>1
    <3>3. QED  BY <3>1, <3>2
  <2>3. task'[d] # task[d]
    <3>1. Go(d, t)  BY <1>5, <2>1 DEF SettleLeaf
    <3> HIDE DEF t
    <3>2. QED  BY <3>1, <2>1, <2>2, <1>0 DEF Go, Actor
  <2>4. QED  BY <2>1, <2>3 DEF Working, Holding
<1>6. ASSUME NEW k \in Leaf, ScheduleMessage(k)  PROVE FALSE
  BY <1>6, <1>0 DEF ScheduleMessage
<1>7. ASSUME NEW k \in Leaf, NextAttemptComes(k) \/ LeaseLapses(k)
      PROVE  leaf'[l] = [leaf[l] EXCEPT !.due = TRUE]
  BY <1>7, <1>0 DEF NextAttemptComes, LeaseLapses
<1>8. ASSUME NEW x \in Job, CreateBulkJob(x)  PROVE FALSE
  <2>1. l \in LeavesOf(x)  BY <1>8, <1>0 DEF CreateBulkJob
  <2>2. l \in Leaf \ Plain /\ JobOf[l] = x  BY <2>1, NoneAssumption DEF LeavesOf, Plain
  <2>3. job[x].status = "absent"  BY <1>8 DEF CreateBulkJob
  <2>4. QED  BY <2>2, <2>3 DEF IInv, RowInv
<1>9. ASSUME NEW x \in Job, RescheduleBulkJob(x)  PROVE FALSE
  BY <1>9, <1>0 DEF RescheduleBulkJob
<1>10. ASSUME NEW h \in Handler, NEW k \in Leaf, CancelScheduledMessage(h, k)  PROVE FALSE
  BY <1>10, <1>0 DEF CancelScheduledMessage, Cancelable
<1>11. ASSUME NEW h \in Handler, CommitCancel(h)  PROVE FALSE
  <2>1. task[h].phase = "counted" /\ l \in task[h].todo  BY <1>11, <1>0 DEF CommitCancel
  <2>2. QED  BY <2>1 DEF IInv, TaskInv, Locking, Actor, Cancelable
<1>12. ASSUME NEW w \in Actor, Finalize(w) \/ Crash(w) \/ CleanupFails(w) \/ FinalizeFails(w)
       PROVE  FALSE
  BY <1>12, <1>1 DEF Finalize, FinalizeBulkJob, GetBulkJobProgress, StampBulkJob,
     ReferencedByMessage, ReferencedByPendingSchedule, ReferencedBySiblingJob, AskFor, DeleteMedia,
     NotifyResult, Crash, CleanupFails, FinalizeFails
<1>13. ASSUME NEW d \in Replica,
              \/ FindOrphanedBulkLeaves(d) \/ EndCycle(d) \/ MarkBulkJobRunning(d)
              \/ ExamineBulk(d) \/ ExaminePlain(d) \/ TransientError(d)
       PROVE  FALSE
  BY <1>13, <1>1 DEF FindOrphanedBulkLeaves, EndCycle, MarkBulkJobRunning, ExamineBulk, ExaminePlain,
     TransientError
<1>14. ASSUME NEW h \in Handler,
              CountProcessing(h) \/ \E x \in Job : CancelBulkJob(h, x)
       PROVE  FALSE
  BY <1>14, <1>1 DEF CountProcessing, CancelBulkJob
<1>15. ASSUME \/ Disconnect \/ Reconnect \/ BecomesEligible
              \/ \E k \in Leaf : ContactChanges(k) \/ ContactReturns(k)
       PROVE  FALSE
  BY <1>15, <1>1 DEF Disconnect, Reconnect, BecomesEligible, ContactChanges, ContactReturns
<1>16. CASE \E d \in Replica : Poll(d) \/ TransientError(d)
  BY <1>16, <1>2, <1>3, <1>4, <1>5, <1>12, <1>13 DEF Poll, Actor
<1>17. CASE \E h \in Handler : \/ Answer(h)
                               \/ \E k \in Leaf : CancelScheduledMessage(h, k)
                               \/ \E x \in Job : CancelBulkJob(h, x)
  BY <1>17, <1>10, <1>11, <1>12, <1>14 DEF Answer, Actor
<1>18. CASE TimePasses  BY <1>18, <1>7, <1>15 DEF TimePasses
<1>19. QED
  BY <1>6, <1>7, <1>8, <1>9, <1>12, <1>15, <1>16, <1>17, <1>18 DEF Next

\* The token fence (next_attempt_at) keeps a live claim its claimer's: no request and
\* no other replica changes the row, except a sweep that had found it before the claim.
THEOREM LiveClaimIsExclusiveAlways == Spec => LiveClaimIsExclusive
<1>1. IInv /\ [Next]_vars => [\A l \in Leaf : ClaimKept(l)]_vars
  BY ClaimStep
<1>2. QED  BY <1>1, Inductive, PTL DEF Spec, LiveClaimIsExclusive, ClaimKept, SweptAway
-----------------------------------------------------------------------------
(* A drained job has somebody who closes it.                               *)

\* The jobs an actor is still to close are with it only while it closes one.
Closes == {"close", "progress", "stamp"} \cup Reporting
Carrying(w) == task[w].jobs # {} => task[w].phase \in Closes

\* An actor lets go of a job only when it has found the job closed or canceled,
\* or not drained; a crash aside.
HandsOn(w) ==
    /\ Carrying(w)'
    /\ \A x \in Job : Closing(w, x) /\ ~crashed' =>
          \/ Closing(w, x)'
          \/ job'[x].status \notin Open
          \/ ~Drained(x)'

\* What is left of a sweep's jobs is carried on.
LEMMA ResumeCarries ==
    ASSUME NEW w \in Actor, NEW js \in SUBSET Job
    PROVE  /\ Resume(w, js).jobs = js
           /\ js # {} => Resume(w, js).phase = "close"
BY DEF Resume, Idle

\* An actor that does not move keeps its jobs.
LEMMA StillHandsOn ==
    ASSUME NEW w, Carrying(w), task'[w] = task[w]
    PROVE  HandsOn(w)
BY DEF HandsOn, Carrying, Closing

\* An actor that closes no job has none to let go of.
LEMMA FreeHandsOn ==
    ASSUME NEW w, Carrying(w), task[w].phase \notin Closes,
           task'[w].jobs # {} => task'[w].phase \in Closes
    PROVE  HandsOn(w)
BY DEF HandsOn, Carrying, Closing, Closes

\* The media cleanup keeps the jobs that wait.
LEMMA CleanupHandsOn ==
    ASSUME IInv, NEW w \in Actor, task[w].phase \in Cleanup,
           Cleaned(w) \/ \E p \in Cleanup : Go(w, [task[w] EXCEPT !.phase = p])
    PROVE  HandsOn(w) /\ \A v \in Actor \ {w} : task'[v] = task[v]
<1>1. /\ \A v \in Actor \ {w} : task'[v] = task[v]
      /\ task'[w].jobs = task[w].jobs
      /\ task'[w].jobs # {} => task'[w].phase \in {"close"} \cup Reporting
  BY CleanupMoves
<1>2. task[w].phase \notin {"progress", "stamp"}  BY DEF Cleanup
<1>3. QED  BY <1>1, <1>2 DEF HandsOn, Carrying, Closing, Closes

\* Closing one job, and its way out at each early return.
LEMMA FinalizeHandsOn ==
    ASSUME IInv, NEW w \in Actor, Finalize(w)
    PROVE  HandsOn(w) /\ \A v \in Actor \ {w} : task'[v] = task[v]
<1>0. /\ task[w] \in Tasks /\ TaskInv(w) /\ task \in [Actor -> Tasks]
      /\ task[w].jobs \in SUBSET Job
  BY DEF IInv, TypeOK, Tasks
<1>1. CASE FinalizeBulkJob(w)
  <2>1. PICK x \in task[w].jobs :
           IF job[x].status \in Completed
           THEN Go(w, Resume(w, task[w].jobs \ {x}))
           ELSE Go(w, [task[w] EXCEPT !.phase = "progress", !.job = x,
                                      !.jobs = @ \ {x}, !.verdict = job[x].status])
    BY <1>1 DEF FinalizeBulkJob
  <2>2. job' = job /\ task[w].phase = "close"  BY <1>1 DEF FinalizeBulkJob
  <2>3. CASE job[x].status \in Completed
    <3>1. /\ task'[w].jobs = task[w].jobs \ {x}
          /\ task'[w].jobs # {} => task'[w].phase = "close"
          /\ \A v \in Actor \ {w} : task'[v] = task[v]
      BY <1>0, <2>1, <2>3, ResumeCarries DEF Go
    <3>2. job'[x].status \notin Open  BY <2>2, <2>3 DEF Completed, Open
    <3>3. QED  BY <3>1, <3>2, <2>2 DEF HandsOn, Carrying, Closing, Closes
  <2>4. CASE job[x].status \notin Completed
    <3> DEFINE t == [task[w] EXCEPT !.phase = "progress", !.job = x,
                                    !.jobs = @ \ {x}, !.verdict = job[x].status]
    <3>1. t.jobs = task[w].jobs \ {x} /\ t.phase = "progress" /\ t.job = x
      BY <1>0 DEF Tasks
    <3>2. Go(w, t)  BY <2>1, <2>4
    <3> HIDE DEF t
    <3>3. task'[w] = t /\ \A v \in Actor \ {w} : task'[v] = task[v]
      BY <1>0, <3>2 DEF Go
    <3>4. QED  BY <3>1, <3>3, <2>2 DEF HandsOn, Carrying, Closing, Closes
  <2>5. QED  BY <2>3, <2>4
<1>2. CASE GetBulkJobProgress(w)
  <2>1. leaf' = leaf /\ task[w].phase = "progress"  BY <1>2 DEF GetBulkJobProgress
  <2>2. CASE Drained(task[w].job)
    <3> DEFINE t == [task[w] EXCEPT !.phase = "stamp",
                                    !.verdict = IF @ = "canceled" THEN @
                                                ELSE DeriveBulkJobOutcome(task[w].job)]
    <3>1. t.jobs = task[w].jobs /\ t.phase = "stamp" /\ t.job = task[w].job
      BY <1>0 DEF Tasks
    <3>2. Go(w, t)  BY <1>2, <2>2 DEF GetBulkJobProgress
    <3> HIDE DEF t
    <3>3. task'[w] = t /\ \A v \in Actor \ {w} : task'[v] = task[v]
      BY <1>0, <3>2 DEF Go
    <3>4. QED  BY <3>1, <3>3, <2>1 DEF HandsOn, Carrying, Closing, Closes
  <2>3. CASE ~Drained(task[w].job)
    <3>1. /\ task'[w].jobs = task[w].jobs
          /\ task'[w].jobs # {} => task'[w].phase = "close"
          /\ \A v \in Actor \ {w} : task'[v] = task[v]
      BY <1>0, <1>2, <2>3, ResumeCarries DEF GetBulkJobProgress, Return, Go
    <3>2. \A x \in Job : Drained(x)' <=> Drained(x)  BY <2>1 DEF Drained, LeavesOf
    <3>3. \A x \in Job : x = task[w].job => ~Drained(x)'  BY <2>3, <3>2
    <3>4. QED  BY <3>1, <3>3, <2>1 DEF HandsOn, Carrying, Closing, Closes
  <2>4. QED  BY <2>2, <2>3
<1>3. CASE StampBulkJob(w)
  <2>1. task[w].phase = "stamp" /\ task[w].job \in Job
    BY <1>0, <1>3 DEF StampBulkJob, TaskInv, Named, Finalizing
  <2>2. /\ task'[w].jobs = task[w].jobs
        /\ task'[w].jobs # {} => task'[w].phase \in {"messages", "close"}
        /\ \A v \in Actor \ {w} : task'[v] = task[v]
    <3>1. Go(w, [task[w] EXCEPT !.phase = "messages"]) \/ Go(w, Resume(w, task[w].jobs))
      BY <1>3 DEF StampBulkJob, Return
    <3>2. CASE Go(w, [task[w] EXCEPT !.phase = "messages"])  BY <3>2, <1>0 DEF Go, Tasks
    <3>3. CASE Go(w, Resume(w, task[w].jobs))  BY <3>3, <1>0, ResumeCarries DEF Go
    <3>4. QED  BY <3>1, <3>2, <3>3
  <2>3. job'[task[w].job].status \notin Open
    <3>0. job \in [Job -> Jobs]  BY DEF IInv, TypeOK
    <3>1. CASE task[w].verdict = "canceled"
      <4>1. job[task[w].job].status = "canceled"  BY <1>0, <2>1, <3>1 DEF TaskInv, Sealing
      <4>2. job'[task[w].job].status = "canceled"
        BY <1>3, <2>1, <3>0, <3>1, <4>1 DEF StampBulkJob, Jobs, Open
      <4>3. QED  BY <4>2 DEF Open
    <3>2. CASE task[w].verdict # "canceled" /\ job[task[w].job].status \in Open
      <4>1. task[w].verdict \in Completed  BY <1>0, <2>1, <3>2 DEF TaskInv, Sealing
      <4>2. job'[task[w].job].status = task[w].verdict
        BY <1>3, <2>1, <3>0, <3>2 DEF StampBulkJob, Jobs
      <4>3. QED  BY <4>1, <4>2 DEF Open, Completed
    <3>3. CASE task[w].verdict # "canceled" /\ job[task[w].job].status \notin Open
      BY <1>3, <3>3 DEF StampBulkJob
    <3>4. QED  BY <3>1, <3>2, <3>3
  <2>4. QED  BY <2>1, <2>2, <2>3 DEF HandsOn, Carrying, Closing, Closes, Reporting, Cleanup
<1>4. CASE \/ ReferencedByMessage(w) \/ ReferencedByPendingSchedule(w)
           \/ ReferencedBySiblingJob(w) \/ DeleteMedia(w)
  <2>1. /\ task[w].phase \in Cleanup
        /\ Cleaned(w) \/ \E p \in Cleanup : Go(w, [task[w] EXCEPT !.phase = p])
    BY <1>4 DEF ReferencedByMessage, ReferencedByPendingSchedule, ReferencedBySiblingJob, AskFor,
       DeleteMedia, Cleanup
  <2>2. QED  BY <2>1, CleanupHandsOn
<1>5. CASE NotifyResult(w)
  <2>1. task[w].phase = "notify" /\ Go(w, Resume(w, task[w].jobs))
    BY <1>5 DEF NotifyResult, Return
  <2>2. /\ task'[w].jobs = task[w].jobs
        /\ task'[w].jobs # {} => task'[w].phase = "close"
        /\ \A v \in Actor \ {w} : task'[v] = task[v]
    BY <2>1, <1>0, ResumeCarries DEF Go
  <2>3. QED  BY <2>1, <2>2 DEF HandsOn, Carrying, Closing, Closes
<1>6. QED  BY <1>1, <1>2, <1>3, <1>4, <1>5 DEF Finalize

\* A replica's step.
LEMMA PollHandsOn ==
    ASSUME IInv, NEW d \in Replica, Carrying(d), Poll(d) \/ TransientError(d)
    PROVE  HandsOn(d) /\ \A v \in Actor \ {d} : task'[v] = task[v]
<1>0. task[d] \in Tasks /\ task \in [Actor -> Tasks] /\ d \in Actor
  BY DEF IInv, TypeOK, Actor
<1>1. CASE ClaimScheduledMessages(d)
  <2> DEFINE t == [Idle EXCEPT !.phase = "rows", !.todo = {l \in Plain : Due(l)}]
  <2>1. t.jobs = {} /\ Go(d, t) /\ task[d].phase = "idle"
    BY <1>1 DEF ClaimScheduledMessages, Idle
  <2> HIDE DEF t
  <2>2. QED  BY <1>0, <2>1, FreeHandsOn DEF Go, Closes, Reporting, Cleanup
<1>2. CASE SweepOrphanedBulkLeaves(d)
  <2> DEFINE js == {JobOf[l] : l \in {k \in task[d].todo : leaf[k].status \in Pending}}
  <2>1. js \in SUBSET Job
    <3>1. task[d].todo \subseteq Leaf \ Plain
      BY <1>2 DEF SweepOrphanedBulkLeaves, IInv, TypeOK, Tasks, TaskInv, Named, Actor
    <3>2. QED  BY <3>1, JobOfLeaf
  <2>2. Go(d, Resume(d, js)) /\ task[d].phase = "sweep"
    BY <1>2 DEF SweepOrphanedBulkLeaves
  <2> HIDE DEF js
  <2>3. QED  BY <1>0, <2>1, <2>2, ResumeCarries, FreeHandsOn DEF Go, Closes, Reporting, Cleanup
<1>2a. CASE FindOrphanedBulkLeaves(d)
  <2> DEFINE O == {l \in Leaf \ Plain : leaf[l].status \in Pending /\ leaf[l].due
                                        /\ contact[l] \notin Linked}
             t == IF O = {} THEN Resume(d, {}) ELSE [Idle EXCEPT !.phase = "sweep", !.todo = O]
  <2>1. Go(d, t) /\ task[d].phase = "rows"  BY <1>2a DEF FindOrphanedBulkLeaves
  <2> HIDE DEF O
  <2>2. t.jobs = {}
    <3>1. CASE O = {}  BY <3>1, <1>0, ResumeCarries
    <3>2. CASE O # {}  BY <3>2 DEF Idle
    <3>3. QED  BY <3>1, <3>2
  <2> HIDE DEF t
  <2>3. QED  BY <1>0, <2>1, <2>2, FreeHandsOn DEF Go, Closes, Reporting, Cleanup
<1>3. CASE ClaimBulkLeaf(d)
  <2>1. PICK l \in Claimable : Go(d, [Idle EXCEPT !.phase = "held", !.leaf = l])
    BY <1>3 DEF ClaimBulkLeaf
  <2> DEFINE t == [Idle EXCEPT !.phase = "held", !.leaf = l]
  <2>2. t.jobs = {} /\ Go(d, t) /\ task[d].phase = "pick"
    BY <1>3, <2>1 DEF ClaimBulkLeaf, Idle
  <2> HIDE DEF t
  <2>3. QED  BY <1>0, <2>2, FreeHandsOn DEF Go, Closes, Reporting, Cleanup
<1>4. CASE EndCycle(d)
  <2>1. Go(d, Idle) /\ task[d].phase = "pick" /\ Idle.jobs = {}
    BY <1>4 DEF EndCycle, Idle
  <2>2. QED  BY <1>0, <2>1, FreeHandsOn DEF Go, Closes, Reporting, Cleanup
<1>5. CASE MarkBulkJobRunning(d) \/ ExamineBulk(d) \/ ExaminePlain(d) \/ TransientError(d)
  <2>1. /\ task[d].phase \in {"held", "examine", "rows", "settle"}
        /\ task[d].jobs = {}
    <3>1. task[d].phase \in {"held", "examine", "rows", "settle"}
      BY <1>5 DEF MarkBulkJobRunning, ExamineBulk, ExaminePlain, TransientError
    <3>2. QED  BY <3>1 DEF Carrying, Closes, Reporting, Cleanup
  <2>2. task'[d].jobs = {} /\ \A v \in Actor \ {d} : task'[v] = task[v]
    <3>1. CASE MarkBulkJobRunning(d)  BY <3>1, <1>0, <2>1 DEF MarkBulkJobRunning, Go, Tasks
    <3>2. CASE ExamineBulk(d)  BY <3>2, <1>0, <2>1 DEF ExamineBulk, Go, Tasks
    <3>3. CASE ExaminePlain(d)
      <4>1. PICK l \in task[d].todo : \E v \in PlainVerdicts(l) :
               Go(d, [task[d] EXCEPT !.phase = "settle", !.leaf = l,
                                     !.todo = @ \ {l}, !.verdict = v])
        BY <3>3 DEF ExaminePlain
      <4>2. PICK v \in PlainVerdicts(l) :
               Go(d, [task[d] EXCEPT !.phase = "settle", !.leaf = l,
                                     !.todo = @ \ {l}, !.verdict = v])
        BY <4>1
      <4> DEFINE t == [task[d] EXCEPT !.phase = "settle", !.leaf = l,
                                      !.todo = @ \ {l}, !.verdict = v]
      <4>3. t.jobs = {} /\ Go(d, t)  BY <1>0, <2>1, <4>2 DEF Tasks
      <4> HIDE DEF t
      <4>4. QED  BY <1>0, <4>3 DEF Go
    <3>4. CASE TransientError(d)  BY <3>4, <1>0, <2>1 DEF TransientError, Go, Tasks
    <3>5. QED  BY <1>5, <3>1, <3>2, <3>3, <3>4
  <2>3. QED  BY <1>0, <2>1, <2>2, FreeHandsOn DEF Closes, Reporting, Cleanup
<1>6. CASE SettleLeaf(d)
  <2> DEFINE t == IF task[d].leaf \in Plain
                  THEN [Idle EXCEPT !.phase = "rows", !.todo = task[d].todo]
                  ELSE [Idle EXCEPT !.phase = "close", !.leaf = task[d].leaf,
                                    !.jobs = {JobOf[task[d].leaf]}]
  <2>1. Go(d, t) /\ task[d].phase = "settle"  BY <1>6 DEF SettleLeaf
  <2>2. t.jobs # {} => t.phase = "close"  BY DEF Idle
  <2> HIDE DEF t
  <2>3. QED  BY <1>0, <2>1, <2>2, FreeHandsOn DEF Go, Closes, Reporting, Cleanup
<1>7. CASE Finalize(d)  BY <1>0, <1>7, FinalizeHandsOn
<1>8. QED  BY <1>1, <1>2, <1>2a, <1>3, <1>4, <1>5, <1>6, <1>7 DEF Poll

\* A request's step.
LEMMA AnswerHandsOn ==
    ASSUME IInv, NEW h \in Handler, Carrying(h),
           \/ Answer(h)
           \/ \E l \in Leaf : CancelScheduledMessage(h, l)
           \/ \E x \in Job : CancelBulkJob(h, x)
    PROVE  HandsOn(h) /\ \A v \in Actor \ {h} : task'[v] = task[v]
<1>0. task[h] \in Tasks /\ task \in [Actor -> Tasks] /\ h \in Actor
  BY DEF IInv, TypeOK, Actor
<1>1. CASE CountProcessing(h)
  <2>1. task[h].phase = "marked" /\ task[h].jobs = {}
    BY <1>1 DEF CountProcessing, Carrying, Closes, Reporting, Cleanup
  <2>2. task'[h].jobs = {} /\ \A v \in Actor \ {h} : task'[v] = task[v]
    BY <1>0, <1>1, <2>1 DEF CountProcessing, Go, Tasks
  <2>3. QED  BY <1>0, <2>1, <2>2, FreeHandsOn DEF Closes, Reporting, Cleanup
<1>2. CASE CommitCancel(h)
  <2> DEFINE t == IF task[h].verdict = "busy" THEN Idle
                  ELSE [Idle EXCEPT !.phase = "messages", !.job = task[h].job]
  <2>1. Go(h, t) /\ task[h].phase = "counted" /\ t.jobs = {}  BY <1>2 DEF CommitCancel, Idle
  <2> HIDE DEF t
  <2>2. QED  BY <1>0, <2>1, FreeHandsOn DEF Go, Closes, Reporting, Cleanup
<1>3. ASSUME NEW l \in Leaf, CancelScheduledMessage(h, l)
      PROVE  HandsOn(h) /\ \A v \in Actor \ {h} : task'[v] = task[v]
  <2> DEFINE t == IF l \in Plain THEN Idle
                  ELSE [Idle EXCEPT !.phase = "close", !.leaf = l, !.jobs = {JobOf[l]}]
  <2>1. Go(h, t) /\ task[h].phase = "idle"  BY <1>3 DEF CancelScheduledMessage
  <2>2. t.jobs # {} => t.phase = "close"  BY DEF Idle
  <2> HIDE DEF t
  <2>3. QED  BY <1>0, <2>1, <2>2, FreeHandsOn DEF Go, Closes, Reporting, Cleanup
<1>4. ASSUME NEW x \in Job, CancelBulkJob(h, x)
      PROVE  HandsOn(h) /\ \A v \in Actor \ {h} : task'[v] = task[v]
  <2> DEFINE t == [Idle EXCEPT !.phase = "marked", !.job = x,
                      !.todo = {l \in LeavesOf(x) : leaf[l].status \in Cancelable}]
  <2>1. Go(h, t) /\ task[h].phase = "idle" /\ t.jobs = {}  BY <1>4 DEF CancelBulkJob, Idle
  <2> HIDE DEF t
  <2>2. QED  BY <1>0, <2>1, FreeHandsOn DEF Go, Closes, Reporting, Cleanup
<1>5. CASE Finalize(h)  BY <1>0, <1>5, FinalizeHandsOn
<1>6. QED  BY <1>1, <1>2, <1>3, <1>4, <1>5 DEF Answer

\* No step makes an actor let go of a job too early.
LEMMA AllHandOn ==
    ASSUME IInv, \A w \in Actor : Carrying(w), [Next]_vars
    PROVE  \A w \in Actor : HandsOn(w)
<1>0. task \in [Actor -> Tasks]  BY DEF IInv, TypeOK
<1>1. CASE \E d \in Replica : Poll(d) \/ TransientError(d)
  BY <1>1, PollHandsOn, StillHandsOn DEF Actor
<1>2. CASE \E h \in Handler : \/ Answer(h)
                              \/ \E l \in Leaf : CancelScheduledMessage(h, l)
                              \/ \E x \in Job : CancelBulkJob(h, x)
  BY <1>2, AnswerHandsOn, StillHandsOn DEF Actor
<1>3. ASSUME NEW w \in Actor, Crash(w)  PROVE \A v \in Actor : HandsOn(v)
  <2>1. /\ task'[w] = Idle /\ Idle.jobs = {} /\ crashed'
        /\ \A v \in Actor \ {w} : task'[v] = task[v]
    BY <1>0, <1>3 DEF Crash, Go, Idle
  <2>2. HandsOn(w)  BY <2>1 DEF HandsOn, Carrying
  <2>3. QED  BY <2>1, <2>2, StillHandsOn
<1>3a. ASSUME NEW w \in Actor, FinalizeFails(w)  PROVE \A v \in Actor : HandsOn(v)
  <2>0. task[w].jobs \in SUBSET Job  BY <1>0 DEF Tasks
  <2>1. PICK js \in SUBSET task[w].jobs : Go(w, Resume(w, js))
    BY <1>3a DEF FinalizeFails, Return
  <2>2. /\ task'[w].jobs # {} => task'[w].phase = "close"
        /\ crashed' /\ \A v \in Actor \ {w} : task'[v] = task[v]
    BY <1>0, <1>3a, <2>0, <2>1, ResumeCarries DEF FinalizeFails, Go
  <2>3. HandsOn(w)  BY <2>2 DEF HandsOn, Carrying, Closes
  <2>4. QED  BY <2>2, <2>3, StillHandsOn
<1>3b. ASSUME NEW w \in Actor, CleanupFails(w)  PROVE \A v \in Actor : HandsOn(v)
  BY <1>3b, CleanupHandsOn, StillHandsOn DEF CleanupFails
<1>4. CASE task' = task  BY <1>4, StillHandsOn
<1>5. CASE \/ UNCHANGED vars \/ Disconnect \/ TimePasses
           \/ \E l \in Leaf : ScheduleMessage(l) \/ LeaseLapses(l)
           \/ \E l \in Leaf : ContactChanges(l) \/ ContactReturns(l)
           \/ \E x \in Job : CreateBulkJob(x) \/ RescheduleBulkJob(x)
  <2>1. task' = task
    BY <1>5 DEF vars, Disconnect, TimePasses, NextAttemptComes, BecomesEligible, Reconnect,
       ScheduleMessage, ContactChanges, ContactReturns, LeaseLapses, CreateBulkJob, RescheduleBulkJob
  <2>2. QED  BY <1>4, <2>1
<1>6. QED  BY <1>1, <1>2, <1>3, <1>3a, <1>3b, <1>5 DEF Next

\* Whoever settles the last recipient takes the job on.
LEMMA LastTakesOn ==
    ASSUME IInv, Next, NEW x \in Job, ~Drained(x), Drained(x)', job'[x].status \in Open
    PROVE  \E w \in Actor : Closing(w, x)'
<1>0. leaf \in [Leaf -> Leaves] /\ task \in [Actor -> Tasks] /\ job \in [Job -> Jobs]
  BY DEF IInv, TypeOK
<1>1. PICK l \in LeavesOf(x) : leaf[l].status \in Pending  BY DEF Drained
<1>2. /\ l \in Leaf \ Plain /\ JobOf[l] = x
      /\ leaf[l].status \in Pending /\ leaf'[l].status \notin Pending
  BY <1>1, NoneAssumption DEF LeavesOf, Plain, Drained
<1>3. leaf' # leaf /\ leaf'[l] # leaf[l]  BY <1>2
<1>4. ASSUME NEW d \in Replica, ClaimScheduledMessages(d)  PROVE FALSE
  BY <1>4, <1>0, <1>2 DEF ClaimScheduledMessages
<1>5. ASSUME NEW d \in Replica, SweepOrphanedBulkLeaves(d)  PROVE x \in task'[d].jobs
  <2> DEFINE O == {k \in task[d].todo : leaf[k].status \in Pending}
             js == {JobOf[k] : k \in O}
  <2>1. l \in O  BY <1>5, <1>0, <1>2 DEF SweepOrphanedBulkLeaves
  <2>2. x \in js  BY <1>2, <2>1
  <2>3. js \in SUBSET Job
    <3>1. task[d].todo \subseteq Leaf \ Plain
      BY <1>5 DEF SweepOrphanedBulkLeaves, IInv, TypeOK, Tasks, TaskInv, Named, Actor
    <3>2. QED  BY <3>1, JobOfLeaf
  <2>4. Go(d, Resume(d, js))  BY <1>5 DEF SweepOrphanedBulkLeaves
  <2> HIDE DEF js
  <2>5. QED  BY <1>0, <2>2, <2>3, <2>4, ResumeCarries DEF Go, Actor
<1>6. ASSUME NEW d \in Replica, ClaimBulkLeaf(d)  PROVE FALSE
  <2>1. PICK k \in Claimable : leaf' = [leaf EXCEPT ![k] = Claimed(k, d)]
    BY <1>6 DEF ClaimBulkLeaf
  <2>2. k = l  BY <1>0, <1>2, <2>1
  <2>3. leaf'[l].status = "processing"  BY <1>0, <1>2, <2>1, <2>2 DEF Claimed, Leaves
  <2>4. QED  BY <1>2, <2>3 DEF Pending
<1>7. ASSUME NEW d \in Replica, SettleLeaf(d)  PROVE x \in task'[d].jobs
  <2>1. task[d].leaf = l
    <3>1. leaf' = [leaf EXCEPT ![task[d].leaf] = AfterVerdict(task[d].leaf, task[d].verdict)]
      BY <1>7, <1>3 DEF SettleLeaf
    <3>2. QED  BY <3>1, <1>0, <1>2, <1>3
  <2> DEFINE t == IF l \in Plain THEN [Idle EXCEPT !.phase = "rows", !.todo = task[d].todo]
                  ELSE [Idle EXCEPT !.phase = "close", !.leaf = l, !.jobs = {JobOf[l]}]
  <2>2. t = [phase |-> "close", leaf |-> l, job |-> NoJob, todo |-> {},
             jobs |-> {JobOf[l]}, verdict |-> "none"]
    BY <1>2 DEF Idle
  <2>3. Go(d, t)  BY <1>7, <2>1 DEF SettleLeaf
  <2> HIDE DEF t
  <2>4. x \in t.jobs  BY <1>2, <2>2
  <2> HIDE DEF t
  <2>5. QED  BY <1>0, <2>3, <2>4 DEF Go, Actor
<1>8. ASSUME NEW h \in Handler, NEW k \in Leaf, CancelScheduledMessage(h, k)
      PROVE  x \in task'[h].jobs
  <2>1. k = l  BY <1>8, <1>0, <1>3 DEF CancelScheduledMessage
  <2> DEFINE t == IF l \in Plain THEN Idle
                  ELSE [Idle EXCEPT !.phase = "close", !.leaf = l, !.jobs = {JobOf[l]}]
  <2>2. t = [phase |-> "close", leaf |-> l, job |-> NoJob, todo |-> {},
             jobs |-> {JobOf[l]}, verdict |-> "none"]
    BY <1>2 DEF Idle
  <2>3. Go(h, t)  BY <1>8, <2>1 DEF CancelScheduledMessage
  <2> HIDE DEF t
  <2>4. x \in t.jobs  BY <1>2, <2>2
  <2> HIDE DEF t
  <2>5. QED  BY <1>0, <2>3, <2>4 DEF Go, Actor
<1>9. ASSUME NEW h \in Handler, CommitCancel(h)  PROVE FALSE
  <2>1. task[h].phase = "counted" /\ l \in task[h].todo
    <3>1. leaf' = [k \in Leaf |-> IF k \in task[h].todo THEN Outcome("canceled") ELSE leaf[k]]
      BY <1>9 DEF CommitCancel
    <3>2. QED  BY <1>9, <1>2, <1>3, <3>1 DEF CommitCancel
  <2>2. task[h].job = x  BY <1>2, <2>1 DEF IInv, TaskInv, Locking, Actor
  <2>3. job'[x].status = "canceled"  BY <1>9, <1>0, <2>2 DEF CommitCancel, Jobs
  <2>4. QED  BY <2>3 DEF Open
<1>10. ASSUME NEW k \in Leaf,
              ScheduleMessage(k) \/ NextAttemptComes(k) \/ LeaseLapses(k)
       PROVE  FALSE
  <2>1. CASE ScheduleMessage(k)
    BY <2>1, <1>0, <1>2, Built DEF ScheduleMessage, Pending
  <2>2. CASE NextAttemptComes(k) \/ LeaseLapses(k)
    <3>1. leaf'[l].status = leaf[l].status
      BY <2>2, <1>0, <1>2 DEF NextAttemptComes, LeaseLapses, Leaves
    <3>2. QED  BY <1>2, <3>1
  <2>3. QED  BY <1>10, <2>1, <2>2
<1>11. ASSUME NEW y \in Job, RescheduleBulkJob(y)  PROVE FALSE
  <2>1. leaf'[l].status = leaf[l].status
    BY <1>11, <1>0, <1>2 DEF RescheduleBulkJob, Leaves
  <2>2. QED  BY <1>2, <2>1
<1>12. ASSUME NEW y \in Job, CreateBulkJob(y)  PROVE FALSE
  <2>1. l \in LeavesOf(y)  BY <1>12, <1>0, <1>2 DEF CreateBulkJob
  <2>2. JobOf[l] = y /\ job[y].status = "absent"  BY <1>12, <2>1 DEF LeavesOf, CreateBulkJob
  <2>3. QED  BY <1>2, <2>2 DEF IInv, RowInv, Pending
<1>13. ASSUME NEW w \in Actor, Finalize(w) \/ Crash(w) \/ CleanupFails(w) \/ FinalizeFails(w)
       PROVE  FALSE
  BY <1>13, <1>3 DEF Finalize, FinalizeBulkJob, GetBulkJobProgress, StampBulkJob,
     ReferencedByMessage, ReferencedByPendingSchedule, ReferencedBySiblingJob, AskFor, DeleteMedia,
     NotifyResult, Crash, CleanupFails, FinalizeFails
<1>14. ASSUME NEW d \in Replica,
              \/ FindOrphanedBulkLeaves(d) \/ EndCycle(d) \/ MarkBulkJobRunning(d)
              \/ ExamineBulk(d) \/ ExaminePlain(d) \/ TransientError(d)
       PROVE  FALSE
  BY <1>14, <1>3 DEF FindOrphanedBulkLeaves, EndCycle, MarkBulkJobRunning, ExamineBulk, ExaminePlain,
     TransientError
<1>15. ASSUME NEW h \in Handler,
              CountProcessing(h) \/ \E y \in Job : CancelBulkJob(h, y)
       PROVE  FALSE
  BY <1>15, <1>3 DEF CountProcessing, CancelBulkJob
<1>16. ASSUME \/ Disconnect \/ Reconnect \/ BecomesEligible
              \/ \E k \in Leaf : ContactChanges(k) \/ ContactReturns(k)
       PROVE  FALSE
  BY <1>16, <1>3 DEF Disconnect, Reconnect, BecomesEligible, ContactChanges, ContactReturns
<1>17. \A w \in Actor : x \in task'[w].jobs => Closing(w, x)'  BY DEF Closing
<1>18. CASE \E d \in Replica : Poll(d) \/ TransientError(d)
  BY <1>18, <1>4, <1>5, <1>6, <1>7, <1>13, <1>14, <1>17 DEF Poll, Actor
<1>19. CASE \E h \in Handler : \/ Answer(h)
                               \/ \E k \in Leaf : CancelScheduledMessage(h, k)
                               \/ \E y \in Job : CancelBulkJob(h, y)
  BY <1>19, <1>8, <1>9, <1>13, <1>15, <1>17 DEF Answer, Actor
<1>20. CASE TimePasses  BY <1>20, <1>10, <1>16 DEF TimePasses
<1>21. QED
  BY <1>10, <1>11, <1>12, <1>13, <1>16, <1>18, <1>19, <1>20 DEF Next

\* The steps that change a job.
LEMMA JobChanges ==
    ASSUME Next, job' # job
    PROVE  \/ \E y \in Job : CreateBulkJob(y)
           \/ \E d \in Replica : MarkBulkJobRunning(d)
           \/ \E h \in Handler : CommitCancel(h)
           \/ \E w \in Actor : StampBulkJob(w) \/ NotifyResult(w)
<1>1. ASSUME NEW w \in Actor, Finalize(w) \/ Crash(w) \/ CleanupFails(w) \/ FinalizeFails(w)
      PROVE  StampBulkJob(w) \/ NotifyResult(w)
  BY <1>1 DEF Finalize, FinalizeBulkJob, GetBulkJobProgress, ReferencedByMessage,
     ReferencedByPendingSchedule, ReferencedBySiblingJob, AskFor, DeleteMedia, Crash,
     CleanupFails, FinalizeFails
<1>2. \A d \in Replica : ~(\/ ClaimScheduledMessages(d) \/ SweepOrphanedBulkLeaves(d)
                           \/ FindOrphanedBulkLeaves(d)
                           \/ ClaimBulkLeaf(d) \/ EndCycle(d) \/ ExamineBulk(d)
                           \/ ExaminePlain(d) \/ SettleLeaf(d) \/ TransientError(d))
  BY DEF ClaimScheduledMessages, SweepOrphanedBulkLeaves, FindOrphanedBulkLeaves, ClaimBulkLeaf,
     EndCycle, ExamineBulk, ExaminePlain, SettleLeaf, TransientError
<1>3. \A h \in Handler : ~(\/ CountProcessing(h) \/ \E l \in Leaf : CancelScheduledMessage(h, l)
                           \/ \E y \in Job : CancelBulkJob(h, y))
  BY DEF CountProcessing, CancelScheduledMessage, CancelBulkJob
<1>4. ~(\/ Disconnect \/ TimePasses
        \/ \E l \in Leaf : ScheduleMessage(l) \/ LeaseLapses(l)
        \/ \E l \in Leaf : ContactChanges(l) \/ ContactReturns(l)
        \/ \E y \in Job : RescheduleBulkJob(y))
  BY DEF Disconnect, TimePasses, NextAttemptComes, BecomesEligible, Reconnect,
     ScheduleMessage, ContactChanges, ContactReturns, LeaseLapses, RescheduleBulkJob
<1>5. CASE \E d \in Replica : Poll(d) \/ TransientError(d)
  BY <1>1, <1>2, <1>5 DEF Poll, Actor
<1>6. CASE \E h \in Handler : \/ Answer(h)
                              \/ \E l \in Leaf : CancelScheduledMessage(h, l)
                              \/ \E y \in Job : CancelBulkJob(h, y)
  BY <1>1, <1>3, <1>6 DEF Answer, Actor
<1>7. QED  BY <1>1, <1>4, <1>5, <1>6 DEF Next

\* A process that has stopped half-way is remembered.
LEMMA CrashedStays ==
    ASSUME Next, ~crashed'
    PROVE  ~crashed
<1>1. ASSUME NEW w \in Actor  PROVE Finalize(w) \/ CleanupFails(w) => UNCHANGED crashed
  BY DEF Finalize, FinalizeBulkJob, GetBulkJobProgress, StampBulkJob, ReferencedByMessage,
     ReferencedByPendingSchedule, ReferencedBySiblingJob, AskFor, DeleteMedia, NotifyResult,
     CleanupFails
<1>2. ASSUME NEW d \in Replica, Poll(d) \/ TransientError(d)  PROVE UNCHANGED crashed
  BY <1>1, <1>2 DEF Poll, Actor, ClaimScheduledMessages, FindOrphanedBulkLeaves,
     SweepOrphanedBulkLeaves, ClaimBulkLeaf, EndCycle, MarkBulkJobRunning, ExamineBulk,
     ExaminePlain, SettleLeaf, TransientError
<1>3. ASSUME NEW h \in Handler,
             \/ Answer(h)
             \/ \E l \in Leaf : CancelScheduledMessage(h, l)
             \/ \E y \in Job : CancelBulkJob(h, y)
      PROVE  UNCHANGED crashed
  BY <1>1, <1>3 DEF Answer, Actor, CountProcessing, CommitCancel, CancelScheduledMessage,
     CancelBulkJob
<1>4. ASSUME \/ Disconnect \/ TimePasses
             \/ \E l \in Leaf : ScheduleMessage(l) \/ LeaseLapses(l)
             \/ \E l \in Leaf : ContactChanges(l) \/ ContactReturns(l)
             \/ \E y \in Job : CreateBulkJob(y) \/ RescheduleBulkJob(y)
      PROVE  UNCHANGED crashed
  BY <1>4 DEF Disconnect, TimePasses, NextAttemptComes, BecomesEligible, Reconnect,
     ScheduleMessage, ContactChanges, ContactReturns, LeaseLapses, CreateBulkJob,
     RescheduleBulkJob
<1>5. \A w \in Actor : ~Crash(w) /\ ~FinalizeFails(w)  BY DEF Crash, FinalizeFails
<1>6. QED  BY <1>1, <1>2, <1>3, <1>4, <1>5 DEF Next

\* A job is created with a recipient that is still to be sent to.
LEMMA CreatedIsPending ==
    ASSUME IInv, Next, NEW x \in Job, job[x].status \notin Open, job'[x].status \in Open
    PROVE  ~Drained(x)'
<1>0. job \in [Job -> Jobs] /\ leaf \in [Leaf -> Leaves]  BY DEF IInv, TypeOK
<1>1. job[x].status = "absent"
  <2>1. job[x].status \in {"absent"} \cup Finished
    BY <1>0 DEF Jobs, Finished
  <2>2. job[x].status \in Finished => job'[x].status = job[x].status
    BY StepKeeps DEF Frame
  <2>3. QED  BY <2>1, <2>2
<1>2. job'[x] # job[x] /\ job' # job  OBVIOUS
<1>3. ASSUME NEW y \in Job, CreateBulkJob(y)  PROVE ~Drained(x)'
  <2>1. y = x  BY <1>0, <1>2, <1>3 DEF CreateBulkJob
  <2>2. PICK l \in LeavesOf(x) : contact[l] = "fit"  BY <1>3, <2>1 DEF CreateBulkJob
  <2>3. l \in Leaf  BY DEF LeavesOf
  <2>4. leaf'[l] = Waiting(0)  BY <1>3, <2>1, <2>2, <2>3 DEF CreateBulkJob
  <2>5. leaf'[l].status \in Pending  BY <2>4, Built DEF Pending
  <2>6. QED  BY <2>2, <2>5 DEF Drained, LeavesOf
<1>4. ASSUME NEW w \in Actor, StampBulkJob(w) \/ NotifyResult(w)  PROVE FALSE
  <2>1. task[w].phase \in {"stamp", "notify"} /\ task[w].job = x
    BY <1>0, <1>2, <1>4 DEF StampBulkJob, NotifyResult
  <2>2. QED  BY <1>1, <2>1 DEF IInv, TaskInv, Named, Finalizing, Reporting
<1>5. ASSUME NEW d \in Replica, MarkBulkJobRunning(d)  PROVE FALSE
  BY <1>0, <1>1, <1>2, <1>5 DEF MarkBulkJobRunning
<1>6. ASSUME NEW h \in Handler, CommitCancel(h)  PROVE FALSE
  <2>1. task[h].phase = "counted" /\ task[h].job = x
    BY <1>0, <1>2, <1>6 DEF CommitCancel
  <2>2. QED  BY <1>1, <2>1 DEF IInv, TaskInv, Named, Finalizing, Actor
<1>7. QED  BY <1>2, <1>3, <1>4, <1>5, <1>6, JobChanges

\* A drained open job keeps an actor that is about to close it.
LEMMA ForgottenStep ==
    ASSUME IInv, \A w \in Actor : Carrying(w), NoJobForgotten, [Next]_vars
    PROVE  NoJobForgotten' /\ \A w \in Actor : Carrying(w)'
<1>1. \A w \in Actor : HandsOn(w)  BY AllHandOn
<1>2. \A w \in Actor : Carrying(w)'  BY <1>1 DEF HandsOn
<1>3. NoJobForgotten'
  <2> SUFFICES ASSUME ~crashed', NEW x \in Job, job'[x].status \in Open, Drained(x)'
               PROVE  \E w \in Actor : Closing(w, x)'
    BY DEF NoJobForgotten
  <2>1. CASE UNCHANGED vars
    <3>1. ~crashed /\ job[x].status \in Open /\ Drained(x)
      BY <2>1 DEF vars, Drained, LeavesOf
    <3>2. PICK w \in Actor : Closing(w, x)  BY <3>1 DEF NoJobForgotten
    <3>3. QED  BY <1>1, <3>2 DEF HandsOn
  <2>2. CASE Next
    <3>1. ~crashed  BY <2>2, CrashedStays
    <3>2. job[x].status \in Open  BY <2>2, CreatedIsPending
    <3>3. CASE ~Drained(x)  BY <2>2, <3>3, LastTakesOn
    <3>4. CASE Drained(x)
      <4>1. PICK w \in Actor : Closing(w, x)  BY <3>1, <3>2, <3>4 DEF NoJobForgotten
      <4>2. QED  BY <1>1, <4>1 DEF HandsOn
    <3>5. QED  BY <3>3, <3>4
  <2>3. QED  BY <2>1, <2>2
<1>4. QED  BY <1>2, <1>3

\* No broadcast stays open for want of someone to close it: finalizers that return
\* because recipients are pending, sweeps, fenced-out claimers and cancellations hand
\* each drained job to one another without a gap, as long as no process stops.
THEOREM NoJobForgottenAlways == Spec => []NoJobForgotten
<1> DEFINE J == NoJobForgotten /\ \A w \in Actor : Carrying(w)
<1>1. Init => J
  <2> SUFFICES ASSUME Init  PROVE J
    OBVIOUS
  <2>1. \A w \in Actor : Carrying(w)  BY DEF Init, Carrying, Idle
  <2>2. NoJobForgotten  BY DEF Init, NoJobForgotten, Open
  <2>3. QED  BY <2>1, <2>2
<1>2. IInv /\ J /\ [Next]_vars => J'
  BY ForgottenStep
<1>3. J => NoJobForgotten  OBVIOUS
<1> HIDE DEF J
<1>4. QED  BY <1>1, <1>2, <1>3, Inductive, PTL DEF Spec

-----------------------------------------------------------------------------
(* A completed job has its notice or somebody who is on the way to send it. *)

Heard ==
    ~crashed => \A x \in Job : job[x].status \in Completed =>
                   job[x].notices = 1 \/ \E w \in Actor : Announcing(w, x)

\* The cleanup steps go on to the notice.
LEMMA CleanupTells ==
    ASSUME IInv, NEW w \in Actor, task[w].phase \in Cleanup,
           Cleaned(w) \/ \E p \in Cleanup : Go(w, [task[w] EXCEPT !.phase = p])
    PROVE  \A v \in Actor, x \in Job : Announcing(v, x) => Announcing(v, x)'
<1>1. /\ \A v \in Actor \ {w} : task'[v] = task[v]
      /\ task[w].verdict \in Completed => task'[w].phase \in Reporting
      /\ task'[w].phase \in Reporting =>
            task'[w].job = task[w].job /\ task'[w].verdict = task[w].verdict
  BY CleanupMoves
<1>2. QED  BY <1>1 DEF Announcing, Reporting

\* Who announces a result goes on until it is out, unless it stops half-way.
LEMMA TellsOn ==
    ASSUME IInv, \A w \in Actor : Carrying(w), Next, ~crashed',
           NEW u \in Actor, NEW x \in Job, Announcing(u, x)
    PROVE  Announcing(u, x)' \/ job'[x].notices = 1
<1>0. task \in [Actor -> Tasks] /\ job \in [Job -> Jobs]  BY DEF IInv, TypeOK
<1>1. task[u].phase \in Reporting  BY DEF Announcing, Reporting
<1>2. CASE task'[u] = task[u]  BY <1>2 DEF Announcing
<1>3. ASSUME NEW w \in Actor, Finalize(w)
      PROVE  Announcing(u, x)' \/ job'[x].notices = 1
  <2>0. \A v \in Actor \ {w} : task'[v] = task[v]  BY <1>3, FinalizeHandsOn
  <2>1. CASE u # w  BY <2>0, <2>1, <1>2
  <2>2. CASE u = w /\ (FinalizeBulkJob(w) \/ GetBulkJobProgress(w) \/ StampBulkJob(w))
    BY <1>1, <2>2 DEF FinalizeBulkJob, GetBulkJobProgress, StampBulkJob, Reporting, Cleanup
  <2>3. CASE \/ ReferencedByMessage(w) \/ ReferencedByPendingSchedule(w)
             \/ ReferencedBySiblingJob(w) \/ DeleteMedia(w)
    <3>1. /\ task[w].phase \in Cleanup
          /\ Cleaned(w) \/ \E p \in Cleanup : Go(w, [task[w] EXCEPT !.phase = p])
      BY <2>3 DEF ReferencedByMessage, ReferencedByPendingSchedule, ReferencedBySiblingJob, AskFor,
         DeleteMedia, Cleanup
    <3>2. QED  BY <3>1, CleanupTells
  <2>4. CASE u = w /\ NotifyResult(w)
    <3>1. task[w].job = x /\ Reports(w)  BY <2>4 DEF Announcing, Reports, Reporting
    <3>2. job[x].notices = 0  BY <3>1 DEF IInv, TaskInv, Sealing
    <3>3. job'[x].notices = job[x].notices + 1
      BY <1>0, <2>4, <3>1 DEF NotifyResult, Jobs
    <3>4. QED  BY <3>2, <3>3
  <2>5. QED  BY <1>3, <2>1, <2>2, <2>3, <2>4 DEF Finalize
<1>4. ASSUME NEW d \in Replica, Poll(d) \/ TransientError(d), ~Finalize(d)
      PROVE  task'[u] = task[u]
  <2>1. \A v \in Actor \ {d} : task'[v] = task[v]  BY <1>4, PollHandsOn DEF Actor
  <2>2. task[d].phase \notin Reporting
    BY <1>4 DEF Poll, ClaimScheduledMessages, FindOrphanedBulkLeaves, SweepOrphanedBulkLeaves,
       ClaimBulkLeaf, EndCycle, MarkBulkJobRunning, ExamineBulk, ExaminePlain, SettleLeaf,
       TransientError, Reporting, Cleanup
  <2>3. QED  BY <1>1, <2>1, <2>2
<1>5. ASSUME NEW h \in Handler, ~Finalize(h),
             \/ Answer(h)
             \/ \E l \in Leaf : CancelScheduledMessage(h, l)
             \/ \E y \in Job : CancelBulkJob(h, y)
      PROVE  task'[u] = task[u]
  <2>1. \A v \in Actor \ {h} : task'[v] = task[v]  BY <1>5, AnswerHandsOn DEF Actor
  <2>2. task[h].phase \notin Reporting
    BY <1>5 DEF Answer, CountProcessing, CommitCancel, CancelScheduledMessage, CancelBulkJob,
       Reporting, Cleanup
  <2>3. QED  BY <1>1, <2>1, <2>2
<1>6. ASSUME NEW w \in Actor, CleanupFails(w)  PROVE Announcing(u, x)'
  BY <1>6, CleanupTells DEF CleanupFails
<1>7. \A w \in Actor : ~Crash(w) /\ ~FinalizeFails(w)  BY DEF Crash, FinalizeFails
<1>8. ASSUME \/ Disconnect \/ TimePasses
             \/ \E l \in Leaf : ScheduleMessage(l) \/ LeaseLapses(l)
             \/ \E l \in Leaf : ContactChanges(l) \/ ContactReturns(l)
             \/ \E y \in Job : CreateBulkJob(y) \/ RescheduleBulkJob(y)
      PROVE  task'[u] = task[u]
  BY <1>8 DEF Disconnect, TimePasses, NextAttemptComes, BecomesEligible, Reconnect,
     ScheduleMessage, ContactChanges, ContactReturns, LeaseLapses, CreateBulkJob,
     RescheduleBulkJob
<1>9. QED  BY <1>2, <1>3, <1>4, <1>5, <1>6, <1>7, <1>8 DEF Next, Actor

\* Whoever completes a job is then on the way to its notice, and no notice is
\* taken back.
LEMMA CompletedIsTold ==
    ASSUME IInv, Next, NEW x \in Job, job'[x].status \in Completed
    PROVE  \/ \E w \in Actor : Announcing(w, x)'
           \/ /\ job[x].status \in Completed
              /\ job[x].notices = 1 => job'[x].notices = 1
<1>0. job \in [Job -> Jobs] /\ task \in [Actor -> Tasks]  BY DEF IInv, TypeOK
<1>1. CASE job'[x] = job[x]  BY <1>1
<1>2. ASSUME job'[x] # job[x], NEW y \in Job, CreateBulkJob(y)  PROVE FALSE
  <2>1. y = x  BY <1>0, <1>2 DEF CreateBulkJob
  <2>2. job'[x].status = "scheduled"  BY <1>0, <1>2, <2>1 DEF CreateBulkJob, Jobs
  <2>3. QED  BY <2>2 DEF Completed
<1>3. ASSUME job'[x] # job[x], NEW d \in Replica, MarkBulkJobRunning(d)  PROVE FALSE
  <2>1. job'[x].status = "running"  BY <1>0, <1>3 DEF MarkBulkJobRunning, Jobs
  <2>2. QED  BY <2>1 DEF Completed
<1>4. ASSUME job'[x] # job[x], NEW h \in Handler, CommitCancel(h)  PROVE FALSE
  <2>1. job'[x].status = "canceled"  BY <1>0, <1>4 DEF CommitCancel, Jobs
  <2>2. QED  BY <2>1 DEF Completed
<1>5. ASSUME job'[x] # job[x], NEW w \in Actor, NotifyResult(w)
      PROVE  job[x].status \in Completed /\ job[x].notices = 0
  <2>1. task[w].phase = "notify" /\ task[w].job = x  BY <1>0, <1>5 DEF NotifyResult
  <2>2. QED  BY <2>1 DEF IInv, TaskInv, Sealing, Reports, Reporting
<1>6. ASSUME job'[x] # job[x], NEW w \in Actor, StampBulkJob(w)  PROVE Announcing(w, x)'
  <2>1. task[w].phase = "stamp" /\ task[w].job = x /\ task[w] \in Tasks
    BY <1>0, <1>6 DEF StampBulkJob
  <2>2. task[w].verdict = "canceled" => job'[x].status = "canceled"
    <3>1. task[w].verdict = "canceled" => job[x].status = "canceled"
      BY <2>1 DEF IInv, TaskInv, Sealing
    <3>2. QED  BY <3>1, <2>1, <1>0, <1>6 DEF StampBulkJob, Jobs
  <2>3. task[w].verdict \in Completed
    BY <2>1, <2>2 DEF IInv, TaskInv, Sealing, Completed
  <2> DEFINE t == [task[w] EXCEPT !.phase = "messages"]
  <2>4. t.phase = "messages" /\ t.job = x /\ t.verdict = task[w].verdict
    BY <2>1 DEF Tasks
  <2>5. Go(w, t)  BY <1>6 DEF StampBulkJob
  <2> HIDE DEF t
  <2>6. task'[w] = t  BY <2>5, <1>0 DEF Go
  <2>7. QED  BY <2>3, <2>4, <2>6 DEF Announcing, Cleanup
<1>7. QED  BY <1>1, <1>2, <1>3, <1>4, <1>5, <1>6, JobChanges

\* The guarded UPDATE of finalizeBulkJobIfComplete lets one caller through, who goes
\* on to the one notice although media cleanup and errors of it come first; a job
\* that did not complete is never announced.
THEOREM OneVerdictAlways == Spec => []OneVerdict
<1> DEFINE J == Heard /\ \A w \in Actor : Carrying(w)
<1>1. Init => J
  <2> SUFFICES ASSUME Init  PROVE J
    OBVIOUS
  <2>1. \A w \in Actor : Carrying(w)  BY DEF Init, Carrying, Idle
  <2>2. Heard  BY DEF Init, Heard, Completed
  <2>3. QED  BY <2>1, <2>2
<1>2. IInv /\ J /\ [Next]_vars => J'
  <2> SUFFICES ASSUME IInv, J, [Next]_vars  PROVE J'
    OBVIOUS
  <2>1. \A w \in Actor : Carrying(w)'  BY AllHandOn DEF HandsOn
  <2>2. Heard'
    <3>1. CASE UNCHANGED vars  BY <3>1 DEF vars, Heard, Announcing
    <3>2. CASE Next
      <4> SUFFICES ASSUME ~crashed', NEW x \in Job, job'[x].status \in Completed,
                          ~ \E w \in Actor : Announcing(w, x)'
                   PROVE  job'[x].notices = 1
        BY DEF Heard
      <4>1. ~crashed  BY <3>2, CrashedStays
      <4>2. /\ job[x].status \in Completed
            /\ job[x].notices = 1 => job'[x].notices = 1
        BY <3>2, CompletedIsTold
      <4>3. CASE job[x].notices = 1  BY <4>2, <4>3
      <4>4. CASE \E w \in Actor : Announcing(w, x)  BY <3>2, <4>4, TellsOn
      <4>5. QED  BY <4>1, <4>2, <4>3, <4>4 DEF Heard
    <3>3. QED  BY <3>1, <3>2
  <2>3. QED  BY <2>1, <2>2
<1>3. IInv /\ J => OneVerdict
  BY DEF IInv, RowInv, AtMostOne, Heard, OneVerdict
<1> HIDE DEF J
<1>4. QED  BY <1>1, <1>2, <1>3, Inductive, PTL DEF Spec
=============================================================================
