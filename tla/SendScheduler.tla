---------------------------- MODULE SendScheduler ----------------------------
(***************************************************************************)
(* The order in which a WhatsApp worker runs its commands                  *)
(* (services/whatsapp/internal/nats/send_scheduler.go processMessages).    *)
(*                                                                         *)
(* A fetcher goroutine admits one command at a time, as long as slots last. *)
(* The main loop keeps one queue per contact and hands ready heads, round  *)
(* robin, to a single sender goroutine; goroutines of their own download   *)
(* the media of heads, under a smaller limit.  A send that is not settled  *)
(* keeps its place and is tried again.  The goroutines meet in channels:   *)
(* each action below is one goroutine's step between two of them.          *)
(*                                                                         *)
(* What the sender does with a command is WorkerSend's handler: here it    *)
(* settles the command or not.                                             *)
(***************************************************************************)
EXTENDS Integers, Sequences, FiniteSets, SequencesExt

CONSTANTS
    Msg,          \* the messages of the command stream, by stream sequence
    Id,           \* the command id of each: a copy has the id of its original
    NoId,         \* typing commands have none
    To,           \* the contact of each
    NoContact,    \* a command without one
    Media,        \* messages whose media has to be downloaded
    Control,      \* messages that are not sends
    Stuck,        \* sends whose handler never settles them
    QueueLimit,   \* commandQueueLimit, also the consumer's MaxAckPending
    MediaLimit,   \* mediaPreparationLimit
    MaxDeliver,   \* commandMaxDeliver
    MaxTroubles,  \* bound: lost heartbeats, failed sends and restarts, together
    None

\* A job of the scheduler is one delivery of a message.
Job == Msg \X (1 .. MaxDeliver)
JobsOf(m) == {m} \X (1 .. MaxDeliver)
Message(j) == j[1]

\* What a handler is started for: copies and redeliveries are the same command.
Command(m) == IF Id[m] = NoId THEN m ELSE Id[m]

ASSUME MsgAssumption ==
    Msg \subseteq Nat /\ Media \cap Control = {} /\ Stuck \cap Control = {} /\ None \notin Job
\* A copy is published from the same outbox row.
ASSUME CopyAssumption == \A m, n \in Msg : Command(m) = Command(n) => To[m] = To[n]
ASSUME IdAssumption == \A m \in Msg : Id[m] \notin Msg /\ (Id[m] = NoId => m \in Control)
ASSUME LimitAssumption ==
    QueueLimit \in Nat \ {0} /\ MediaLimit \in Nat \ {0} /\ MaxDeliver \in Nat \ {0}

\* Mutant: media commands have a queue of their own.
KeyMediaApart(m) == IF m \in Media \/ To[m] = NoContact THEN "control" ELSE To[m]

\* job.key, the queue a command belongs to.
Key(m) == IF To[m] = NoContact THEN "control" ELSE To[m]

Contact == {To[m] : m \in Msg} \cup {"control"}

VARIABLES
    faults, restarts,
    stream, deliveries,   \* each message at the broker
    phase,                \* the main loop runs, or has returned
    fetcher,              \* what the fetcher is doing
    offer,                \* the job it offers on the incoming channel
    slots,                \* commands admitted (the slots channel)
    queue, order,         \* the queue of each contact; the round robin list
    activeIds,            \* activeIDs
    ready,                \* jobs whose ready is set
    prep,                 \* the preparation goroutine of each media job
    mediaSlots,           \* the mediaSlots channel
    buffers,              \* jobs (or their goroutines) with a release to call
    sending, handler,     \* the job of the sender goroutine and how far it is
    delayed,              \* jobs whose retryAt is ahead
    executed              \* commands a handler has been started for (history)

brokerVars == <<stream, deliveries>>
fetchVars == <<fetcher, offer>>
prepVars == <<prep, mediaSlots, buffers>>
loopVars == <<queue, order, activeIds, ready, sending, handler, delayed, executed>>
boundVars == <<faults, restarts>>
vars == <<boundVars, brokerVars, phase, fetchVars, slots, prepVars, loopVars>>

\* The type invariant.  The channels hold no more than their capacity.
TypeOK ==
    /\ faults \in Nat /\ restarts \in Nat
    /\ stream \in [Msg -> {"absent", "ready", "held", "done"}]
    /\ deliveries \in [Msg -> 0 .. MaxDeliver]
    /\ phase \in {"running", "stopping"}
    /\ fetcher \in {"slot", "fetch", "offer", "stopped"}
    /\ offer \in Job \cup {None} /\ (fetcher = "offer" => offer \in Job)
    /\ slots \in 0 .. QueueLimit
    /\ queue \in [Contact -> Seq(Job)]
    /\ order \in Seq(Contact)
    /\ activeIds \subseteq {Id[m] : m \in Msg}
    /\ ready \subseteq Job
    /\ prep \in [Job -> {"none", "check", "wait", "download", "offer"}]
    /\ mediaSlots \in 0 .. MediaLimit
    /\ buffers \subseteq Job
    /\ sending \in Job \cup {None}
    /\ handler \in {"none", "running", "settled", "unsettled"}
    /\ delayed \subseteq Job
    /\ executed \subseteq {Command(m) : m \in Msg}

Fresh ==
    /\ phase = "running"
    /\ fetcher = "slot" /\ offer = None
    /\ slots = 0
    /\ queue = [k \in Contact |-> <<>>] /\ order = <<>>
    /\ activeIds = {} /\ ready = {}
    /\ prep = [j \in Job |-> "none"] /\ mediaSlots = 0 /\ buffers = {}
    /\ sending = None /\ handler = "none" /\ delayed = {}

Init ==
    /\ faults = 0 /\ restarts = 0
    /\ stream = [m \in Msg |-> "absent"]
    /\ deliveries = [m \in Msg |-> 0]
    /\ executed = {}
    /\ Fresh

Bounded == faults + restarts < MaxTroubles
Fault == Bounded /\ faults' = faults + 1 /\ UNCHANGED restarts
Queued == UNION {ToSet(queue[k]) : k \in Contact}

-----------------------------------------------------------------------------
(***************************************************************************)
(* The command stream (external).  New messages come in stream order.      *)
(***************************************************************************)
Publish(m) ==
    /\ stream[m] = "absent"
    /\ \A n \in Msg : n < m => stream[n] # "absent"
    /\ stream' = [stream EXCEPT ![m] = "ready"]
    /\ UNCHANGED <<boundVars, deliveries, phase, fetchVars, slots, prepVars, loopVars>>

Deliverable(m) ==
    /\ stream[m] = "ready" /\ deliveries[m] < MaxDeliver
    /\ deliveries[m] = 0 => \A n \in Msg : n < m => deliveries[n] > 0
    /\ Cardinality({n \in Msg : stream[n] = "held"}) < QueueLimit

\* AckWait runs out for a message without heartbeats; a lost heartbeat is a fault.
Heartbeat(m) ==
    /\ phase = "running"
    /\ \E j \in JobsOf(m) : j \in Queued \/ (fetcher = "offer" /\ offer = j)

AckTimeout(m) ==
    /\ stream[m] = "held"
    /\ stream' = [stream EXCEPT ![m] = "ready"]
    /\ IF Heartbeat(m) THEN Fault ELSE UNCHANGED boundVars
    /\ UNCHANGED <<deliveries, phase, fetchVars, slots, prepVars, loopVars>>

-----------------------------------------------------------------------------
(***************************************************************************)
(* The fetcher.  A fetch that fails gives its slot back.                   *)
(***************************************************************************)
TakeSlot ==
    /\ phase = "running" /\ fetcher = "slot"
    /\ slots < QueueLimit /\ slots' = slots + 1
    /\ fetcher' = "fetch"
    /\ UNCHANGED <<boundVars, brokerVars, phase, offer, prepVars, loopVars>>

Fetch(m) ==
    /\ fetcher = "fetch"
    /\ Deliverable(m)
    /\ stream' = [stream EXCEPT ![m] = "held"]
    /\ deliveries' = [deliveries EXCEPT ![m] = @ + 1]
    /\ fetcher' = "offer" /\ offer' = <<m, deliveries[m] + 1>>
    /\ UNCHANGED <<boundVars, phase, slots, prepVars, loopVars>>

FetchFails ==
    /\ fetcher = "fetch"
    /\ slots' = slots - 1
    /\ fetcher' = IF phase = "running" THEN "slot" ELSE "stopped"
    /\ UNCHANGED <<boundVars, brokerVars, phase, offer, prepVars, loopVars>>

-----------------------------------------------------------------------------
(***************************************************************************)
(* The end of every turn of the main loop: unless the sender is busy, the  *)
(* first contact of the list whose head is ready and not delayed gets it,  *)
(* and the contacts up to that one go to the back.  q, o, able and s are   *)
(* the queues, the list, the jobs that may run and the sender after the    *)
(* turn's event.                                                           *)
(***************************************************************************)
RoundRobin(q, o, able, s) ==
    LET i == SelectInSeq(o, LAMBDA k : q[k] # <<>> /\ Head(q[k]) \in able)
    IN  /\ queue' = q
        /\ IF s # None \/ i = 0
             THEN /\ order' = o /\ sending' = s
                  /\ UNCHANGED executed
                  /\ handler' = IF s = None THEN "none" ELSE handler
             ELSE /\ order' = SubSeq(o, i + 1, Len(o)) \o SubSeq(o, 1, i)
                  /\ sending' = Head(q[o[i]])
                  /\ executed' = executed \cup {Command(Message(Head(q[o[i]])))}
                  /\ handler' = "running"

\* startHead: a media job is prepared first, any other is ready.  ok are the jobs
\* that are ready so far.
StartHead(j, ok) ==
    IF Message(j) \in Media
      THEN prep' = [prep EXCEPT ![j] = "check"] /\ ready' = ok
      ELSE ready' = ok \cup {j} /\ UNCHANGED prep

\* Mutant: a finished command does not start the next one of its contact.
StartNextNever(rest, ok) == ready' = ok /\ UNCHANGED prep

StartNext(rest, ok) ==
    IF rest = <<>> THEN ready' = ok /\ UNCHANGED prep ELSE StartHead(Head(rest), ok)

\* Mutant: redeliveries of a queued command are not recognised.
IsDuplicateNever(m) == FALSE

\* A redelivered typing command is queued again.
IsDuplicate(m) == Id[m] # NoId /\ Id[m] \in activeIds

\* Mutant: a duplicate keeps its slot.
DropDuplicateLeaking ==
    /\ phase = "running" /\ fetcher = "offer"
    /\ IsDuplicate(Message(offer))
    /\ fetcher' = "slot" /\ offer' = None
    /\ UNCHANGED <<boundVars, brokerVars, phase, slots, prepVars, loopVars>>

\* case job := <-incoming, for a command that is already in a queue.
DropDuplicate ==
    /\ phase = "running" /\ fetcher = "offer"
    /\ IsDuplicate(Message(offer))
    /\ fetcher' = "slot" /\ offer' = None
    /\ slots' = slots - 1
    /\ UNCHANGED <<boundVars, brokerVars, phase, prepVars, loopVars>>

Listed(k) == IF queue[k] = <<>> THEN Append(order, k) ELSE order

Admit ==
    LET m == Message(offer)
        k == Key(m)
    IN  /\ phase = "running" /\ fetcher = "offer"
        /\ ~IsDuplicate(m)
        /\ fetcher' = "slot" /\ offer' = None
        /\ activeIds' = activeIds \cup {Id[m]}
        /\ IF queue[k] = <<>> THEN StartHead(offer, ready) ELSE UNCHANGED <<prep, ready>>
        /\ RoundRobin([queue EXCEPT ![k] = Append(@, offer)], Listed(k), ready' \ delayed, sending)
        /\ UNCHANGED <<boundVars, brokerVars, phase, slots, mediaSlots, buffers, delayed>>

\* case result := <-prepared.
ReceivePrepared(j) ==
    /\ phase = "running" /\ prep[j] = "offer"
    /\ prep' = [prep EXCEPT ![j] = "none"]
    /\ ready' = ready \cup {j}
    /\ RoundRobin(queue, order, ready' \ delayed, sending)
    /\ UNCHANGED <<boundVars, brokerVars, phase, fetchVars, slots, mediaSlots, buffers,
                   activeIds, delayed>>

\* Mutant: a send that has to be tried again still counts as being sent.
RetainHeadBusy ==
    /\ phase = "running" /\ handler = "unsettled"
    /\ delayed' = delayed \cup {sending}
    /\ RoundRobin(queue, order, ready \ delayed', sending)
    /\ UNCHANGED <<boundVars, brokerVars, phase, fetchVars, slots, prepVars, activeIds, ready>>

\* case job := <-finished, for a send that has to be tried again.
RetainHead ==
    /\ phase = "running" /\ handler = "unsettled"
    /\ delayed' = delayed \cup {sending}
    /\ RoundRobin(queue, order, ready \ delayed', None)
    /\ UNCHANGED <<boundVars, brokerVars, phase, fetchVars, slots, prepVars, activeIds, ready>>

\* Mutant: the buffer is dropped and its media slot is not given back.
ReleaseBufferOnly(j) == buffers' = buffers \ {j} /\ UNCHANGED mediaSlots

Release(j) ==
    /\ mediaSlots' = IF j \in buffers THEN mediaSlots - 1 ELSE mediaSlots
    /\ buffers' = buffers \ {j}

\* case job := <-finished, for a settled command: it gives back what it holds
\* and the next command of its contact becomes the head.
FinishHead ==
    LET k == Key(Message(sending))
        rest == Tail(queue[k])
    IN  /\ phase = "running" /\ handler = "settled"
        /\ activeIds' = activeIds \ {Id[Message(sending)]}
        /\ slots' = slots - 1
        /\ Release(sending)
        /\ delayed' = delayed \ {sending}
        /\ StartNext(rest, ready \ {sending})
        /\ RoundRobin([queue EXCEPT ![k] = rest],
                      IF rest = <<>> THEN RemoveFirst(order, k) ELSE order,
                      ready' \ delayed', None)
        /\ UNCHANGED <<boundVars, brokerVars, phase, fetchVars>>

\* case <-ticker.C: retry times S have passed.
Ticker(S) ==
    /\ phase = "running" /\ S # {}
    /\ delayed' = delayed \ S
    /\ RoundRobin(queue, order, ready \ delayed', sending)
    /\ UNCHANGED <<boundVars, brokerVars, phase, fetchVars, slots, prepVars, activeIds, ready>>

-----------------------------------------------------------------------------
(***************************************************************************)
(* The preparation goroutine of a media head.                              *)
(***************************************************************************)
\* The ledger already has the result: no download, no slot.
PrepareReplay(j) ==
    /\ phase = "running" /\ prep[j] = "check"
    /\ prep' = [prep EXCEPT ![j] = "offer"]
    /\ UNCHANGED <<boundVars, brokerVars, phase, fetchVars, slots, mediaSlots, buffers, loopVars>>

PrepareWait(j) ==
    /\ phase = "running" /\ prep[j] = "check"
    /\ prep' = [prep EXCEPT ![j] = "wait"]
    /\ UNCHANGED <<boundVars, brokerVars, phase, fetchVars, slots, mediaSlots, buffers, loopVars>>

TakeMediaSlot(j) ==
    /\ phase = "running" /\ prep[j] = "wait"
    /\ mediaSlots < MediaLimit /\ mediaSlots' = mediaSlots + 1
    /\ buffers' = buffers \cup {j}
    /\ prep' = [prep EXCEPT ![j] = "download"]
    /\ UNCHANGED <<boundVars, brokerVars, phase, fetchVars, slots, loopVars>>

\* Downloaded, or given up after the last attempt: the result says which.
Downloaded(j) ==
    /\ phase = "running" /\ prep[j] = "download"
    /\ prep' = [prep EXCEPT ![j] = "offer"]
    /\ UNCHANGED <<boundVars, brokerVars, phase, fetchVars, slots, mediaSlots, buffers, loopVars>>

-----------------------------------------------------------------------------
(***************************************************************************)
(* The sender goroutine.  A send is settled by its acknowledgement; other  *)
(* commands count as settled and may have asked for a redelivery.          *)
(***************************************************************************)
HandlerSettles ==
    /\ handler = "running" /\ Message(sending) \notin Stuck
    /\ handler' = "settled"
    /\ stream' = [stream EXCEPT ![Message(sending)] = "done"]
    /\ UNCHANGED <<boundVars, deliveries, phase, fetchVars, slots, prepVars, queue, order,
                   activeIds, ready, sending, delayed, executed>>

HandlerNaks ==
    /\ handler = "running" /\ Message(sending) \in Control
    /\ Fault
    /\ handler' = "settled"
    /\ stream' = [stream EXCEPT ![Message(sending)] = IF @ = "done" THEN @ ELSE "ready"]
    /\ UNCHANGED <<deliveries, phase, fetchVars, slots, prepVars, queue, order, activeIds,
                   ready, sending, delayed, executed>>

\* Mutant: job.settled stays TRUE for a send.
HandlerDefersSettled ==
    /\ handler = "running" /\ Message(sending) \notin Control
    /\ IF Message(sending) \in Stuck THEN UNCHANGED boundVars ELSE Fault
    /\ handler' = "settled"
    /\ UNCHANGED <<brokerVars, phase, fetchVars, slots, prepVars, queue, order, activeIds,
                   ready, sending, delayed, executed>>

HandlerDefers ==
    /\ handler = "running" /\ Message(sending) \notin Control
    /\ IF Message(sending) \in Stuck THEN UNCHANGED boundVars ELSE Fault
    /\ handler' = "unsettled"
    /\ UNCHANGED <<brokerVars, phase, fetchVars, slots, prepVars, queue, order, activeIds,
                   ready, sending, delayed, executed>>

-----------------------------------------------------------------------------
(***************************************************************************)
(* Shutdown.  The loop returns and negatively acknowledges what is queued, *)
(* the sender's command excepted; the fetcher does so for what it offers;  *)
(* the process ends when all goroutines have.                              *)
(***************************************************************************)
Stop ==
    /\ phase = "running"
    /\ Bounded
    /\ phase' = "stopping"
    /\ stream' = [m \in Msg |->
                    IF stream[m] = "held" /\ \E j \in JobsOf(m) : j \in Queued \ {sending}
                      THEN "ready" ELSE stream[m]]
    /\ fetcher' = IF fetcher = "slot" THEN "stopped" ELSE fetcher
    /\ UNCHANGED <<boundVars, deliveries, offer, slots, prepVars, loopVars>>

FetcherNaks ==
    /\ phase = "stopping" /\ fetcher = "offer"
    /\ stream' = [stream EXCEPT ![Message(offer)] = IF @ = "held" THEN "ready" ELSE @]
    /\ fetcher' = "stopped" /\ offer' = None
    /\ UNCHANGED <<boundVars, deliveries, phase, slots, prepVars, loopVars>>

Renewed ==
    /\ phase' = "running" /\ fetcher' = "slot" /\ offer' = None /\ slots' = 0
    /\ queue' = [k \in Contact |-> <<>>] /\ order' = <<>>
    /\ activeIds' = {} /\ ready' = {}
    /\ prep' = [j \in Job |-> "none"] /\ mediaSlots' = 0 /\ buffers' = {}
    /\ sending' = None /\ handler' = "none" /\ delayed' = {}
    /\ UNCHANGED <<brokerVars, executed>>

Restart ==
    /\ phase = "stopping" /\ fetcher = "stopped" /\ handler # "running"
    /\ restarts' = restarts + 1 /\ UNCHANGED faults
    /\ Renewed

Crash ==
    /\ Bounded /\ restarts' = restarts + 1 /\ UNCHANGED faults
    /\ Renewed

-----------------------------------------------------------------------------
Fetcher == TakeSlot \/ (\E m \in Msg : Fetch(m)) \/ FetchFails \/ FetcherNaks
Loop ==
    \/ DropDuplicate \/ Admit \/ RetainHead \/ FinishHead
    \/ \E j \in Job : ReceivePrepared(j)
Prepare(j) == PrepareReplay(j) \/ PrepareWait(j) \/ TakeMediaSlot(j) \/ Downloaded(j)
Sender == HandlerSettles \/ HandlerNaks \/ HandlerDefers

Next ==
    \/ \E m \in Msg : Publish(m) \/ AckTimeout(m)
    \/ Fetcher \/ Loop
    \/ \E S \in SUBSET delayed : Ticker(S)
    \/ \E j \in Job : Prepare(j)
    \/ Sender
    \/ Stop \/ Restart \/ Crash

\* Every goroutine runs and its calls return (they have timeouts); select picks
\* at random among the channels that are ready; the fetcher keeps polling and
\* finds what can be delivered; goroutines blocked on a channel get it in turn;
\* retry times pass and unrenewed deadlines expire.
Fairness ==
    /\ WF_vars(TakeSlot \/ FetcherNaks)
    /\ \A m \in Msg : SF_vars(Fetch(m))
    /\ WF_vars(Admit \/ DropDuplicate) /\ WF_vars(RetainHead \/ FinishHead)
    /\ \A m \in Media :
         /\ WF_vars(\E j \in JobsOf(m) : PrepareReplay(j) \/ PrepareWait(j) \/ Downloaded(j)
                                          \/ ReceivePrepared(j))
         /\ SF_vars(\E j \in JobsOf(m) : TakeMediaSlot(j))
    /\ \A m \in Msg \ Control :
         WF_vars(\E S \in SUBSET delayed : S \cap JobsOf(m) # {} /\ Ticker(S))
    /\ \A m \in Msg : WF_vars(~Heartbeat(m) /\ AckTimeout(m))
    /\ WF_vars(Sender)
    /\ WF_vars(Restart)

Spec == Init /\ [][Next]_vars /\ Fairness

-----------------------------------------------------------------------------
(***************************************************************************)
(* Properties                                                              *)
(***************************************************************************)

\* Admission is counted exactly: every slot belongs to a queued command or to
\* the fetcher.  A slot lost on any path (a duplicate, a failed fetch, a retry)
\* would shrink the window until the worker stops fetching.
SlotsAccounted ==
    phase = "running" =>
        slots = Cardinality(Queued) + (IF fetcher = "slot" THEN 0 ELSE 1)

\* At most MediaLimit downloads are in memory: a slot belongs to the download
\* or to the prepared head until that head is settled.
MediaBounded ==
    phase = "running" =>
        /\ mediaSlots = Cardinality(buffers) /\ mediaSlots <= MediaLimit
        /\ buffers \subseteq {Head(queue[k]) : k \in {k \in Contact : queue[k] # <<>>}}

\* No head is forgotten: the round robin list names the contacts with work, each
\* once; every head is ready or has a preparation under way; and the sender is
\* idle only when every ready head waits for its retry time.
NoHeadForgotten ==
    phase = "running" =>
        /\ ToSet(order) = {k \in Contact : queue[k] # <<>>}
        /\ IsInjective(order)
        /\ \A k \in Contact : queue[k] # <<>> =>
             Head(queue[k]) \in ready \/ prep[Head(queue[k])] # "none"
        /\ sending = None => ready \subseteq delayed

\* A command that has an id is in the queues at most once, and activeIDs holds the
\* ids that are there and no other, so that a redelivery is dropped while its
\* command waits and a later copy is not; "" may come and go with the typing
\* commands, of which every delivery is queued (send_scheduler.go:209).
ActiveOnce ==
    phase = "running" =>
        /\ activeIds \ {NoId} = {Id[Message(j)] : j \in Queued} \ {NoId}
        /\ \A i, j \in Queued :
             Id[Message(i)] = Id[Message(j)] /\ Id[Message(i)] # NoId => i = j

\* A send that leaves its queue has been settled: failures keep the head.
HeadRetained ==
    [][\A j \in Queued :
         /\ Message(j) \notin Control
         /\ phase' = "running" /\ restarts' = restarts /\ j \notin Queued'
         => stream[Message(j)] = "done"]_vars

\* Until the first restart the commands of a contact are started in stream
\* order, through retries, slow media, redeliveries and copies.
ContactOrder ==
    \A m, n \in Msg :
        /\ restarts = 0 /\ m < n /\ To[m] = To[n]
        /\ Command(n) \in executed /\ (\A o \in Msg : Command(o) = Command(n) => n <= o)
        => Command(m) \in executed

\* Messages of contacts that have a stuck command, and whether the jobs they may
\* have in the queues leave a slot and a buffer free.
Blocked == {m \in Msg : \E n \in Stuck : Key(n) = Key(m)}
WindowLeft ==
    /\ Cardinality({j \in Job : Message(j) \in Blocked /\ (Id[Message(j)] # NoId => j[2] = 1)})
          < QueueLimit
    /\ Cardinality(Stuck \cap Media) < MediaLimit

\* The commands behind a stuck head keep their slots, and a stuck media head its
\* buffer (docs/operations/message-delivery.md: "Fairness is bounded by the
\* eight-command admission window"). As long as the contacts of stuck commands
\* leave a slot and a buffer free, every published send of any other contact is
\* eventually settled, whatever the restarts do.
EventuallySettled ==
    WindowLeft => \A m \in Msg \ (Control \cup Blocked) :
        stream[m] = "ready" ~> \E n \in Msg : Id[n] = Id[m] /\ stream[n] = "done"
=============================================================================
