------------------------------ MODULE WorkerSend ------------------------------
(***************************************************************************)
(* How a WhatsApp worker executes a send command at most once              *)
(* (services/whatsapp/internal/nats/subscriber.go handleSendCommand, the   *)
(* processed_commands ledger of store/pgstore.go and the write-ahead       *)
(* boundary of client/client.go).                                          *)
(*                                                                         *)
(* JetStream hands a command to a worker, again when it is not acknowledged *)
(* in time and again when the outbox published a second copy.  A worker    *)
(* writes an intent before it calls WhatsApp, the outcome after it, then   *)
(* publishes the outcome and acknowledges the command.  It can die between *)
(* any two of these, and each database or broker call can fail with or     *)
(* without having taken effect.                                            *)
(*                                                                         *)
(* Worker is the set of live processes.  One process owns a session; a     *)
(* second one stands for the overlap of an old and a new owner.  Which     *)
(* command a process takes next is left open here (SendScheduler).         *)
(***************************************************************************)
EXTENDS Integers

CONSTANTS
    Command,         \* the send commands
    Media,           \* those whose media the scheduler downloads beforehand
    Reaction,        \* those that react to a message
    Worker,          \* worker processes of the connection
    MaxAttempts,     \* commandSideEffectMaxAttempts
    MaxDeliver,      \* commandMaxDeliver
    MaxFaults        \* bound on crashes, redeliveries, copies and failed calls

ASSUME SendAssumption ==
    /\ Media \subseteq Command /\ Reaction \subseteq Command
    /\ MaxAttempts \in Nat \ {0} /\ MaxDeliver \in Nat \ {0} /\ MaxFaults \in Nat

VARIABLES
    faults,
    stream,      \* each command in the work queue of the consumer
    deliveries,  \* how often the current copy has been delivered
    ledger,      \* processed_commands.result
    reported,    \* processed_commands.event_published
    copies,      \* how often the command was handed to WhatsApp
    answers,     \* outcome events handed to the event outbox: <<command, kind>>
    pc, cmd,     \* what each worker is doing, and on which command
    attempt,     \* the attempt loop of handleSendCommand
    result       \* the outcome a worker is about to save or publish

brokerVars == <<stream, deliveries>>
ledgerVars == <<ledger, reported>>
workerVars == <<pc, cmd, attempt, result>>
vars == <<faults, brokerVars, ledgerVars, copies, answers, workerVars>>

Outcome == {"in_flight", "unknown", "failed", "sent"}
PC == {"idle", "lookup", "prepare", "begin", "transport", "response", "save",
       "report", "mark", "ack"}
NoCommand == "none"
ASSUME NoCommandAssumption == NoCommand \notin Command

\* The type invariant.  A worker that is doing something has a command, and its
\* attempt counter stays within the budget.
TypeOK ==
    /\ faults \in Nat
    /\ stream \in [Command -> {"absent", "ready", "held", "done"}]
    /\ deliveries \in [Command -> 0 .. MaxDeliver]
    /\ ledger \in [Command -> Outcome \cup {"none"}]
    /\ reported \in SUBSET Command
    /\ copies \in [Command -> Nat]
    /\ answers \subseteq Command \X {"confirmed", "failed", "uncertain"}
    /\ pc \in [Worker -> PC]
    /\ cmd \in [Worker -> Command \cup {NoCommand}]
    /\ \A w \in Worker : pc[w] # "idle" => cmd[w] \in Command
    /\ attempt \in [Worker -> 1 .. MaxAttempts]
    /\ result \in [Worker -> Outcome]

Init ==
    /\ faults = 0
    /\ stream = [c \in Command |-> "absent"]
    /\ deliveries = [c \in Command |-> 0]
    /\ ledger = [c \in Command |-> "none"]
    /\ reported = {}
    /\ copies = [c \in Command |-> 0]
    /\ answers = {}
    /\ pc = [w \in Worker |-> "idle"]
    /\ cmd = [w \in Worker |-> NoCommand]
    /\ attempt = [w \in Worker |-> 1]
    /\ result = [w \in Worker |-> "unknown"]

Fault == faults < MaxFaults /\ faults' = faults + 1
NoFault == faults' = faults

-----------------------------------------------------------------------------
(***************************************************************************)
(* The command stream and its consumer (external).                         *)
(***************************************************************************)
\* The outbox publishes the command; a second copy, outside the broker's
\* duplicate window, is a fault.
Publish(c) ==
    /\ stream[c] \in {"absent", "done"}
    /\ IF stream[c] = "absent" THEN NoFault ELSE Fault
    /\ stream' = [stream EXCEPT ![c] = "ready"]
    /\ deliveries' = [deliveries EXCEPT ![c] = 0]
    /\ UNCHANGED <<ledgerVars, copies, answers, workerVars>>

Deliver(w, c) ==
    /\ pc[w] = "idle"
    /\ stream[c] = "ready" /\ deliveries[c] < MaxDeliver
    /\ stream' = [stream EXCEPT ![c] = "held"]
    /\ deliveries' = [deliveries EXCEPT ![c] = @ + 1]
    /\ pc' = [pc EXCEPT ![w] = "lookup"]
    /\ cmd' = [cmd EXCEPT ![w] = c]
    /\ UNCHANGED <<faults, ledgerVars, copies, answers, attempt, result>>

\* AckWait runs out: nobody is working on the command, or its heartbeats were lost.
AckTimeout(c) ==
    /\ stream[c] = "held"
    /\ IF \E w \in Worker : cmd[w] = c THEN Fault ELSE NoFault
    /\ stream' = [stream EXCEPT ![c] = "ready"]
    /\ UNCHANGED <<deliveries, ledgerVars, copies, answers, workerVars>>

-----------------------------------------------------------------------------
(***************************************************************************)
(* handleSendCommand.  deferSend keeps the command and runs the handler    *)
(* again a second later, from the ledger lookup on.                        *)
(***************************************************************************)
Goto(w, l) == pc' = [pc EXCEPT ![w] = l]

Defer(w) == Goto(w, "lookup") /\ UNCHANGED <<cmd, attempt, result>>

\* Mutant: a command that is already in the ledger is acknowledged at once.
LookupFoundAcks(w) ==
    /\ pc[w] = "lookup" /\ ledger[cmd[w]] # "none"
    /\ Goto(w, "ack")
    /\ UNCHANGED <<faults, brokerVars, ledgerVars, copies, answers, cmd, attempt, result>>

LookupFound(w) ==
    /\ pc[w] = "lookup" /\ ledger[cmd[w]] # "none"
    /\ result' = [result EXCEPT ![w] = ledger[cmd[w]]]
    /\ Goto(w, "report")
    /\ UNCHANGED <<faults, brokerVars, ledgerVars, copies, answers, cmd, attempt>>

LookupNone(w) ==
    /\ pc[w] = "lookup" /\ ledger[cmd[w]] = "none"
    /\ attempt' = [attempt EXCEPT ![w] = 1]
    /\ Goto(w, "prepare")
    /\ UNCHANGED <<faults, brokerVars, ledgerVars, copies, answers, cmd, result>>

\* Building the message succeeds: the transport boundary is reached.
Prepared(w) ==
    /\ pc[w] = "prepare"
    /\ Goto(w, "begin")
    /\ UNCHANGED <<faults, brokerVars, ledgerVars, copies, answers, cmd, attempt, result>>

\* An error before the transport: try again, or give up and record a failure.
AttemptFails(w) ==
    IF cmd[w] \in Media \/ attempt[w] = MaxAttempts
      THEN /\ result' = [result EXCEPT ![w] = "failed"]
           /\ Goto(w, "save")
           /\ UNCHANGED <<cmd, attempt>>
      ELSE /\ attempt' = [attempt EXCEPT ![w] = @ + 1]
           /\ Goto(w, "prepare")
           /\ UNCHANGED <<cmd, result>>

PrepareFails(w) ==
    /\ pc[w] = "prepare"
    /\ AttemptFails(w)
    /\ UNCHANGED <<faults, brokerVars, ledgerVars, copies, answers>>

\* BeginSendCommand: INSERT ... ON CONFLICT DO NOTHING.
InsertIntent(c) ==
    ledger' = [ledger EXCEPT ![c] = IF @ = "none" THEN "in_flight" ELSE @]

\* Mutant: BeginSendCommand's claimed result is not looked at.
BeginSendUnclaimed(w) ==
    /\ pc[w] = "begin"
    /\ InsertIntent(cmd[w])
    /\ Goto(w, "transport")
    /\ UNCHANGED <<faults, brokerVars, reported, copies, answers, cmd, attempt, result>>

BeginSend(w) ==
    /\ pc[w] = "begin"
    /\ InsertIntent(cmd[w])
    /\ IF ledger[cmd[w]] = "none" THEN Goto(w, "transport") /\ UNCHANGED <<cmd, attempt, result>>
                                  ELSE Defer(w)
    /\ UNCHANGED <<faults, brokerVars, reported, copies, answers>>

\* The INSERT returns an error, whether or not it has taken effect.
BeginSendErrs(w) ==
    /\ pc[w] = "begin"
    /\ Fault
    /\ InsertIntent(cmd[w]) \/ ledger' = ledger
    /\ AttemptFails(w)
    /\ UNCHANGED <<brokerVars, reported, copies, answers>>

\* whatsmeow's SendMessage: the message leaves, and then an answer comes or not.
Transmit(w) ==
    /\ pc[w] = "transport"
    /\ copies' = [copies EXCEPT ![cmd[w]] = @ + 1]
    /\ Goto(w, "response")
    /\ UNCHANGED <<faults, brokerVars, ledgerVars, answers, cmd, attempt, result>>

TransportReturns(w, outcome) ==
    /\ \/ pc[w] = "response" /\ outcome \in {"sent", "unknown"}
       \/ pc[w] = "transport" /\ outcome = "unknown"
    /\ result' = [result EXCEPT ![w] = outcome]
    /\ Goto(w, "save")
    /\ UNCHANGED <<faults, brokerVars, ledgerVars, copies, answers, cmd, attempt>>

\* Mutant: the upsert has no WHERE.
SavedAlways(w) ==
    /\ ledger' = [ledger EXCEPT ![cmd[w]] = result[w]]
    /\ reported' = reported

\* SaveProcessedCommand: an upsert that only replaces an unreported intent.
Saved(w) ==
    LET c == cmd[w]
    IN  /\ ledger' = [ledger EXCEPT ![c] =
                        IF @ = "none" \/ (@ = "in_flight" /\ c \notin reported)
                          THEN result[w] ELSE @]
        /\ reported' = reported

SaveResult(w) ==
    /\ pc[w] = "save"
    /\ Saved(w)
    /\ Goto(w, "report")
    /\ UNCHANGED <<faults, brokerVars, copies, answers, cmd, attempt, result>>

SaveErrs(w) ==
    /\ pc[w] = "save"
    /\ Fault
    /\ Saved(w) \/ UNCHANGED ledgerVars
    /\ Defer(w)
    /\ UNCHANGED <<brokerVars, copies, answers>>

\* Mutant: only Unknown is looked at, so that a stored intent reads as sent.
KindOfIntent(outcome) ==
    CASE outcome = "unknown" -> "uncertain"
      [] outcome = "failed" -> "failed"
      [] outcome \in {"in_flight", "sent"} -> "confirmed"

\* publishStoredCommandResult: the event, then the delivered mark, which an
\* uncertain reaction returns without.
Kind(outcome) ==
    CASE outcome \in {"in_flight", "unknown"} -> "uncertain"
      [] outcome = "failed" -> "failed"
      [] outcome = "sent" -> "confirmed"

PublishResult(w) ==
    /\ pc[w] = "report"
    /\ answers' = answers \cup {<<cmd[w], Kind(result[w])>>}
    /\ Goto(w, IF cmd[w] \in Reaction /\ Kind(result[w]) = "uncertain" THEN "ack" ELSE "mark")
    /\ UNCHANGED <<faults, brokerVars, ledgerVars, copies, cmd, attempt, result>>

MarkReported(w) ==
    /\ pc[w] = "mark"
    /\ reported' = reported \cup {cmd[w]}
    /\ Goto(w, "ack")
    /\ UNCHANGED <<faults, brokerVars, ledger, copies, answers, cmd, attempt, result>>

ReportErrs(w) ==
    /\ pc[w] \in {"report", "mark"}
    /\ Fault
    /\ Defer(w)
    /\ UNCHANGED <<brokerVars, ledgerVars, copies, answers>>

AckSend(w) ==
    /\ pc[w] = "ack"
    /\ stream' = [stream EXCEPT ![cmd[w]] = "done"]
    /\ Goto(w, "idle")
    /\ cmd' = [cmd EXCEPT ![w] = NoCommand]
    /\ UNCHANGED <<faults, deliveries, ledgerVars, copies, answers, attempt, result>>

\* The acknowledgement could not be sent: the command stays unsettled.
AckErrs(w) ==
    /\ pc[w] = "ack"
    /\ Fault
    /\ Defer(w)
    /\ UNCHANGED <<brokerVars, ledgerVars, copies, answers>>

\* The process dies and another one takes its place; at "ack", also an
\* acknowledgement that never reaches the broker.
Crash(w) ==
    /\ pc[w] # "idle"
    /\ Fault
    /\ Goto(w, "idle")
    /\ cmd' = [cmd EXCEPT ![w] = NoCommand]
    /\ UNCHANGED <<brokerVars, ledgerVars, copies, answers, attempt, result>>

-----------------------------------------------------------------------------
HandleSend(w) ==
    \/ LookupFound(w) \/ LookupNone(w) \/ Prepared(w) \/ PrepareFails(w)
    \/ BeginSend(w) \/ BeginSendErrs(w)
    \/ Transmit(w) \/ (\E o \in Outcome : TransportReturns(w, o))
    \/ SaveResult(w) \/ SaveErrs(w)
    \/ PublishResult(w) \/ MarkReported(w) \/ ReportErrs(w)
    \/ AckSend(w) \/ AckErrs(w)

Next ==
    \/ \E c \in Command : Publish(c) \/ AckTimeout(c)
    \/ \E w \in Worker : (\E c \in Command : Deliver(w, c)) \/ HandleSend(w) \/ Crash(w)

\* The scheduler runs the handler again until it settles, every call in it has
\* a timeout, and JetStream redelivers what nobody acknowledges.
Fairness ==
    /\ \A w \in Worker : WF_vars(HandleSend(w)) /\ WF_vars(\E c \in Command : Deliver(w, c))
    /\ \A c \in Command : WF_vars(NoFault /\ AckTimeout(c))

Spec == Init /\ [][Next]_vars /\ Fairness

-----------------------------------------------------------------------------
(***************************************************************************)
(* Properties                                                              *)
(***************************************************************************)

\* A command is handed to WhatsApp at most once, through crashes, redeliveries,
\* second copies, failing calls and overlapping processes: the intent of
\* BeginSendCommand is written before the transport is called.
AtMostOnce == \A c \in Command : copies[c] <= 1

\* A worker never confirms a message it did not send.
ConfirmedWasSent ==
    \A c \in Command : <<c, "confirmed">> \in answers => copies[c] = 1

\* An outcome in the ledger is never replaced by another one, and an intent
\* that was reported as uncertain stays uncertain: SaveProcessedCommand's WHERE.
OutcomeIsStable ==
    [][\A c \in Command :
         ledger[c] \notin {"none", "in_flight"} \/ c \in reported => ledger'[c] = ledger[c]]_vars

\* A command leaves the stream only when an outcome has been reported for it,
\* whichever call fails and wherever the process dies: the acknowledgement is
\* the last thing handleSendCommand does.
Answered(c) == \E kind \in {"confirmed", "failed", "uncertain"} : <<c, kind>> \in answers
AckedIsAnswered == \A c \in Command : stream[c] = "done" => Answered(c)

\* Processes that never work on a command together keep the contract of
\* SendContract: what they report as failed was never sent and never will be.
Contract == INSTANCE SendContract WITH copies <- copies, answers <- answers
KeepsContract == Contract!Spec

\* Every command in the stream is answered, as long as its deliveries last.
EventuallyAnswered ==
    \A c \in Command :
        stream[c] = "ready" ~> Answered(c)
=============================================================================
