--------------------------- MODULE WorkerSendProofs ---------------------------
(***************************************************************************)
(* Proofs about WorkerSend, for any set of commands and of overlapping     *)
(* worker processes and for every bound: the type invariant, at-most-once  *)
(* execution and the honesty of a confirmation; and, as long as no two     *)
(* processes work on one command, the refinement of SendContract.          *)
(***************************************************************************)
EXTENDS WorkerSend, TLAPS

\* The type invariant holds in every reachable state.
THEOREM TypeCorrect == Spec => []TypeOK
<1>1. Init => TypeOK
  BY SendAssumption DEF Init, TypeOK, Outcome, PC
<1>2. TypeOK /\ [Next]_vars => TypeOK'
  <2> SUFFICES ASSUME TypeOK, [Next]_vars PROVE TypeOK'
    OBVIOUS
  <2> USE SendAssumption DEF TypeOK, Outcome, PC, brokerVars, ledgerVars, workerVars, Fault, NoFault, Goto
  <2>1. CASE UNCHANGED vars
    BY <2>1 DEF vars
  <2>2. ASSUME NEW c \in Command, Publish(c) PROVE TypeOK'
    BY <2>2 DEF Publish
  <2>3. ASSUME NEW c \in Command, AckTimeout(c) PROVE TypeOK'
    BY <2>3 DEF AckTimeout
  <2>4. ASSUME NEW w \in Worker, NEW c \in Command, Deliver(w, c) PROVE TypeOK'
    BY <2>4 DEF Deliver
  <2>5. ASSUME NEW w \in Worker, HandleSend(w) PROVE TypeOK'
    <3>1. CASE LookupFound(w)
      BY <3>1 DEF LookupFound
    <3>2. CASE LookupNone(w)
      BY <3>2 DEF LookupNone
    <3>3. CASE Prepared(w)
      BY <3>3 DEF Prepared
    <3>4. CASE PrepareFails(w)
      BY <3>4 DEF PrepareFails, AttemptFails
    <3>5. CASE BeginSend(w)
      BY <3>5 DEF BeginSend, InsertIntent, Defer
    <3>6. CASE BeginSendErrs(w)
      BY <3>6 DEF BeginSendErrs, InsertIntent, AttemptFails
    <3>7. CASE Transmit(w)
      BY <3>7 DEF Transmit
    <3>8. ASSUME NEW o \in Outcome, TransportReturns(w, o) PROVE TypeOK'
      BY <3>8 DEF TransportReturns
    <3>9. CASE SaveResult(w)
      BY <3>9 DEF SaveResult, Saved
    <3>10. CASE SaveErrs(w)
      BY <3>10 DEF SaveErrs, Saved, Defer
    <3>11. CASE PublishResult(w)
      <4>1. Kind(result[w]) \in {"confirmed", "failed", "uncertain"}
        BY DEF Kind
      <4> QED BY <3>11, <4>1 DEF PublishResult
    <3>12. CASE MarkReported(w)
      BY <3>12 DEF MarkReported
    <3>13. CASE ReportErrs(w)
      BY <3>13 DEF ReportErrs, Defer
    <3>14. CASE AckSend(w)
      BY <3>14 DEF AckSend
    <3>15. CASE AckErrs(w)
      BY <3>15 DEF AckErrs, Defer
    <3> QED
      BY <2>5, <3>1, <3>2, <3>3, <3>4, <3>5, <3>6, <3>7, <3>8, <3>9, <3>10, <3>11, <3>12,
         <3>13, <3>14, <3>15 DEF HandleSend
  <2>6. ASSUME NEW w \in Worker, Crash(w) PROVE TypeOK'
    BY <2>6 DEF Crash
  <2> QED
    BY <2>1, <2>2, <2>3, <2>4, <2>5, <2>6 DEF Next
<1> QED
  BY <1>1, <1>2, PTL DEF Spec
-----------------------------------------------------------------------------
(***************************************************************************)
(* At most once.  The row of the ledger is the fence: it never disappears,  *)
(* only the worker that created it goes on to the transport, and nothing   *)
(* has been sent while it is missing.                                      *)
(***************************************************************************)
FenceInv ==
    /\ \A c \in Command : ledger[c] = "none" => copies[c] = 0
    /\ \A w \in Worker : pc[w] = "transport" => ledger[cmd[w]] # "none" /\ copies[cmd[w]] = 0
    /\ \A v, w \in Worker : pc[v] = "transport" /\ pc[w] = "transport" /\ cmd[v] = cmd[w] => v = w
    /\ AtMostOnce

LEMMA FenceStep == TypeOK /\ FenceInv /\ [Next]_vars => FenceInv'
<1> SUFFICES ASSUME TypeOK, FenceInv, [Next]_vars PROVE FenceInv'
  OBVIOUS
<1> USE DEF TypeOK, FenceInv, AtMostOnce, Outcome, PC, brokerVars, ledgerVars, workerVars, Goto
<1>1. CASE UNCHANGED vars
  BY <1>1 DEF vars
<1>2. ASSUME NEW c \in Command, Publish(c) PROVE FenceInv'
  BY <1>2 DEF Publish
<1>3. ASSUME NEW c \in Command, AckTimeout(c) PROVE FenceInv'
  BY <1>3 DEF AckTimeout
<1>4. ASSUME NEW w \in Worker, NEW c \in Command, Deliver(w, c) PROVE FenceInv'
  BY <1>4 DEF Deliver
<1>5. ASSUME NEW w \in Worker, HandleSend(w) PROVE FenceInv'
  <2>1. CASE LookupFound(w)
    BY <1>5, <2>1 DEF LookupFound
  <2>2. CASE LookupNone(w)
    BY <1>5, <2>2 DEF LookupNone
  <2>3. CASE Prepared(w)
    BY <1>5, <2>3 DEF Prepared
  <2>4. CASE PrepareFails(w)
    BY <1>5, <2>4 DEF PrepareFails, AttemptFails
  <2>5. CASE BeginSend(w)
    BY <1>5, <2>5 DEF BeginSend, InsertIntent, Defer
  <2>6. CASE BeginSendErrs(w)
    BY <1>5, <2>6 DEF BeginSendErrs, InsertIntent, AttemptFails
  <2>7. CASE Transmit(w)
    BY <1>5, <2>7 DEF Transmit
  <2>8. ASSUME NEW o \in Outcome, TransportReturns(w, o) PROVE FenceInv'
    BY <2>8 DEF TransportReturns
  <2>9. CASE SaveResult(w)
    BY <1>5, <2>9 DEF SaveResult, Saved
  <2>10. CASE SaveErrs(w)
    BY <1>5, <2>10 DEF SaveErrs, Saved, Defer
  <2>11. CASE PublishResult(w)
    BY <1>5, <2>11 DEF PublishResult, Kind
  <2>12. CASE MarkReported(w)
    BY <1>5, <2>12 DEF MarkReported
  <2>13. CASE ReportErrs(w)
    BY <1>5, <2>13 DEF ReportErrs, Defer
  <2>14. CASE AckSend(w)
    BY <1>5, <2>14 DEF AckSend
  <2>15. CASE AckErrs(w)
    BY <1>5, <2>15 DEF AckErrs, Defer
  <2> QED
    BY <1>5, <2>1, <2>2, <2>3, <2>4, <2>5, <2>6, <2>7, <2>8,
       <2>9, <2>10, <2>11, <2>12, <2>13, <2>14, <2>15 DEF HandleSend
<1>6. ASSUME NEW w \in Worker, Crash(w) PROVE FenceInv'
  BY <1>6 DEF Crash
<1> QED
  BY <1>1, <1>2, <1>3, <1>4, <1>5, <1>6 DEF Next

\* Whatever crashes, redeliveries, second copies and failing calls happen, and
\* however many processes overlap, a command is handed to WhatsApp at most once:
\* handleSendCommand with the write-ahead intent of BeginSendCommand.
THEOREM SendsAtMostOnce == Spec => []AtMostOnce
<1>1. Init => FenceInv
  BY DEF Init, FenceInv, AtMostOnce
<1>2. FenceInv => AtMostOnce
  BY DEF FenceInv
<1> QED
  BY <1>1, <1>2, TypeCorrect, FenceStep, PTL DEF Spec

-----------------------------------------------------------------------------
(***************************************************************************)
(* Confirmations.  "sent" enters the ledger only from a worker whose call  *)
(* of WhatsApp returned.                                                   *)
(***************************************************************************)
SentInv ==
    /\ \A c \in Command : ledger[c] = "sent" => copies[c] # 0
    /\ \A w \in Worker : pc[w] = "response" => copies[cmd[w]] # 0
    /\ \A w \in Worker : pc[w] \in {"save", "report"} /\ result[w] = "sent" => copies[cmd[w]] # 0
    /\ \A c \in Command : <<c, "confirmed">> \in answers => copies[c] # 0

LEMMA SentStep == TypeOK /\ SentInv /\ [Next]_vars => SentInv'
<1> SUFFICES ASSUME TypeOK, SentInv, [Next]_vars PROVE SentInv'
  OBVIOUS
<1> USE DEF TypeOK, SentInv, Outcome, PC, brokerVars, ledgerVars, workerVars, Goto
<1>1. CASE UNCHANGED vars
  BY <1>1 DEF vars
<1>2. ASSUME NEW c \in Command, Publish(c) PROVE SentInv'
  BY <1>2 DEF Publish
<1>3. ASSUME NEW c \in Command, AckTimeout(c) PROVE SentInv'
  BY <1>3 DEF AckTimeout
<1>4. ASSUME NEW w \in Worker, NEW c \in Command, Deliver(w, c) PROVE SentInv'
  BY <1>4 DEF Deliver
<1>5. ASSUME NEW w \in Worker, HandleSend(w) PROVE SentInv'
  <2>1. CASE LookupFound(w)
    BY <1>5, <2>1 DEF LookupFound
  <2>2. CASE LookupNone(w)
    BY <1>5, <2>2 DEF LookupNone
  <2>3. CASE Prepared(w)
    BY <1>5, <2>3 DEF Prepared
  <2>4. CASE PrepareFails(w)
    BY <1>5, <2>4 DEF PrepareFails, AttemptFails
  <2>5. CASE BeginSend(w)
    BY <1>5, <2>5 DEF BeginSend, InsertIntent, Defer
  <2>6. CASE BeginSendErrs(w)
    BY <1>5, <2>6 DEF BeginSendErrs, InsertIntent, AttemptFails
  <2>7. CASE Transmit(w)
    BY <1>5, <2>7 DEF Transmit
  <2>8. ASSUME NEW o \in Outcome, TransportReturns(w, o) PROVE SentInv'
    BY <2>8 DEF TransportReturns
  <2>9. CASE SaveResult(w)
    BY <1>5, <2>9 DEF SaveResult, Saved
  <2>10. CASE SaveErrs(w)
    BY <1>5, <2>10 DEF SaveErrs, Saved, Defer
  <2>11. CASE PublishResult(w)
    BY <1>5, <2>11 DEF PublishResult, Kind
  <2>12. CASE MarkReported(w)
    BY <1>5, <2>12 DEF MarkReported
  <2>13. CASE ReportErrs(w)
    BY <1>5, <2>13 DEF ReportErrs, Defer
  <2>14. CASE AckSend(w)
    BY <1>5, <2>14 DEF AckSend
  <2>15. CASE AckErrs(w)
    BY <1>5, <2>15 DEF AckErrs, Defer
  <2> QED
    BY <1>5, <2>1, <2>2, <2>3, <2>4, <2>5, <2>6, <2>7, <2>8,
       <2>9, <2>10, <2>11, <2>12, <2>13, <2>14, <2>15 DEF HandleSend
<1>6. ASSUME NEW w \in Worker, Crash(w) PROVE SentInv'
  BY <1>6 DEF Crash
<1> QED
  BY <1>1, <1>2, <1>3, <1>4, <1>5, <1>6 DEF Next

\* A worker confirms only what it handed to WhatsApp, exactly once
\* (publishStoredCommandResult).
THEOREM ConfirmationsAreHonest == Spec => []ConfirmedWasSent
<1>1. Init => SentInv
  BY DEF Init, SentInv
<1>2. TypeOK /\ SentInv /\ AtMostOnce => ConfirmedWasSent
  BY DEF SentInv, ConfirmedWasSent, AtMostOnce, TypeOK
<1> QED
  BY <1>1, <1>2, TypeCorrect, SendsAtMostOnce, SentStep, PTL DEF Spec

-----------------------------------------------------------------------------
(***************************************************************************)
(* Outcomes.  What is reported, or about to be, has a row in the ledger.   *)
(***************************************************************************)
RowInv ==
    /\ \A c \in reported : ledger[c] # "none"
    /\ \A w \in Worker : pc[w] \in {"transport", "response", "report", "mark"} => ledger[cmd[w]] # "none"

StableStep ==
    \A c \in Command :
        ledger[c] \notin {"none", "in_flight"} \/ c \in reported => ledger'[c] = ledger[c]

LEMMA RowStep == TypeOK /\ RowInv /\ [Next]_vars => RowInv' /\ StableStep
<1> SUFFICES ASSUME TypeOK, RowInv, [Next]_vars PROVE RowInv' /\ StableStep
  OBVIOUS
<1> USE DEF TypeOK, RowInv, StableStep, Outcome, PC, brokerVars, ledgerVars, workerVars, Goto
<1>1. CASE UNCHANGED vars
  BY <1>1 DEF vars
<1>2. ASSUME NEW c \in Command, Publish(c) PROVE RowInv' /\ StableStep
  BY <1>2 DEF Publish
<1>3. ASSUME NEW c \in Command, AckTimeout(c) PROVE RowInv' /\ StableStep
  BY <1>3 DEF AckTimeout
<1>4. ASSUME NEW w \in Worker, NEW c \in Command, Deliver(w, c) PROVE RowInv' /\ StableStep
  BY <1>4 DEF Deliver
<1>5. ASSUME NEW w \in Worker, HandleSend(w) PROVE RowInv' /\ StableStep
  <2>1. CASE LookupFound(w)
    BY <1>5, <2>1 DEF LookupFound
  <2>2. CASE LookupNone(w)
    BY <1>5, <2>2 DEF LookupNone
  <2>3. CASE Prepared(w)
    BY <1>5, <2>3 DEF Prepared
  <2>4. CASE PrepareFails(w)
    BY <1>5, <2>4 DEF PrepareFails, AttemptFails
  <2>5. CASE BeginSend(w)
    BY <1>5, <2>5 DEF BeginSend, InsertIntent, Defer
  <2>6. CASE BeginSendErrs(w)
    BY <1>5, <2>6 DEF BeginSendErrs, InsertIntent, AttemptFails
  <2>7. CASE Transmit(w)
    BY <1>5, <2>7 DEF Transmit
  <2>8. ASSUME NEW o \in Outcome, TransportReturns(w, o) PROVE RowInv' /\ StableStep
    BY <2>8 DEF TransportReturns
  <2>9. CASE SaveResult(w)
    BY <1>5, <2>9 DEF SaveResult, Saved
  <2>10. CASE SaveErrs(w)
    BY <1>5, <2>10 DEF SaveErrs, Saved, Defer
  <2>11. CASE PublishResult(w)
    BY <1>5, <2>11 DEF PublishResult, Kind
  <2>12. CASE MarkReported(w)
    BY <1>5, <2>12 DEF MarkReported
  <2>13. CASE ReportErrs(w)
    BY <1>5, <2>13 DEF ReportErrs, Defer
  <2>14. CASE AckSend(w)
    BY <1>5, <2>14 DEF AckSend
  <2>15. CASE AckErrs(w)
    BY <1>5, <2>15 DEF AckErrs, Defer
  <2> QED
    BY <1>5, <2>1, <2>2, <2>3, <2>4, <2>5, <2>6, <2>7, <2>8,
       <2>9, <2>10, <2>11, <2>12, <2>13, <2>14, <2>15 DEF HandleSend
<1>6. ASSUME NEW w \in Worker, Crash(w) PROVE RowInv' /\ StableStep
  BY <1>6 DEF Crash
<1> QED
  BY <1>1, <1>2, <1>3, <1>4, <1>5, <1>6 DEF Next

\* A recorded outcome is never replaced, and an intent already reported as
\* uncertain stays uncertain (the WHERE of SaveProcessedCommand).
THEOREM OutcomesAreStable == Spec => OutcomeIsStable
<1>1. Init => RowInv
  BY DEF Init, RowInv
<1>2. TypeOK /\ RowInv /\ [Next]_vars => RowInv' /\ [StableStep]_vars
  BY RowStep
<1> QED
  BY <1>1, <1>2, TypeCorrect, PTL DEF Spec, OutcomeIsStable, StableStep

-----------------------------------------------------------------------------
(***************************************************************************)
(* Acknowledgements.  A process past its report has an answer out there.   *)
(***************************************************************************)
AckInv ==
    /\ AckedIsAnswered
    /\ \A w \in Worker : pc[w] \in {"mark", "ack"} => Answered(cmd[w])

LEMMA AckStep == TypeOK /\ AckInv /\ [Next]_vars => AckInv'
<1> SUFFICES ASSUME TypeOK, AckInv, [Next]_vars PROVE AckInv'
  OBVIOUS
<1>1. \A c \in Command : Answered(c) => Answered(c)'
  <2>1. answers \subseteq answers'
    BY DEF Next, vars, Publish, AckTimeout, Deliver, HandleSend, LookupFound, LookupNone,
         Prepared, PrepareFails, BeginSend, BeginSendErrs, Transmit, TransportReturns,
         SaveResult, SaveErrs, PublishResult, MarkReported, ReportErrs, AckSend, AckErrs, Crash
  <2> QED BY <2>1 DEF Answered
<1>2. ASSUME NEW c \in Command, stream'[c] = "done" PROVE stream[c] = "done" \/ Answered(c)
  <2>1. ASSUME NEW x \in Command, Publish(x) \/ AckTimeout(x) PROVE stream[c] = "done"
    BY <1>2, <2>1 DEF Publish, AckTimeout, TypeOK
  <2>2. ASSUME NEW w \in Worker, NEW x \in Command, Deliver(w, x) PROVE stream[c] = "done"
    BY <1>2, <2>2 DEF Deliver, TypeOK
  <2>3. ASSUME NEW w \in Worker, AckSend(w) PROVE stream[c] = "done" \/ Answered(c)
    BY <1>2, <2>3 DEF AckSend, AckInv, TypeOK
  <2>4. CASE UNCHANGED stream
    BY <1>2, <2>4
  <2> QED BY <2>1, <2>2, <2>3, <2>4
             DEF Next, vars, brokerVars, HandleSend, LookupFound, LookupNone, Prepared,
                 PrepareFails, BeginSend, BeginSendErrs, Transmit, TransportReturns,
                 SaveResult, SaveErrs, PublishResult, MarkReported, ReportErrs, AckErrs, Crash
<1>3. ASSUME NEW w \in Worker, pc'[w] \in {"mark", "ack"} PROVE Answered(cmd[w])'
  <2>0. pc \in [Worker -> PC]
    BY DEF TypeOK
  <2>1. ASSUME pc'[w] = pc[w], cmd'[w] = cmd[w] PROVE Answered(cmd[w])'
    BY <1>1, <1>3, <2>1 DEF AckInv, TypeOK
  <2>2. ASSUME NEW v \in Worker, HandleSend(v) PROVE Answered(cmd[w])'
    <3>1. CASE v # w
      BY <2>0, <2>1, <2>2, <3>1
         DEF HandleSend, LookupFound, LookupNone, Prepared, PrepareFails, AttemptFails,
             BeginSend, BeginSendErrs, Transmit, TransportReturns, SaveResult, SaveErrs,
             PublishResult, MarkReported, ReportErrs, AckSend, AckErrs, Defer, Goto, TypeOK
    <3>2. CASE v = w
      <4>1. PublishResult(w) \/ MarkReported(w)
        BY <1>3, <2>0, <2>2, <3>2
           DEF HandleSend, LookupFound, LookupNone, Prepared, PrepareFails, AttemptFails,
               BeginSend, BeginSendErrs, Transmit, TransportReturns, SaveResult, SaveErrs,
               ReportErrs, AckSend, AckErrs, Defer, Goto
      <4>2. CASE PublishResult(w)
        <5>1. Kind(result[w]) \in {"confirmed", "failed", "uncertain"}
          BY DEF Kind, TypeOK, Outcome
        <5> QED BY <4>2, <5>1 DEF PublishResult, Answered
      <4>3. CASE MarkReported(w)
        BY <1>1, <4>3 DEF MarkReported, AckInv, TypeOK
      <4> QED BY <4>1, <4>2, <4>3
    <3> QED BY <3>1, <3>2
  <2>3. ASSUME NEW v \in Worker, Crash(v) \/ \E c \in Command : Deliver(v, c)
        PROVE  Answered(cmd[w])'
    <3>1. v # w
      BY <1>3, <2>0, <2>3 DEF Crash, Deliver, Goto
    <3> QED BY <2>0, <2>1, <2>3, <3>1 DEF Crash, Deliver, Goto, TypeOK
  <2> QED BY <2>1, <2>2, <2>3 DEF Next, vars, workerVars, Publish, AckTimeout
<1> QED BY <1>1, <1>2, <1>3 DEF AckInv, AckedIsAnswered

\* An acknowledged command has been answered: no crash, failed call or second
\* copy makes the worker drop a command in silence (handleSendCommand).
THEOREM NoSilentAcknowledgement == Spec => []AckedIsAnswered
<1>1. Init => AckInv
  BY DEF Init, AckInv, AckedIsAnswered
<1>2. AckInv => AckedIsAnswered
  BY DEF AckInv
<1> QED BY <1>1, <1>2, TypeCorrect, AckStep, PTL DEF Spec

-----------------------------------------------------------------------------
(***************************************************************************)
(* Exclusive work.  Processes of one connection may overlap and follow one *)
(* another; as long as no two of them work on the same command at the same *)
(* time, "failed" is recorded and reported only of a command that was      *)
(* never handed over and never will be.  A session with one live client    *)
(* (NodeLease) is such a system, whoever its clients are over time.        *)
(***************************************************************************)
Exclusive ==
    \A v, w \in Worker : v # w /\ pc[v] # "idle" /\ pc[w] # "idle" => cmd[v] # cmd[w]

OwnerInv ==
    /\ \A w \in Worker :
         pc[w] \in {"prepare", "begin"} \/ (pc[w] = "save" /\ result[w] = "failed") =>
             ledger[cmd[w]] \in {"none", "in_flight"} /\ cmd[w] \notin reported /\ copies[cmd[w]] = 0
    /\ \A w \in Worker : pc[w] \in {"transport", "response"} => ledger[cmd[w]] = "in_flight"
    /\ \A w \in Worker : pc[w] = "report" /\ result[w] = "failed" => ledger[cmd[w]] = "failed"
    /\ \A c \in Command : ledger[c] = "failed" => copies[c] = 0
    /\ \A c \in Command : <<c, "failed">> \in answers => ledger[c] = "failed"

LEMMA OwnerStep ==
  ASSUME Exclusive, TypeOK, FenceInv, RowInv, OwnerInv, [Next]_vars PROVE OwnerInv'
<1> USE DEF Exclusive, TypeOK, FenceInv, RowInv, OwnerInv, Outcome, PC, brokerVars, ledgerVars, workerVars, Goto
<1>1. CASE UNCHANGED vars
  BY <1>1 DEF vars
<1>2. ASSUME NEW c \in Command, Publish(c) PROVE OwnerInv'
  BY <1>2 DEF Publish
<1>3. ASSUME NEW c \in Command, AckTimeout(c) PROVE OwnerInv'
  BY <1>3 DEF AckTimeout
<1>4. ASSUME NEW w \in Worker, NEW c \in Command, Deliver(w, c) PROVE OwnerInv'
  BY <1>4 DEF Deliver
<1>5. ASSUME NEW w \in Worker, HandleSend(w) PROVE OwnerInv'
  <2>1. CASE LookupFound(w)
    BY <1>5, <2>1 DEF LookupFound
  <2>2. CASE LookupNone(w)
    BY <1>5, <2>2 DEF LookupNone
  <2>3. CASE Prepared(w)
    BY <1>5, <2>3 DEF Prepared
  <2>4. CASE PrepareFails(w)
    BY <1>5, <2>4 DEF PrepareFails, AttemptFails
  <2>5. CASE BeginSend(w)
    BY <1>5, <2>5 DEF BeginSend, InsertIntent, Defer
  <2>6. CASE BeginSendErrs(w)
    BY <1>5, <2>6 DEF BeginSendErrs, InsertIntent, AttemptFails
  <2>7. CASE Transmit(w)
    BY <1>5, <2>7 DEF Transmit
  <2>8. ASSUME NEW o \in Outcome, TransportReturns(w, o) PROVE OwnerInv'
    BY <2>8 DEF TransportReturns
  <2>9. CASE SaveResult(w)
    BY <1>5, <2>9 DEF SaveResult, Saved
  <2>10. CASE SaveErrs(w)
    BY <1>5, <2>10 DEF SaveErrs, Saved, Defer
  <2>11. CASE PublishResult(w)
    BY <1>5, <2>11 DEF PublishResult, Kind
  <2>12. CASE MarkReported(w)
    BY <1>5, <2>12 DEF MarkReported
  <2>13. CASE ReportErrs(w)
    BY <1>5, <2>13 DEF ReportErrs, Defer
  <2>14. CASE AckSend(w)
    BY <1>5, <2>14 DEF AckSend
  <2>15. CASE AckErrs(w)
    BY <1>5, <2>15 DEF AckErrs, Defer
  <2> QED
    BY <1>5, <2>1, <2>2, <2>3, <2>4, <2>5, <2>6, <2>7, <2>8,
       <2>9, <2>10, <2>11, <2>12, <2>13, <2>14, <2>15 DEF HandleSend
<1>6. ASSUME NEW w \in Worker, Crash(w) PROVE OwnerInv'
  BY <1>6 DEF Crash
<1> QED
  BY <1>1, <1>2, <1>3, <1>4, <1>5, <1>6 DEF Next

\* Every step is a step of the contract or leaves what it speaks of alone.
LEMMA ContractStep ==
  ASSUME TypeOK, FenceInv, SentInv, OwnerInv, [Next]_vars
  PROVE  [Contract!Next]_(Contract!vars)
<1> DEFINE Silent == copies' = copies /\ answers' = answers
<1>0. Silent => [Contract!Next]_(Contract!vars)
  BY DEF Contract!vars
<1> USE DEF TypeOK, Outcome, PC
<1>1. ASSUME NEW w \in Worker, Transmit(w) PROVE Contract!Next
  <2>1. cmd[w] \in Command /\ copies[cmd[w]] = 0 /\ <<cmd[w], "failed">> \notin answers
    BY <1>1 DEF Transmit, FenceInv, OwnerInv
  <2>2. Contract!Send(cmd[w])
    BY <1>1, <2>1 DEF Transmit, Contract!Send
  <2> QED BY <2>1, <2>2 DEF Contract!Next
<1>2. ASSUME NEW w \in Worker, PublishResult(w) PROVE Contract!Next
  <2>1. cmd[w] \in Command /\ Kind(result[w]) \in {"confirmed", "failed", "uncertain"}
    BY <1>2 DEF PublishResult, Kind
  <2>2. Kind(result[w]) = "confirmed" => copies[cmd[w]] = 1
    BY <1>2, <2>1 DEF PublishResult, Kind, SentInv, FenceInv, AtMostOnce
  <2>3. Kind(result[w]) = "failed" => copies[cmd[w]] = 0
    BY <1>2, <2>1 DEF PublishResult, Kind, OwnerInv
  <2>4. Contract!Answer(cmd[w], Kind(result[w]))
    BY <1>2, <2>2, <2>3 DEF PublishResult, Contract!Answer
  <2> QED BY <2>1, <2>4 DEF Contract!Next
<1>3. ASSUME NEW w \in Worker, HandleSend(w), ~Transmit(w), ~PublishResult(w) PROVE Silent
  BY <1>3 DEF HandleSend, LookupFound, LookupNone, Prepared, PrepareFails, BeginSend, BeginSendErrs,
       TransportReturns, SaveResult, SaveErrs, MarkReported, ReportErrs, AckSend, AckErrs
<1>4. ASSUME NEW c \in Command, Publish(c) \/ AckTimeout(c) PROVE Silent
  BY <1>4 DEF Publish, AckTimeout
<1>5. ASSUME NEW w \in Worker, Crash(w) \/ \E c \in Command : Deliver(w, c) PROVE Silent
  BY <1>5 DEF Crash, Deliver
<1>6. CASE UNCHANGED vars
  BY <1>6, <1>0 DEF vars
<1> QED
  BY <1>0, <1>1, <1>2, <1>3, <1>4, <1>5, <1>6 DEF Next

\* No command is answered with both a confirmation and a failure.
NoContradiction ==
    \A c \in Command : ~(<<c, "confirmed">> \in answers /\ <<c, "failed">> \in answers)

\* Processes that never work on a command together implement the contract: it
\* is sent at most once, confirmed only if it was sent, and what is reported as
\* failed was not sent and never will be, so that the API may offer to send it
\* again; in particular no two answers contradict each other.
THEOREM OwnerKeepsContract == Spec /\ []Exclusive => KeepsContract /\ []NoContradiction
<1>1. Init => Contract!Init /\ FenceInv /\ SentInv /\ RowInv /\ OwnerInv
  BY DEF Init, Contract!Init, FenceInv, AtMostOnce, SentInv, RowInv, OwnerInv
<1>2. Exclusive /\ TypeOK /\ RowInv /\ FenceInv /\ OwnerInv /\ [Next]_vars => OwnerInv'
  BY OwnerStep
<1>3. TypeOK /\ FenceInv /\ SentInv /\ OwnerInv /\ [Next]_vars => [Contract!Next]_(Contract!vars)
  BY ContractStep
<1>4. TypeOK /\ SentInv /\ OwnerInv => NoContradiction
  BY DEF SentInv, OwnerInv, NoContradiction
<1> QED
  BY <1>1, <1>2, <1>3, <1>4, TypeCorrect, FenceStep, SentStep, RowStep, PTL
     DEF Spec, KeepsContract, Contract!Spec
=============================================================================
