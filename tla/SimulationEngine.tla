-------------------------- MODULE SimulationEngine --------------------------
(***************************************************************************)
(* The headless replay engine, src/src/simulation-engine.js: run(), the    *)
(* interval scheduler and processTick(), over an environment that stands   *)
(* for the transport.                                                      *)
(*                                                                         *)
(* JavaScript runs to completion between awaits, so an action is the code  *)
(* from one real suspension (file load, connect, wait for recipients,      *)
(* send) to the next.  The engine's own fields are the record `eng' and    *)
(* its methods are functions of that record, so that a callback that       *)
(* finishes one line and starts the next is one step.                      *)
(***************************************************************************)
EXTENDS ReplayOptions

CONSTANTS
    Options,          \* the option sets a session may be run with
    ExternalControl,  \* TRUE: an orchestrator may call stop() and pause()
    UnwrittenSends,   \* TRUE: send() may answer {delivered: false} without a reason
    MaxFaults,        \* bound: how often the environment misbehaves
    MaxHistory        \* bound: records disposed of, for sessions that loop for ever

ASSUME EngineAssumption ==
    /\ Options \subseteq {o \in OptionType : Normalised(o)}
    /\ ExternalControl \in BOOLEAN
    /\ UnwrittenSends \in BOOLEAN
    /\ MaxFaults \in Nat
    /\ MaxHistory \in Nat

VARIABLES
    opt,           \* this.options, and the length of the input file
    eng,           \* the engine's fields
    run,           \* where run() is suspended
    ticks,         \* the processTick() calls in flight
    tickInFlight,  \* this.tickInFlight
    transport,     \* what the transport answers to isConnected() and hasRecipients()
    faults,        \* how often the environment has misbehaved
    history,       \* ghost: the records disposed of, each with its fate
    received       \* ghost: the records that reached a recipient

envVars == <<transport, faults>>
ghostVars == <<history, received>>
vars == <<opt, eng, run, ticks, tickInFlight, envVars, ghostVars>>

\* One tick is meant to be in flight; a second slot lets an overlap be seen.
Tick == {1, 2}
Idle == [at |-> "idle", sentThisTick |-> 0, line |-> 0, live |-> FALSE]

Promise == INSTANCE Replay WITH count <- eng.linesSentCount, outcome <- eng.outcome

Init ==
    /\ opt \in Options
    /\ eng = [currentLineIndex |-> 0, linesSentCount |-> 0, isSending |-> FALSE,
              interval |-> FALSE, outcome |-> "none"]
    /\ run = "idle"
    /\ ticks = [t \in Tick |-> Idle]
    /\ tickInFlight = FALSE
    /\ transport = [connected |-> FALSE, recipients |-> FALSE]
    /\ faults = 0
    /\ history = <<>>
    /\ received = <<>>

-----------------------------------------------------------------------------
(* The replay window, as initialize() computes it.                         *)

\* (Definitions named Mutant... are faults the runs must detect; see PROJECT.json.)
MutantStartIndex == opt.startLine - 2
StartIndex == opt.startLine - 1

\* A last line beyond the file is clamped to the last record.
EndIndex == IF opt.endLine = 0 \/ opt.endLine > opt.available
            THEN opt.available - 1 ELSE opt.endLine - 1

HasWindow == /\ opt.available > 0
             /\ StartIndex < opt.available
             /\ StartIndex <= EndIndex

-----------------------------------------------------------------------------
(* The engine's methods, as functions of its fields.                       *)

\* finishRun(status) and failRun() (status "failed"): the first of them to be
\* called settles the run and clears the interval; a later one does nothing.
MutantSettle(e, status) ==
    IF e.outcome # "pending" THEN e
    ELSE [e EXCEPT !.isSending = FALSE, !.outcome = status]
Settle(e, status) ==
    IF e.outcome # "pending" THEN e
    ELSE [e EXCEPT !.interval = FALSE, !.isSending = FALSE, !.outcome = status]

\* pause(): stops scheduling and leaves the run unsettled.
MutantPause(e) == [e EXCEPT !.isSending = FALSE]
Pause(e) == [e EXCEPT !.interval = FALSE, !.isSending = FALSE]

\* stop(): clears the interval whatever the state of the run.
Stop(e) == Settle(Pause(e), "stopped")

\* The cursor moves on from a line; past the window it wraps or completes.
MoveOn(e) ==
    LET next == [e EXCEPT !.currentLineIndex = @ + 1]
    IN  IF next.currentLineIndex <= EndIndex THEN next
        ELSE IF opt.loop THEN [e EXCEPT !.currentLineIndex = StartIndex]
        ELSE Settle(next, "completed")

MutantadvanceAfterSuccessfulSend(e) == MoveOn([e EXCEPT !.linesSentCount = @ + 1])
advanceAfterSuccessfulSend(e) ==
    LET counted == [e EXCEPT !.linesSentCount = @ + 1]
    IN  IF LimitReached(opt, counted.linesSentCount)
        THEN Settle([counted EXCEPT !.currentLineIndex = @ + 1], "completed")
        ELSE MoveOn(counted)

shouldCompleteBeforeSend(e) ==
    \/ LimitReached(opt, e.linesSentCount)
    \/ ~ opt.loop /\ e.currentLineIndex > EndIndex

MustAwaitRecipients == opt.waitForClient /\ opt.mode = "server" /\ ~ transport'.recipients

MayReconnect == opt.connectWaitForServer /\ opt.mode = "client"

-----------------------------------------------------------------------------
(* processTick()                                                           *)

\* Tick t leaves its loop.
MutantEndTick(t, e) ==
    /\ eng' = e
    /\ ticks' = [ticks EXCEPT ![t] = Idle]
    /\ UNCHANGED tickInFlight
EndTick(t, e) ==
    /\ eng' = e
    /\ ticks' = [ticks EXCEPT ![t] = Idle]
    /\ tickInFlight' = FALSE

\* The head of the loop: tick t, having handled n lines, with the engine's fields
\* being e, either leaves the loop or suspends on the next line.
NextLine(t, e, n) ==
    \/ /\ n >= opt.linesPerInterval
       /\ EndTick(t, e)
    \/ /\ n < opt.linesPerInterval
       /\ shouldCompleteBeforeSend(e)
       /\ EndTick(t, Settle(e, "completed"))
    \/ /\ n < opt.linesPerInterval
       /\ ~ shouldCompleteBeforeSend(e)
       /\ MustAwaitRecipients
       /\ EndTick(t, e)
    \/ /\ n < opt.linesPerInterval
       /\ ~ shouldCompleteBeforeSend(e)
       /\ ~ MustAwaitRecipients
       /\ eng' = e
       /\ ticks' = [ticks EXCEPT ![t] =
              [at |-> IF MayReconnect /\ ~ transport'.connected
                      THEN "reconnecting" ELSE "sending",
               sentThisTick |-> n,
               line |-> e.currentLineIndex,
               live |-> transport'.connected]]
       /\ tickInFlight' = TRUE

\* handleSendError(): skip the line, pause, or fail the run.
HandleSendError(t) ==
    \/ /\ opt.onError = "continue"
       /\ NextLine(t, MoveOn(eng), ticks[t].sentThisTick + 1)
       /\ history' = Append(history, [record |-> eng.currentLineIndex, fate |-> "skipped"])
    \/ /\ opt.onError = "pause"
       /\ EndTick(t, Pause(eng))
       /\ UNCHANGED history
    \/ /\ opt.onError = "exit"
       /\ EndTick(t, Settle(eng, "failed"))
       /\ UNCHANGED history

\* send() answered; the line captured before the await is the one that was sent.
Sent(t, fate) ==
    /\ history' = Append(history, [record |-> ticks[t].line, fate |-> fate])
    /\ LET e == advanceAfterSuccessfulSend(eng)
       IN  IF e.outcome # "pending" THEN EndTick(t, e)
           ELSE NextLine(t, e, ticks[t].sentThisTick + 1)

\* A send that was handed to a live connection may still succeed after its loss.
SendDelivers(t) ==
    /\ ticks[t].at = "sending"
    /\ ticks[t].live
    /\ Len(history) < MaxHistory
    /\ received' = Append(received, ticks[t].line)
    /\ UNCHANGED <<opt, run, envVars>>
    /\ Sent(t, "delivered")

\* send() answers 'no-clients': the line waits or is counted all the same.
MutantNobodyThere(t) == Sent(t, "nobody")
NobodyThere(t) ==
    IF opt.waitForClient THEN EndTick(t, eng) /\ UNCHANGED history
    ELSE Sent(t, "nobody")

SendFindsNobody(t) ==
    /\ ticks[t].at = "sending"
    /\ opt.mode = "server"
    /\ ticks[t].live
    /\ ~ transport.recipients
    /\ Len(history) < MaxHistory
    /\ UNCHANGED <<opt, run, envVars, received>>
    /\ NobodyThere(t)

\* Every recipient refused the write: {delivered: false} with no reason.
SendIsUnwritten(t) ==
    /\ UnwrittenSends
    /\ ticks[t].at = "sending"
    /\ opt.mode = "server"
    /\ ticks[t].live
    /\ Len(history) < MaxHistory
    /\ transport' = [transport EXCEPT !.recipients = FALSE]
    /\ UNCHANGED <<opt, run, faults, received>>
    /\ Sent(t, "unwritten")

\* The connection went down under a send: the next tick reconnects and sends again.
RetryOnNextTick(t) == EndTick(t, eng) /\ UNCHANGED history

\* send() rejects, although the line may have reached the peer (arrived).
SendRejects(t, arrived) ==
    /\ ticks[t].at = "sending"
    /\ transport.connected => faults < MaxFaults
    /\ faults' = IF transport.connected THEN faults + 1 ELSE faults
    /\ Len(history) < MaxHistory
    /\ arrived => ticks[t].live /\ Len(received) < MaxHistory
    /\ received' = IF arrived THEN Append(received, ticks[t].line) ELSE received
    /\ UNCHANGED <<opt, run, transport>>
    /\ IF MayReconnect /\ ~ transport.connected
       THEN RetryOnNextTick(t)
       ELSE HandleSendError(t)

\* connect() inside a tick: the captured line is sent next, or the error handled.
ReconnectResolves(t) ==
    /\ ticks[t].at = "reconnecting"
    /\ transport' = [connected |-> TRUE, recipients |-> TRUE]
    /\ ticks' = [ticks EXCEPT ![t].at = "sending", ![t].live = TRUE]
    /\ UNCHANGED <<opt, eng, run, tickInFlight, faults, ghostVars>>

ReconnectRejects(t) ==
    /\ ticks[t].at = "reconnecting"
    /\ faults < MaxFaults
    /\ faults' = faults + 1
    /\ Len(history) < MaxHistory
    /\ UNCHANGED <<opt, run, transport, received>>
    /\ HandleSendError(t)

\* The interval fires; a tick in flight makes the callback return at once.
MutantIntervalRuns == eng.interval
IntervalRuns == eng.interval /\ ~ tickInFlight

IntervalFires(t) ==
    /\ IntervalRuns
    /\ ticks[t].at = "idle"
    /\ UNCHANGED <<opt, run, envVars, ghostVars>>
    /\ NextLine(t, eng, 0)

-----------------------------------------------------------------------------
(* run()                                                                   *)

Run ==
    /\ run = "idle"
    /\ run' = "loading"
    /\ eng' = [eng EXCEPT !.outcome = "pending"]
    /\ UNCHANGED <<opt, ticks, tickInFlight, envVars, ghostVars>>

\* startSchedule(): the interval is set and the first tick begins at once.
StartSchedule(e) ==
    /\ run' = "returned"
    /\ IF e.isSending THEN eng' = e /\ UNCHANGED <<ticks, tickInFlight>>
       ELSE NextLine(1, [e EXCEPT !.isSending = TRUE, !.interval = TRUE], 0)

RunReturns(e) ==
    /\ run' = "returned"
    /\ eng' = e
    /\ UNCHANGED <<ticks, tickInFlight>>

\* What run() does once the connection was made or found to be unwanted.
ConnectionSettled(e) ==
    \/ /\ ~ opt.autoStart
       /\ RunReturns(Settle(e, "ready"))
    \/ /\ opt.autoStart
       /\ ~ transport'.connected
       /\ RunReturns(Settle(e, "failed"))
    \/ /\ opt.autoStart
       /\ transport'.connected
       /\ MustAwaitRecipients
       /\ run' = "waiting"
       /\ eng' = e
       /\ UNCHANGED <<ticks, tickInFlight>>
    \/ /\ opt.autoStart
       /\ transport'.connected
       /\ ~ MustAwaitRecipients
       /\ StartSchedule(e)

\* initialize() has loaded the file and checks the window.
FileLoads ==
    LET e == [eng EXCEPT !.currentLineIndex = StartIndex]
    IN  /\ run = "loading"
        /\ UNCHANGED <<opt, envVars, ghostVars>>
        /\ \/ /\ ~ HasWindow
              /\ RunReturns(Settle(eng, "failed"))
           \/ /\ HasWindow
              /\ opt.autoConnect
              /\ run' = "connecting"
              /\ eng' = e
              /\ UNCHANGED <<ticks, tickInFlight>>
           \/ /\ HasWindow
              /\ ~ opt.autoConnect
              /\ ConnectionSettled(e)

FileFails ==
    /\ run = "loading"
    /\ RunReturns(Settle(eng, "failed"))
    /\ UNCHANGED <<opt, envVars, ghostVars>>

\* A client has its recipient once connected; a server may or may not have one
\* already (a direct UDP destination is one).
ConnectResolves ==
    /\ run = "connecting"
    /\ \E r \in BOOLEAN :
           /\ opt.mode = "client" => r
           /\ transport' = [connected |-> TRUE, recipients |-> r]
    /\ UNCHANGED <<opt, faults, ghostVars>>
    /\ ConnectionSettled(eng)

ConnectRejects ==
    /\ run = "connecting"
    /\ RunReturns(Settle(eng, "failed"))
    /\ UNCHANGED <<opt, envVars, ghostVars>>

\* waitForRecipients() times out, or the transport goes down under it.
WaitRejects ==
    /\ run = "waiting"
    /\ RunReturns(Settle(eng, "failed"))
    /\ UNCHANGED <<opt, envVars, ghostVars>>

-----------------------------------------------------------------------------
(* The environment                                                         *)

\* A recipient appears; waitForRecipients() resolves and run() goes on.
RecipientJoins ==
    /\ transport.connected
    /\ ~ transport.recipients
    /\ transport' = [transport EXCEPT !.recipients = TRUE]
    /\ UNCHANGED <<opt, faults, ghostVars>>
    /\ IF run = "waiting" THEN StartSchedule(eng)
       ELSE UNCHANGED <<eng, run, ticks, tickInFlight>>

RecipientLeaves ==
    /\ opt.mode = "server"
    /\ transport.recipients
    /\ faults < MaxFaults
    /\ faults' = faults + 1
    /\ transport' = [transport EXCEPT !.recipients = FALSE]
    /\ UNCHANGED <<opt, eng, run, ticks, tickInFlight, ghostVars>>

ConnectionLost ==
    /\ transport.connected
    /\ faults < MaxFaults
    /\ faults' = faults + 1
    /\ transport' = [connected |-> FALSE, recipients |-> FALSE]
    /\ UNCHANGED <<opt, eng, run, ticks, tickInFlight, ghostVars>>

\* An orchestrator's calls, which the engine offers and nothing in it makes.
ExternalStop ==
    /\ ExternalControl
    /\ eng.outcome = "pending"
    /\ eng' = Stop(eng)
    /\ UNCHANGED <<opt, run, ticks, tickInFlight, envVars, ghostVars>>

ExternalPause ==
    /\ ExternalControl
    /\ eng.interval
    /\ eng' = Pause(eng)
    /\ UNCHANGED <<opt, run, ticks, tickInFlight, envVars, ghostVars>>

-----------------------------------------------------------------------------
TickStep(t) ==
    \/ SendDelivers(t)
    \/ SendFindsNobody(t)
    \/ SendIsUnwritten(t)
    \/ \E arrived \in BOOLEAN : SendRejects(t, arrived)
    \/ ReconnectResolves(t)
    \/ ReconnectRejects(t)

RunStep ==
    \/ FileLoads
    \/ FileFails
    \/ ConnectResolves
    \/ ConnectRejects
    \/ WaitRejects

Environment ==
    \/ RecipientJoins
    \/ RecipientLeaves
    \/ ConnectionLost
    \/ ExternalStop
    \/ ExternalPause

Next ==
    \/ Run
    \/ RunStep
    \/ \E t \in Tick : TickStep(t) \/ IntervalFires(t)
    \/ Environment

Spec == Init /\ [][Next]_vars

\* Awaited promises settle, the timer keeps firing, and recipients come back.
FairSpec ==
    /\ Spec
    /\ WF_vars(Run)
    /\ WF_vars(RunStep)
    /\ \A t \in Tick : WF_vars(TickStep(t)) /\ WF_vars(IntervalFires(t))
    /\ WF_vars(RecipientJoins)

-----------------------------------------------------------------------------
(* Properties                                                              *)

EngineType == [currentLineIndex : Nat, linesSentCount : Nat, isSending : BOOLEAN,
               interval : BOOLEAN, outcome : {"none", "pending"} \cup Settled]

TickType == [at : {"idle", "sending", "reconnecting"}, sentThisTick : Nat,
             line : Nat, live : BOOLEAN]

TypeOK ==
    /\ opt \in Options
    /\ eng \in EngineType
    /\ run \in {"idle", "loading", "connecting", "waiting", "returned"}
    /\ ticks \in [Tick -> TickType]
    /\ tickInFlight \in BOOLEAN
    /\ transport \in [connected : BOOLEAN, recipients : BOOLEAN]
    /\ faults \in Nat
    /\ history \in Seq([record : Nat, fate : Fates])
    /\ received \in Seq(Nat)

\* "A single in-flight tick is enforced to avoid overlapping send loops when a
\* send takes longer than intervalMs": two ticks never await at the same time,
\* whatever the order of timer and send completions.
SingleTick ==
    \A t, u \in Tick : ticks[t].at # "idle" /\ ticks[u].at # "idle" => t = u

\* Once the scheduler was started and is off again (the run settled, or an error
\* paused it) nothing is left that could send: no interval, and no tick that is
\* suspended on a send or a reconnect and would go on afterwards.
QuietWhenNotSending ==
    run = "returned" /\ ~ eng.isSending =>
        ~ eng.interval /\ \A t \in Tick : ticks[t].at = "idle"

\* With waitForClient the cursor never passes a record nobody received: every
\* record counted reached a recipient, though recipients come and go between the
\* check, the send and its answer.
WaitForClientLosesNothing ==
    opt.waitForClient => \A i \in DOMAIN history : history[i].fate \in {"delivered", "skipped"}

\* With connectWaitForServer (and errors not skipped) a connection lost at any
\* point of a send costs no record: everything behind the cursor was received.
RetryLosesNothing ==
    opt.connectWaitForServer /\ opt.onError # "continue" /\ ~ opt.loop =>
        \A r \in StartIndex .. (eng.currentLineIndex - 1) :
            \E i \in DOMAIN received : received[i] = r

\* What a recipient sees is in file order, and a record is repeated only by a
\* client that retries after a connection loss.
ReceivedInOrder ==
    ~ opt.loop =>
        \A i, j \in DOMAIN received : i < j =>
            \/ received[i] < received[j]
            \/ (opt.connectWaitForServer /\ received[i] = received[j])

\* Records are neither lost nor shuffled on their way from the file to a recipient.
RecordsAreKept == WaitForClientLosesNothing /\ RetryLosesNothing /\ ReceivedInOrder

\* The engine implements the promise of Replay: each record of the window is
\* disposed of once, in order, within the limit, and run() settles once, as
\* completed exactly when nothing is left.
ImplementsReplay == Promise!Spec

\* An error paused the session (only an orchestrator could resume it).
PausedByError == /\ opt.onError = "pause"
                 /\ run = "returned"
                 /\ eng.outcome = "pending"
                 /\ ~ eng.interval

\* A server that waits for clients has lost its own listener: every tick breaks off.
ListenerLost == /\ opt.waitForClient
                /\ run = "returned"
                /\ eng.outcome = "pending"
                /\ ~ transport.connected

Bounded == opt.loop => opt.maxLines > 0 /\ opt.onError # "continue"

\* Every bounded session settles, or is paused by an error, or is a server that
\* lost its listener while it waits for clients.
RunSettles ==
    (eng.outcome = "pending" /\ Bounded)
        ~> (eng.outcome \in Settled \/ PausedByError \/ ListenerLost)
=============================================================================
