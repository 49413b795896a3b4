--------------------------- MODULE HeadlessRunner ---------------------------
(***************************************************************************)
(* A headless process, src/src/headless-runner.js on top of the replay     *)
(* engine: runHeadlessSession() runs the engine, tears the transport down, *)
(* writes the done file and exits with the code of the outcome.            *)
(***************************************************************************)
EXTENDS SimulationEngine

VARIABLES
    exitOnComplete,  \* options.exitOnComplete
    unwritable,      \* the done file cannot always be written (path, permissions, disk)
    session,         \* where runHeadlessSession() is suspended, or how it ended
    doneFile,        \* what the done file says
    exitCode         \* the process' exit code, once app.exit() was called

runnerVars == <<exitOnComplete, unwritable, session, doneFile, exitCode>>
headlessVars == <<vars, runnerVars>>

Alive == session # "exited"

HeadlessInit ==
    /\ Init
    /\ exitOnComplete \in BOOLEAN
    /\ unwritable \in BOOLEAN
    /\ session = "idle"
    /\ doneFile = "none"
    /\ exitCode = -1

-----------------------------------------------------------------------------
\* disconnectQuietly(): the transport is let go of before its teardown is awaited,
\* and a teardown that fails changes nothing.
MutantDisconnectQuietly(context) == session' = context /\ UNCHANGED transport
DisconnectQuietly(context) ==
    /\ session' = context
    /\ transport' = [connected |-> FALSE, recipients |-> FALSE]

\* The body of the catch clause, up to its teardown.
Catch == DisconnectQuietly("failing") /\ UNCHANGED <<doneFile, exitCode>>

runHeadlessSession ==
    /\ session = "idle"
    /\ session' = "running"
    /\ Run
    /\ UNCHANGED <<exitOnComplete, unwritable, doneFile, exitCode>>

\* engine.run() settled.
StaysReady == /\ eng.outcome = "ready"
              /\ ~ opt.autoStart
              /\ ~ exitOnComplete

EngineSettled ==
    /\ session = "running"
    /\ eng.outcome \in Settled
    /\ UNCHANGED <<opt, eng, run, ticks, tickInFlight, faults, ghostVars, exitOnComplete, unwritable>>
    /\ \/ /\ eng.outcome = "failed"
          /\ Catch
       \/ /\ StaysReady
          /\ session' = "staying"
          /\ doneFile' = "success"
          /\ UNCHANGED <<transport, exitCode>>
       \/ /\ StaysReady
          /\ unwritable
          /\ Catch
       \/ /\ eng.outcome # "failed"
          /\ ~ StaysReady
          /\ DisconnectQuietly("finishing")
          /\ UNCHANGED <<doneFile, exitCode>>

\* The teardown of a run that finished ended: report success.
Finish ==
    /\ session = "finishing"
    /\ UNCHANGED <<opt, eng, run, ticks, tickInFlight, faults, ghostVars, exitOnComplete, unwritable>>
    /\ \/ /\ doneFile' = "success"
          /\ session' = IF exitOnComplete THEN "exited" ELSE "returned"
          /\ exitCode' = IF exitOnComplete THEN 0 ELSE exitCode
          /\ UNCHANGED transport
       \/ unwritable /\ Catch

\* The teardown of a run that failed ended: report the failure.
Fail ==
    /\ session = "failing"
    /\ UNCHANGED <<vars, exitOnComplete, unwritable>>
    /\ \/ /\ doneFile' = "failure"
          /\ session' = "exited"
          /\ exitCode' = 2
       \/ /\ unwritable
          /\ session' = "rejected"
          /\ UNCHANGED <<doneFile, exitCode>>

\* The engine's own steps while the process lives.
EngineStep ==
    /\ Alive
    /\ \/ RunStep
       \/ \E t \in Tick : TickStep(t) \/ IntervalFires(t)
       \/ Environment
    /\ UNCHANGED runnerVars

-----------------------------------------------------------------------------
(* Properties                                                              *)

\* Exit code 0 of a session that was to send means that the window was sent: to its
\* end or to the limit, in order, and (waitForClient, no skipping) all delivered.
ExitZeroMeansReplayed ==
    exitCode = 0 /\ opt.autoStart /\ ~ opt.loop =>
        /\ \/ LimitReached(opt, eng.linesSentCount)
           \/ Len(history) = EndIndex - StartIndex + 1
        /\ \A i \in DOMAIN history : history[i].record = StartIndex + i - 1
        /\ opt.waitForClient /\ opt.onError # "continue" =>
               \A i \in DOMAIN history : \E j \in DOMAIN received : received[j] = history[i].record

\* What the done file and the exit code say agree with each other and with run(),
\* and the process does not exit with a transport up.
ExitTellsTheOutcome ==
    session = "exited" =>
        /\ (exitCode = 0 <=> doneFile = "success")
        /\ exitCode = 0 => eng.outcome \in {"ready", "completed", "stopped"}
        /\ ~ unwritable => (exitCode = 2 <=> eng.outcome = "failed")
        /\ ~ transport.connected

\* The summary in the done file is final: no record is sent, counted or received
\* once teardown began, however many ticks were due.
Ending == session \in {"finishing", "failing", "returned"}

DoneIsFinal == [][Ending => UNCHANGED <<eng, history, received>>]_headlessVars

\* Under exitOnComplete a bounded session ends its process, unless an error paused
\* it ("leaves the process running until it is externally stopped") or its own
\* listener went down while it waits for clients; and unless the done file cannot be
\* written, which the catch clause does not catch.
ProcessExits ==
    (session = "running" /\ exitOnComplete /\ Bounded /\ ~ unwritable)
        ~> (session = "exited" \/ PausedByError \/ ListenerLost)
=============================================================================
