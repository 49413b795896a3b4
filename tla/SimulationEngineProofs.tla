----------------------- MODULE SimulationEngineProofs -----------------------
(***************************************************************************)
(* Theorems about the replay engine, and about the headless process that   *)
(* runs it, for every set of option sets and launches, every file length   *)
(* and every fault budget; and about the command line that starts it, for  *)
(* every text it may hold.                                                 *)
(***************************************************************************)
EXTENDS Startup, TLAPS, WellFoundedInduction

-----------------------------------------------------------------------------
(* The engine's methods keep its fields well typed.                        *)

LEMMA OptionFacts ==
    ASSUME opt \in Options
    PROVE  /\ opt \in OptionType
           /\ StartIndex \in Nat
           /\ EndIndex \in Int
           /\ opt.loop \in BOOLEAN
           /\ opt.maxLines \in Nat
           /\ opt.linesPerInterval \in Nat \ {0}
    BY EngineAssumption DEF OptionType, StartIndex, EndIndex

LEMMA MethodTypes ==
    ASSUME opt \in Options, NEW e \in EngineType
    PROVE  /\ \A s \in Settled : Settle(e, s) \in EngineType
           /\ Pause(e) \in EngineType
           /\ Stop(e) \in EngineType
           /\ MoveOn(e) \in EngineType
           /\ advanceAfterSuccessfulSend(e) \in EngineType
<1> USE OptionFacts
<1>1. \A f \in EngineType, s \in Settled : Settle(f, s) \in EngineType
    BY DEF EngineType, Settle
<1>2. Pause(e) \in EngineType
    BY DEF EngineType, Pause
<1>3. Stop(e) \in EngineType
    BY <1>1, <1>2 DEF Stop, Settled
<1>4. \A f \in EngineType : MoveOn(f) \in EngineType
  <2> SUFFICES ASSUME NEW f \in EngineType
               PROVE  MoveOn(f) \in EngineType
      OBVIOUS
  <2>1. [f EXCEPT !.currentLineIndex = @ + 1] \in EngineType
      BY DEF EngineType
  <2>2. [f EXCEPT !.currentLineIndex = StartIndex] \in EngineType
      BY DEF EngineType
  <2> QED BY <1>1, <2>1, <2>2 DEF MoveOn, Settled
<1>5. advanceAfterSuccessfulSend(e) \in EngineType
  <2>1. [e EXCEPT !.linesSentCount = @ + 1] \in EngineType
      BY DEF EngineType
  <2>2. \A f \in EngineType : [f EXCEPT !.currentLineIndex = @ + 1] \in EngineType
      BY DEF EngineType
  <2> QED BY <1>1, <1>4, <2>1, <2>2 DEF advanceAfterSuccessfulSend, Settled
<1> QED BY <1>1, <1>2, <1>3, <1>4, <1>5

-----------------------------------------------------------------------------
(* One tick at a time, whoever stops or pauses the engine.                 *)

\* Tick t is the only one that may be suspended.
Only(t) == \A u \in Tick : u # t => ticks[u].at = "idle"

\* The flag the interval callback tests tells whether a tick is suspended.
FlagIsAccurate == tickInFlight <=> \E t \in Tick : ticks[t].at # "idle"

\* Before run() returns, nothing is scheduled.
NothingBeforeSchedule ==
    run # "returned" => ~ eng.interval /\ \A t \in Tick : ticks[t].at = "idle"

TickInv == TypeOK /\ SingleTick /\ FlagIsAccurate /\ NothingBeforeSchedule

LEMMA EndTickStep ==
    ASSUME TypeOK, NEW t \in Tick, Only(t), NEW e \in EngineType, EndTick(t, e)
    PROVE  /\ eng' \in EngineType /\ ticks' \in [Tick -> TickType]
           /\ tickInFlight' \in BOOLEAN
           /\ \A u \in Tick : ticks'[u].at = "idle"
           /\ ~ tickInFlight'
    BY DEF EndTick, TypeOK, Only, TickType, Idle

LEMMA NextLineStep ==
    ASSUME TypeOK, NEW t \in Tick, Only(t), NEW e \in EngineType, NEW n \in Nat,
           NextLine(t, e, n), transport' \in [connected : BOOLEAN, recipients : BOOLEAN]
    PROVE  /\ eng' \in EngineType /\ ticks' \in [Tick -> TickType]
           /\ tickInFlight' \in BOOLEAN
           /\ SingleTick' /\ FlagIsAccurate'
<1>1. opt \in Options
    BY DEF TypeOK
<1>2. Settle(e, "completed") \in EngineType
    BY <1>1, MethodTypes DEF Settled
<1>3. CASE EndTick(t, e) \/ EndTick(t, Settle(e, "completed"))
    BY <1>2, <1>3, EndTickStep DEF SingleTick, FlagIsAccurate
<1>4. CASE /\ eng' = e
           /\ ticks' = [ticks EXCEPT ![t] =
                  [at |-> IF MayReconnect /\ ~ transport'.connected
                          THEN "reconnecting" ELSE "sending",
                   sentThisTick |-> n,
                   line |-> e.currentLineIndex,
                   live |-> transport'.connected]]
           /\ tickInFlight' = TRUE
  <2>1. e.currentLineIndex \in Nat /\ transport'.connected \in BOOLEAN
      BY DEF EngineType
  <2>2. ticks' \in [Tick -> TickType]
      BY <1>4, <2>1 DEF TypeOK, TickType
  <2>3. ticks'[t].at # "idle" /\ \A u \in Tick : u # t => ticks'[u].at = "idle"
      BY <1>4 DEF TypeOK, Only
  <2> QED BY <1>4, <2>2, <2>3 DEF SingleTick, FlagIsAccurate
<1> QED BY <1>3, <1>4 DEF NextLine

\* What a step has to leave behind for TickInv to hold again.
Kept == /\ eng' \in EngineType /\ ticks' \in [Tick -> TickType]
        /\ tickInFlight' \in BOOLEAN
        /\ SingleTick' /\ FlagIsAccurate'

LEMMA EndTickKeeps ==
    ASSUME TypeOK, NEW t \in Tick, Only(t), NEW e \in EngineType, EndTick(t, e)
    PROVE  Kept
    BY EndTickStep DEF Kept, SingleTick, FlagIsAccurate

LEMMA HandleSendErrorKeeps ==
    ASSUME TypeOK, NEW t \in Tick, Only(t), ticks[t].at # "idle", HandleSendError(t),
           transport' \in [connected : BOOLEAN, recipients : BOOLEAN]
    PROVE  Kept /\ history' \in Seq([record : Nat, fate : Fates])
<1>1. /\ opt \in Options /\ eng \in EngineType
      /\ history \in Seq([record : Nat, fate : Fates])
      /\ ticks[t].sentThisTick + 1 \in Nat /\ eng.currentLineIndex \in Nat
    BY DEF TypeOK, TickType, EngineType
<1>2. /\ MoveOn(eng) \in EngineType /\ Pause(eng) \in EngineType
      /\ Settle(eng, "failed") \in EngineType
    BY <1>1, MethodTypes DEF Settled
<1>3. CASE opt.onError = "continue"
  <2>1. Kept
      BY <1>1, <1>2, <1>3, NextLineStep DEF HandleSendError, Kept
  <2>2. history' = Append(history, [record |-> eng.currentLineIndex, fate |-> "skipped"])
      BY <1>3 DEF HandleSendError
  <2> QED BY <1>1, <2>1, <2>2 DEF Fates
<1>4. CASE opt.onError # "continue"
    BY <1>1, <1>2, <1>4, EndTickKeeps DEF HandleSendError
<1> QED BY <1>3, <1>4

LEMMA SentKeeps ==
    ASSUME TypeOK, NEW t \in Tick, Only(t), ticks[t].at # "idle",
           NEW fate \in Fates, Sent(t, fate),
           transport' \in [connected : BOOLEAN, recipients : BOOLEAN]
    PROVE  Kept /\ history' \in Seq([record : Nat, fate : Fates])
<1>1. /\ opt \in Options /\ eng \in EngineType
      /\ history \in Seq([record : Nat, fate : Fates])
      /\ ticks[t].sentThisTick + 1 \in Nat /\ ticks[t].line \in Nat
    BY DEF TypeOK, TickType
<1> DEFINE e == advanceAfterSuccessfulSend(eng)
<1>2. e \in EngineType
    BY <1>1, MethodTypes
<1>3. history' = Append(history, [record |-> ticks[t].line, fate |-> fate])
    BY DEF Sent
<1>4. EndTick(t, e) \/ NextLine(t, e, ticks[t].sentThisTick + 1)
    BY DEF Sent
<1>5. Kept
  <2> HIDE DEF e
  <2> QED BY <1>1, <1>2, <1>4, EndTickKeeps, NextLineStep DEF Kept
<1> QED BY <1>1, <1>3, <1>5

\* A tick that is suspended is the only one.
LEMMA SuspendedIsOnly ==
    ASSUME SingleTick, NEW t \in Tick, ticks[t].at # "idle"
    PROVE  Only(t)
    BY DEF SingleTick, Only

LEMMA TickInvInit == Init => TickInv
<1> SUFFICES ASSUME Init PROVE TickInv
    OBVIOUS
<1>1. history \in Seq([record : Nat, fate : Fates]) /\ received \in Seq(Nat)
    BY DEF Init
<1>2. eng \in EngineType
    BY DEF Init, EngineType
<1>3. ticks \in [Tick -> TickType]
    BY DEF Init, Idle, TickType
<1> QED BY <1>1, <1>2, <1>3
    DEF Init, TickInv, TypeOK, SingleTick, FlagIsAccurate, NothingBeforeSchedule, Idle

LEMMA TickStepKeepsTickInv ==
    ASSUME TickInv, NEW t \in Tick, TickStep(t)
    PROVE  TickInv'
<1>1. TypeOK /\ SingleTick /\ NothingBeforeSchedule
    BY DEF TickInv
<1>2. ticks[t].at # "idle" /\ Only(t)
    BY <1>1, SuspendedIsOnly DEF TickStep, SendDelivers, SendFindsNobody, SendIsUnwritten,
       SendRejects, ReconnectResolves, ReconnectRejects
<1>3. run = "returned"
    BY <1>1, <1>2 DEF NothingBeforeSchedule
<1> DEFINE HistoryType == Seq([record : Nat, fate : Fates])
<1>4. SUFFICES /\ Kept /\ history' \in HistoryType /\ received' \in Seq(Nat)
               /\ faults' \in Nat /\ run' = run /\ opt' = opt
               /\ transport' \in [connected : BOOLEAN, recipients : BOOLEAN]
    BY <1>1, <1>3 DEF TickInv, TypeOK, Kept, NothingBeforeSchedule
<1>5. /\ history \in HistoryType /\ received \in Seq(Nat) /\ faults \in Nat
      /\ eng \in EngineType /\ ticks[t].line \in Nat
      /\ transport \in [connected : BOOLEAN, recipients : BOOLEAN]
    BY <1>1 DEF TypeOK, TickType
<1>6. CASE SendDelivers(t)
  <2>1. received' \in Seq(Nat)
      BY <1>5, <1>6 DEF SendDelivers
  <2>2. Kept /\ history' \in HistoryType
      BY <1>1, <1>2, <1>5, <1>6, SentKeeps DEF SendDelivers, envVars, Fates
  <2> QED BY <1>5, <1>6, <2>1, <2>2 DEF SendDelivers, envVars
<1>7. CASE SendFindsNobody(t)
  <2>1. transport' = transport /\ NobodyThere(t)
      BY <1>7 DEF SendFindsNobody, envVars
  <2>2. Kept /\ history' \in HistoryType
      BY <1>1, <1>2, <1>5, <2>1, SentKeeps, EndTickKeeps DEF NobodyThere, Fates
  <2> QED BY <1>5, <1>7, <2>2 DEF SendFindsNobody, envVars
<1>8. CASE SendIsUnwritten(t)
  <2>1. transport' \in [connected : BOOLEAN, recipients : BOOLEAN]
      BY <1>5, <1>8 DEF SendIsUnwritten
  <2>2. Kept /\ history' \in HistoryType
      BY <1>1, <1>2, <1>8, <2>1, SentKeeps DEF SendIsUnwritten, Fates
  <2> QED BY <1>5, <1>8, <2>1, <2>2 DEF SendIsUnwritten
<1>9. ASSUME NEW arrived \in BOOLEAN, SendRejects(t, arrived)
      PROVE  /\ Kept /\ history' \in HistoryType /\ received' \in Seq(Nat)
             /\ faults' \in Nat /\ run' = run /\ opt' = opt
             /\ transport' \in [connected : BOOLEAN, recipients : BOOLEAN]
  <2>1. received' \in Seq(Nat) /\ faults' \in Nat /\ transport' = transport
      BY <1>5, <1>9 DEF SendRejects
  <2>2. Kept /\ history' \in HistoryType
      BY <1>1, <1>2, <1>5, <1>9, <2>1, HandleSendErrorKeeps, EndTickKeeps
         DEF SendRejects, RetryOnNextTick
  <2> QED BY <1>5, <1>9, <2>1, <2>2 DEF SendRejects
<1>10. CASE ReconnectResolves(t)
  <2>1. ticks' = [ticks EXCEPT ![t].at = "sending", ![t].live = TRUE] /\ eng' = eng
      BY <1>10 DEF ReconnectResolves
  <2>2. ticks' \in [Tick -> TickType] /\ ticks'[t].at # "idle" /\ Only(t)'
      BY <1>1, <1>2, <2>1 DEF TypeOK, TickType, Only
  <2>3. tickInFlight' /\ tickInFlight' \in BOOLEAN
      BY <1>2, <1>10 DEF ReconnectResolves, TickInv, FlagIsAccurate, TypeOK
  <2> QED BY <1>5, <1>10, <2>1, <2>2, <2>3
          DEF ReconnectResolves, Kept, SingleTick, FlagIsAccurate, Only, ghostVars
<1>11. CASE ReconnectRejects(t)
  <2>1. Kept /\ history' \in HistoryType
      BY <1>1, <1>2, <1>5, <1>11, HandleSendErrorKeeps DEF ReconnectRejects
  <2> QED BY <1>5, <1>11, <2>1 DEF ReconnectRejects
<1> QED BY <1>6, <1>7, <1>8, <1>9, <1>10, <1>11 DEF TickStep

\* While run() is suspended no tick is, so the schedule starts with the first.
LEMMA ConnectionSettledKeepsTickInv ==
    ASSUME TickInv, run # "returned", NEW e \in EngineType, ~ e.interval,
           ConnectionSettled(e), opt' = opt, faults' = faults, UNCHANGED ghostVars,
           transport' \in [connected : BOOLEAN, recipients : BOOLEAN]
    PROVE  TickInv'
<1>1. /\ TypeOK /\ \A t \in Tick : ticks[t].at = "idle"
      /\ ~ tickInFlight
    BY DEF TickInv, NothingBeforeSchedule, FlagIsAccurate
<1>2. Only(1) /\ 1 \in Tick
    BY <1>1 DEF Only, Tick
<1>3. opt \in Options
    BY <1>1 DEF TypeOK
<1>4. SUFFICES Kept /\ run' \in {"waiting", "returned"}
               /\ (run' = "waiting" => ~ eng'.interval /\ ticks' = ticks)
    BY <1>1, <1>4 DEF TickInv, TypeOK, Kept, NothingBeforeSchedule, ghostVars
<1>5. ASSUME NEW f \in EngineType, eng' = f, UNCHANGED <<ticks, tickInFlight>>
      PROVE  Kept
    BY <1>1, <1>5 DEF Kept, TypeOK, SingleTick, FlagIsAccurate
<1>6. ASSUME StartSchedule(e)
      PROVE  Kept /\ run' = "returned"
  <2>1. [e EXCEPT !.isSending = TRUE, !.interval = TRUE] \in EngineType
      BY DEF EngineType
  <2> QED BY <1>1, <1>2, <1>5, <1>6, <2>1, NextLineStep DEF StartSchedule, Kept
<1>7. ASSUME NEW status \in Settled, RunReturns(Settle(e, status))
      PROVE  Kept /\ run' = "returned"
    BY <1>3, <1>5, <1>7, MethodTypes DEF RunReturns
<1> QED BY <1>5, <1>6, <1>7 DEF ConnectionSettled, Settled

LEMMA RunStepKeepsTickInv ==
    ASSUME TickInv, RunStep
    PROVE  TickInv'
<1>1. /\ TypeOK /\ run # "returned" /\ ~ eng.interval
      /\ \A t \in Tick : ticks[t].at = "idle"
    BY DEF TickInv, NothingBeforeSchedule, RunStep, FileLoads, FileFails, ConnectResolves,
       ConnectRejects, WaitRejects
<1>2. opt \in Options /\ eng \in EngineType /\ StartIndex \in Nat
    BY <1>1, OptionFacts DEF TypeOK
<1>3. ASSUME RunReturns(Settle(eng, "failed")), UNCHANGED <<opt, envVars, ghostVars>>
      PROVE  TickInv'
  <2>1. eng' \in EngineType
      BY <1>2, <1>3, MethodTypes DEF RunReturns, Settled
  <2> QED BY <1>1, <1>3, <2>1 DEF RunReturns, TickInv, TypeOK, SingleTick, FlagIsAccurate,
             NothingBeforeSchedule, envVars, ghostVars
<1>4. CASE FileLoads
  <2> DEFINE e == [eng EXCEPT !.currentLineIndex = StartIndex]
  <2>1. e \in EngineType /\ ~ e.interval
      BY <1>1, <1>2 DEF EngineType
  <2>2. CASE ~ HasWindow /\ RunReturns(Settle(eng, "failed"))
      BY <1>3, <1>4, <2>2 DEF FileLoads
  <2>3. CASE run' = "connecting" /\ eng' = e /\ UNCHANGED <<ticks, tickInFlight>>
      BY <1>1, <1>4, <2>1, <2>3 DEF FileLoads, TickInv, TypeOK, SingleTick, FlagIsAccurate,
         NothingBeforeSchedule, envVars, ghostVars
  <2>4. CASE ConnectionSettled(e)
    <3>1. /\ transport' \in [connected : BOOLEAN, recipients : BOOLEAN]
          /\ opt' = opt /\ faults' = faults /\ UNCHANGED ghostVars
        BY <1>1, <1>4 DEF FileLoads, envVars, TypeOK
    <3> HIDE DEF e
    <3> QED BY <1>1, <2>1, <2>4, <3>1, ConnectionSettledKeepsTickInv
  <2> QED BY <1>4, <2>2, <2>3, <2>4 DEF FileLoads
<1>5. CASE FileFails \/ ConnectRejects \/ WaitRejects
    BY <1>3, <1>5 DEF FileFails, ConnectRejects, WaitRejects
<1>6. CASE ConnectResolves
  <2>1. transport' \in [connected : BOOLEAN, recipients : BOOLEAN]
      BY <1>6 DEF ConnectResolves
  <2> QED BY <1>1, <1>2, <1>6, <2>1, ConnectionSettledKeepsTickInv DEF ConnectResolves
<1> QED BY <1>4, <1>5, <1>6 DEF RunStep

LEMMA EnvironmentKeepsTickInv ==
    ASSUME TickInv, Environment
    PROVE  TickInv'
<1>1. TypeOK /\ opt \in Options /\ eng \in EngineType
    BY DEF TickInv, TypeOK
<1>2. CASE RecipientJoins
  <2>1. transport' \in [connected : BOOLEAN, recipients : BOOLEAN]
      BY <1>1, <1>2 DEF RecipientJoins, TypeOK
  <2>2. CASE run = "waiting"
    <3>1. ~ eng.interval
        BY <2>2 DEF TickInv, NothingBeforeSchedule
    <3>2. StartSchedule(eng) /\ opt' = opt /\ faults' = faults /\ UNCHANGED ghostVars
        BY <1>2, <2>2 DEF RecipientJoins
    <3>3. Only(1) /\ 1 \in Tick
        BY <2>2 DEF Only, Tick, TickInv, NothingBeforeSchedule
    <3>4. [eng EXCEPT !.isSending = TRUE, !.interval = TRUE] \in EngineType
        BY <1>1 DEF EngineType
    <3>5. Kept
      <4>1. CASE eng.isSending
          BY <1>1, <3>2, <4>1 DEF StartSchedule, Kept, TickInv, TypeOK, SingleTick, FlagIsAccurate
      <4>2. CASE ~ eng.isSending
          BY <1>1, <2>1, <3>2, <3>3, <3>4, <4>2, NextLineStep DEF StartSchedule, Kept
      <4> QED BY <4>1, <4>2
    <3> QED BY <1>1, <2>1, <3>2, <3>5
            DEF StartSchedule, TickInv, TypeOK, Kept, NothingBeforeSchedule, ghostVars
  <2>3. CASE run # "waiting"
      BY <1>1, <1>2, <2>1, <2>3 DEF RecipientJoins, TickInv, TypeOK, SingleTick,
         FlagIsAccurate, NothingBeforeSchedule, ghostVars
  <2> QED BY <2>2, <2>3
<1>3. CASE RecipientLeaves \/ ConnectionLost
  <2>1. /\ transport' \in [connected : BOOLEAN, recipients : BOOLEAN]
        /\ faults' \in Nat
    <3>1. CASE RecipientLeaves
      <4>1. /\ transport' = [transport EXCEPT !.recipients = FALSE]
            /\ faults' = faults + 1
          BY <3>1 DEF RecipientLeaves
      <4>2. /\ transport \in [connected : BOOLEAN, recipients : BOOLEAN]
            /\ faults \in Nat
          BY <1>1 DEF TypeOK
      <4>3. transport' \in [connected : BOOLEAN, recipients : BOOLEAN]
          BY <4>1, <4>2
      <4> QED BY <4>1, <4>2, <4>3
    <3>2. CASE ConnectionLost
        BY <1>1, <3>2 DEF ConnectionLost, TypeOK
    <3> QED BY <1>3, <3>1, <3>2
  <2>2. UNCHANGED <<opt, eng, run, ticks, tickInFlight, ghostVars>>
      BY <1>3 DEF RecipientLeaves, ConnectionLost
  <2> QED BY <1>1, <2>1, <2>2 DEF TickInv, TypeOK, SingleTick, FlagIsAccurate,
             NothingBeforeSchedule, ghostVars
<1>4. CASE ExternalStop \/ ExternalPause
  <2>1. /\ eng' \in EngineType /\ UNCHANGED <<opt, run, ticks, tickInFlight, envVars, ghostVars>>
      BY <1>1, <1>4, MethodTypes DEF ExternalStop, ExternalPause
  <2>2. ~ eng.interval => ~ eng'.interval
      BY <1>1, <1>4 DEF ExternalStop, ExternalPause, Stop, Pause, Settle, EngineType
  <2> QED BY <1>1, <2>1, <2>2 DEF TickInv, TypeOK, SingleTick, FlagIsAccurate,
             NothingBeforeSchedule, envVars, ghostVars
<1> QED BY <1>2, <1>3, <1>4 DEF Environment

LEMMA TickInvInductive == TickInv /\ [Next]_vars => TickInv'
<1> SUFFICES ASSUME TickInv, [Next]_vars PROVE TickInv'
    OBVIOUS
<1>1. TypeOK /\ opt \in Options /\ eng \in EngineType
    BY DEF TickInv, TypeOK
<1>2. CASE Run
    BY <1>1, <1>2 DEF Run, EngineType, TickInv, TypeOK, SingleTick, FlagIsAccurate,
       NothingBeforeSchedule, envVars, ghostVars
<1>3. CASE RunStep
    BY <1>3, RunStepKeepsTickInv
<1>4. ASSUME NEW t \in Tick, TickStep(t)
      PROVE  TickInv'
    BY <1>4, TickStepKeepsTickInv
<1>5. ASSUME NEW t \in Tick, IntervalFires(t)
      PROVE  TickInv'
  <2>1. Only(t) /\ run = "returned"
      BY <1>1, <1>5 DEF IntervalFires, IntervalRuns, TickInv, FlagIsAccurate, Only,
         NothingBeforeSchedule
  <2>2. /\ transport' \in [connected : BOOLEAN, recipients : BOOLEAN]
        /\ UNCHANGED <<opt, run, envVars, ghostVars>> /\ NextLine(t, eng, 0)
      BY <1>1, <1>5 DEF IntervalFires, envVars, TypeOK
  <2>3. Kept
      BY <1>1, <2>1, <2>2, NextLineStep DEF Kept
  <2> QED BY <1>1, <2>1, <2>2, <2>3 DEF Kept, TickInv, TypeOK, NothingBeforeSchedule,
             envVars, ghostVars
<1>6. CASE Environment
    BY <1>6, EnvironmentKeepsTickInv
<1>7. CASE UNCHANGED vars
    BY <1>7 DEF vars, envVars, ghostVars, TickInv, TypeOK, SingleTick, FlagIsAccurate,
       NothingBeforeSchedule
<1> QED BY <1>2, <1>3, <1>4, <1>5, <1>6, <1>7 DEF Next

\* Every reachable state is well typed.
THEOREM TypeCorrect == Spec => []TypeOK
<1>1. TickInv => TypeOK
    BY DEF TickInv
<1> QED BY <1>1, TickInvInit, TickInvInductive, PTL DEF Spec

\* At most one tick ever awaits a send or a reconnect, for every file, every
\* option set and every order of timer, transport and orchestrator events, stop()
\* and pause() at any moment included.
THEOREM OneTickInFlight == Spec => []SingleTick
<1>1. TickInv => SingleTick
    BY DEF TickInv
<1> QED BY <1>1, TickInvInit, TickInvInductive, PTL DEF Spec

-----------------------------------------------------------------------------
(* A session nobody stops or pauses from outside: what it is doing at each  *)
(* point, which is what its refinement of Replay rests on.                 *)

\* The record that follows the history h, in terms of the engine's window.
Following(h) == IF h # <<>> /\ h[Len(h)].record + 1 \in StartIndex .. EndIndex
                THEN h[Len(h)].record + 1 ELSE StartIndex

\* The schedule runs, and the cursor is on the next record of the window.
Going(e, h) ==
    /\ e.outcome = "pending" /\ e.isSending /\ e.interval
    /\ HasWindow
    /\ e.currentLineIndex = Following(h)
    /\ ~ LimitReached(opt, e.linesSentCount)

\* The schedule is off for good.
Over(e) == e.outcome # "none" /\ ~ e.isSending /\ ~ e.interval

AllIdle == \A t \in Tick : ticks[t].at = "idle"

LinesAreCurrent == \A t \in Tick : ticks[t].at # "idle" => ticks[t].line = eng.currentLineIndex

SessionInv ==
    /\ run # "returned" =>
           /\ eng.outcome = IF run = "idle" THEN "none" ELSE "pending"
           /\ ~ eng.isSending /\ ~ eng.interval
           /\ eng.linesSentCount = 0
           /\ history = <<>>
    /\ run \in {"connecting", "waiting"} => HasWindow /\ eng.currentLineIndex = StartIndex
    /\ run = "returned" => \/ Over(eng) /\ AllIdle
                           \/ Going(eng, history) /\ LinesAreCurrent

\* The window of the promise is the one initialize() computes.
LEMMA WindowFacts ==
    ASSUME opt \in Options, HasWindow
    PROVE  /\ Promise!Window = StartIndex .. EndIndex
           /\ StartIndex \in Promise!Window
           /\ Promise!First = StartIndex
           /\ \A h : Promise!Position(h) = Following(h)
<1>1. /\ opt.available \in Nat /\ opt.startLine \in Nat \ {0} /\ opt.endLine \in Nat
      /\ StartIndex \in Nat /\ EndIndex \in Int
    BY OptionFacts DEF OptionType
<1>2. Promise!Window = StartIndex .. EndIndex
    BY <1>1 DEF Promise!Window, HasWindow, StartIndex, EndIndex
<1>3. StartIndex \in Promise!Window /\ \A q \in Promise!Window : StartIndex <= q
    BY <1>1, <1>2 DEF HasWindow
<1>4. \A r \in Promise!Window : (\A q \in Promise!Window : r <= q) => r = StartIndex
    BY <1>1, <1>2, <1>3
<1>5. Promise!First = StartIndex
    BY <1>3, <1>4 DEF Promise!First
<1> QED BY <1>2, <1>3, <1>5 DEF Promise!Position, Following

LEMMA FollowingBounds ==
    ASSUME opt \in Options, HasWindow, NEW h
    PROVE  Following(h) \in StartIndex .. EndIndex
<1>1. StartIndex \in Nat /\ EndIndex \in Int /\ StartIndex <= EndIndex
    BY OptionFacts DEF HasWindow
<1> QED BY <1>1 DEF Following

LEMMA AppendedLast ==
    ASSUME NEW S, NEW h \in Seq(S), NEW x \in S
    PROVE  /\ Append(h, x) # <<>>
           /\ Append(h, x)[Len(Append(h, x))] = x
    OBVIOUS

\* MoveOn() takes the cursor to the record that follows, or completes the run
\* exactly when nothing is left.
LEMMA MoveOnFollows ==
    ASSUME TypeOK, NEW e \in EngineType, e.outcome = "pending", e.isSending, e.interval,
           HasWindow, e.currentLineIndex \in StartIndex .. EndIndex,
           ~ LimitReached(opt, e.linesSentCount), NEW fate \in Fates
    PROVE  LET h == Append(history, [record |-> e.currentLineIndex, fate |-> fate])
           IN  /\ MoveOn(e).linesSentCount = e.linesSentCount
               /\ IF ~ opt.loop /\ e.currentLineIndex + 1 \notin StartIndex .. EndIndex
                  THEN /\ MoveOn(e).outcome = "completed" /\ Over(MoveOn(e))
                       /\ MoveOn(e).currentLineIndex > EndIndex
                  ELSE Going(MoveOn(e), h)
<1> DEFINE h == Append(history, [record |-> e.currentLineIndex, fate |-> fate])
<1>1. /\ opt \in Options /\ history \in Seq([record : Nat, fate : Fates])
      /\ e.currentLineIndex \in Nat /\ e.linesSentCount \in Nat
    BY DEF TypeOK, EngineType
<1>2. /\ StartIndex \in Nat /\ EndIndex \in Int /\ opt.loop \in BOOLEAN
    BY <1>1, OptionFacts
<1>3. h # <<>> /\ h[Len(h)].record = e.currentLineIndex
    BY <1>1, AppendedLast
<1>4. Following(h) = IF e.currentLineIndex + 1 \in StartIndex .. EndIndex
                     THEN e.currentLineIndex + 1 ELSE StartIndex
    BY <1>3 DEF Following
<1> HIDE DEF h
<1> DEFINE next == [e EXCEPT !.currentLineIndex = @ + 1]
           wrapped == [e EXCEPT !.currentLineIndex = StartIndex]
<1>5. /\ next.currentLineIndex = e.currentLineIndex + 1
      /\ next.linesSentCount = e.linesSentCount /\ next.outcome = "pending"
      /\ next.isSending /\ next.interval /\ next \in EngineType
    BY <1>1 DEF EngineType
<1>6. /\ wrapped.currentLineIndex = StartIndex
      /\ wrapped.linesSentCount = e.linesSentCount /\ wrapped.outcome = "pending"
      /\ wrapped.isSending /\ wrapped.interval
    BY <1>1 DEF EngineType
<1>7. MoveOn(e) = IF next.currentLineIndex <= EndIndex THEN next
                  ELSE IF opt.loop THEN wrapped ELSE Settle(next, "completed")
    BY DEF MoveOn
<1>8. /\ Settle(next, "completed").outcome = "completed"
      /\ Settle(next, "completed").linesSentCount = e.linesSentCount
      /\ Settle(next, "completed").currentLineIndex = e.currentLineIndex + 1
      /\ ~ Settle(next, "completed").isSending /\ ~ Settle(next, "completed").interval
    BY <1>5 DEF Settle, EngineType
<1> HIDE DEF next, wrapped
<1>9. CASE e.currentLineIndex + 1 <= EndIndex
  <2>1. e.currentLineIndex + 1 \in StartIndex .. EndIndex /\ MoveOn(e) = next
      BY <1>1, <1>2, <1>5, <1>7, <1>9
  <2> QED BY <1>4, <1>5, <2>1 DEF Going, h
<1>10. CASE ~ (e.currentLineIndex + 1 <= EndIndex) /\ opt.loop
  <2>1. e.currentLineIndex + 1 \notin StartIndex .. EndIndex /\ MoveOn(e) = wrapped
      BY <1>1, <1>2, <1>5, <1>7, <1>10
  <2> QED BY <1>4, <1>6, <1>10, <2>1 DEF Going, h
<1>11. CASE ~ (e.currentLineIndex + 1 <= EndIndex) /\ ~ opt.loop
  <2>1. /\ e.currentLineIndex + 1 \notin StartIndex .. EndIndex
        /\ MoveOn(e) = Settle(next, "completed") /\ e.currentLineIndex + 1 > EndIndex
      BY <1>1, <1>2, <1>5, <1>7, <1>11
  <2> QED BY <1>8, <1>11, <2>1 DEF Over
<1> QED BY <1>9, <1>10, <1>11

\* A counted record completes the run exactly when nothing is left.
LEMMA AdvanceFollows ==
    ASSUME TypeOK, Going(eng, history), NEW fate \in Fates
    PROVE  LET e == advanceAfterSuccessfulSend(eng)
               h == Append(history, [record |-> eng.currentLineIndex, fate |-> fate])
           IN  /\ e.linesSentCount = eng.linesSentCount + 1
               /\ IF \/ LimitReached(opt, eng.linesSentCount + 1)
                     \/ ~ opt.loop /\ eng.currentLineIndex + 1 \notin StartIndex .. EndIndex
                  THEN e.outcome = "completed" /\ Over(e)
                  ELSE Going(e, h)
<1> DEFINE h == Append(history, [record |-> eng.currentLineIndex, fate |-> fate])
           counted == [eng EXCEPT !.linesSentCount = @ + 1]
           last == [counted EXCEPT !.currentLineIndex = @ + 1]
<1>1. opt \in Options /\ eng \in EngineType /\ HasWindow
    BY DEF TypeOK, Going
<1>2. eng.currentLineIndex \in StartIndex .. EndIndex
    BY <1>1, FollowingBounds DEF Going
<1>3. /\ counted \in EngineType /\ counted.linesSentCount = eng.linesSentCount + 1
      /\ counted.currentLineIndex = eng.currentLineIndex
      /\ counted.outcome = "pending" /\ counted.isSending /\ counted.interval
    BY <1>1 DEF EngineType, Going
<1>4. advanceAfterSuccessfulSend(eng) = IF LimitReached(opt, counted.linesSentCount)
                                        THEN Settle(last, "completed") ELSE MoveOn(counted)
    BY DEF advanceAfterSuccessfulSend
<1>5. CASE LimitReached(opt, eng.linesSentCount + 1)
  <2>1. /\ Settle(last, "completed").outcome = "completed"
        /\ Settle(last, "completed").linesSentCount = eng.linesSentCount + 1
        /\ ~ Settle(last, "completed").isSending /\ ~ Settle(last, "completed").interval
      BY <1>1, <1>3 DEF Settle, EngineType
  <2> QED BY <1>3, <1>4, <1>5, <2>1 DEF Over
<1>6. CASE ~ LimitReached(opt, eng.linesSentCount + 1)
  <2> HIDE DEF counted, last
  <2> QED BY <1>1, <1>2, <1>3, <1>4, <1>6, MoveOnFollows
<1> QED BY <1>5, <1>6

\* With something left the head of the loop suspends on the cursor's line or waits.
LEMMA NextLineGoing ==
    ASSUME TypeOK, NEW t \in Tick, Only(t), NEW e \in EngineType, NEW h, Going(e, h),
           NEW n \in Nat, NextLine(t, e, n)
    PROVE  eng' = e /\ LinesAreCurrent'
<1>1. opt \in Options /\ HasWindow /\ StartIndex \in Nat /\ EndIndex \in Int
    BY OptionFacts DEF TypeOK, Going
<1>2. ~ (e.currentLineIndex > EndIndex)
    BY <1>1, FollowingBounds DEF Going
<1>3. ~ shouldCompleteBeforeSend(e)
    BY <1>2 DEF Going, shouldCompleteBeforeSend
<1>4. CASE EndTick(t, e)
    BY <1>4, EndTickStep DEF EndTick, LinesAreCurrent
<1>5. CASE /\ eng' = e
           /\ ticks' = [ticks EXCEPT ![t] =
                  [at |-> IF MayReconnect /\ ~ transport'.connected
                          THEN "reconnecting" ELSE "sending",
                   sentThisTick |-> n,
                   line |-> e.currentLineIndex,
                   live |-> transport'.connected]]
    BY <1>5 DEF LinesAreCurrent, TypeOK, Only
<1> QED BY <1>3, <1>4, <1>5 DEF NextLine

\* What SessionInv says of a session whose run() has returned.
Underway(e, h) == \/ Over(e) /\ AllIdle'
                  \/ Going(e, h) /\ LinesAreCurrent'

LEMMA SentDisposes ==
    ASSUME TypeOK, NEW t \in Tick, Only(t), ticks[t].at # "idle", Going(eng, history),
           LinesAreCurrent, NEW fate \in Fates, fate # "skipped", Sent(t, fate), opt' = opt
    PROVE  Promise!Dispose(fate) /\ Underway(eng', history')
<1> DEFINE e == advanceAfterSuccessfulSend(eng)
           h == Append(history, [record |-> eng.currentLineIndex, fate |-> fate])
<1>1. /\ opt \in Options /\ eng \in EngineType /\ HasWindow /\ eng.outcome = "pending"
      /\ ticks[t].sentThisTick + 1 \in Nat /\ eng.linesSentCount \in Nat
      /\ eng.currentLineIndex = Following(history)
    BY DEF TypeOK, TickType, EngineType, Going
<1>2. history' = h
    BY DEF Sent, LinesAreCurrent
<1>3. e \in EngineType
    BY <1>1, MethodTypes
<1>4. /\ Promise!Window = StartIndex .. EndIndex /\ Promise!Window # {}
      /\ Promise!Position(history) = eng.currentLineIndex
    BY <1>1, WindowFacts
<1>5. /\ e.linesSentCount = eng.linesSentCount + 1
      /\ IF Promise!NothingLeft(eng.linesSentCount + 1, eng.currentLineIndex)
         THEN e.outcome = "completed" /\ Over(e)
         ELSE Going(e, h)
  <2>1. \A n, r : Promise!NothingLeft(n, r)
               <=> \/ LimitReached(opt, n)
                   \/ ~ opt.loop /\ r + 1 \notin StartIndex .. EndIndex
      BY <1>4 DEF Promise!NothingLeft, Promise!LimitReached, LimitReached
  <2>2. /\ e.linesSentCount = eng.linesSentCount + 1
        /\ IF \/ LimitReached(opt, eng.linesSentCount + 1)
              \/ ~ opt.loop /\ eng.currentLineIndex + 1 \notin StartIndex .. EndIndex
           THEN e.outcome = "completed" /\ Over(e)
           ELSE Going(e, h)
      BY AdvanceFollows
  <2> HIDE DEF e, h
  <2> QED BY <2>1, <2>2
<1>6. IF e.outcome # "pending" THEN EndTick(t, e)
      ELSE NextLine(t, e, ticks[t].sentThisTick + 1)
    BY DEF Sent
<1> HIDE DEF e
<1>7. eng' = e /\ Underway(eng', history')
  <2>1. CASE Promise!NothingLeft(eng.linesSentCount + 1, eng.currentLineIndex)
      BY <1>2, <1>3, <1>5, <1>6, <2>1, EndTickStep DEF EndTick, Underway, AllIdle
  <2>2. CASE ~ Promise!NothingLeft(eng.linesSentCount + 1, eng.currentLineIndex)
    <3>1. Going(e, h) /\ e.outcome = "pending"
        BY <1>5, <2>2 DEF Going
    <3>2. eng' = e /\ LinesAreCurrent'
        BY <1>1, <1>3, <1>6, <3>1, NextLineGoing
    <3> QED BY <1>2, <3>1, <3>2 DEF Underway
  <2> QED BY <2>1, <2>2
<1>8. e.outcome = IF Promise!NothingLeft(eng.linesSentCount + 1, eng.currentLineIndex)
                  THEN "completed" ELSE "pending"
    BY <1>5 DEF Going
<1> QED BY <1>1, <1>2, <1>4, <1>5, <1>7, <1>8 DEF Promise!Dispose

LEMMA ErrorDisposes ==
    ASSUME TypeOK, NEW t \in Tick, Only(t), ticks[t].at # "idle", Going(eng, history),
           HandleSendError(t), opt' = opt
    PROVE  [Promise!Next]_(Promise!vars) /\ Underway(eng', history')
<1>1. /\ opt \in Options /\ eng \in EngineType /\ HasWindow /\ eng.outcome = "pending"
      /\ ticks[t].sentThisTick + 1 \in Nat /\ eng.linesSentCount \in Nat
      /\ eng.currentLineIndex = Following(history)
      /\ ~ LimitReached(opt, eng.linesSentCount) /\ eng.isSending /\ eng.interval
    BY DEF TypeOK, TickType, EngineType, Going
<1>2. CASE opt.onError = "continue"
  <2> DEFINE e == MoveOn(eng)
             h == Append(history, [record |-> eng.currentLineIndex, fate |-> "skipped"])
  <2>1. NextLine(t, e, ticks[t].sentThisTick + 1) /\ history' = h
      BY <1>2 DEF HandleSendError
  <2>2. /\ Promise!Window = StartIndex .. EndIndex /\ Promise!Window # {}
        /\ Promise!Position(history) = eng.currentLineIndex
      BY <1>1, WindowFacts
  <2>3. Promise!NothingLeft(eng.linesSentCount, eng.currentLineIndex)
            <=> ~ opt.loop /\ eng.currentLineIndex + 1 \notin StartIndex .. EndIndex
      BY <1>1, <2>2 DEF Promise!NothingLeft, Promise!LimitReached, LimitReached
  <2>4. /\ e.linesSentCount = eng.linesSentCount
        /\ IF ~ opt.loop /\ eng.currentLineIndex + 1 \notin StartIndex .. EndIndex
           THEN e.outcome = "completed" /\ Over(e) /\ e.currentLineIndex > EndIndex
           ELSE Going(e, h)
      BY <1>1, FollowingBounds, MoveOnFollows DEF Fates
  <2>5. e \in EngineType
      BY <1>1, MethodTypes
  <2> HIDE DEF e
  <2>6. CASE Promise!NothingLeft(eng.linesSentCount, eng.currentLineIndex)
    <3>1. /\ e.outcome = "completed" /\ Over(e) /\ e.currentLineIndex > EndIndex
          /\ ~ opt.loop
        BY <2>3, <2>4, <2>6
    <3>2. shouldCompleteBeforeSend(e) /\ Settle(e, "completed") = e
        BY <3>1 DEF shouldCompleteBeforeSend, Settle
    <3>3. EndTick(t, e)
        BY <2>1, <3>2 DEF NextLine
    <3>4. eng' = e /\ AllIdle'
        BY <2>5, <3>3, EndTickStep DEF EndTick, AllIdle
    <3>5. Promise!Dispose("skipped")
        BY <1>1, <2>1, <2>2, <2>4, <2>6, <3>1, <3>4 DEF Promise!Dispose
    <3> QED BY <3>1, <3>4, <3>5 DEF Underway, Promise!Next, Fates, Promise!Fates
  <2>7. CASE ~ Promise!NothingLeft(eng.linesSentCount, eng.currentLineIndex)
    <3>1. Going(e, h) /\ e.outcome = "pending"
        BY <2>3, <2>4, <2>7 DEF Going
    <3>2. eng' = e /\ LinesAreCurrent'
        BY <1>1, <2>1, <2>5, <3>1, NextLineGoing
    <3>3. Promise!Dispose("skipped")
        BY <1>1, <2>1, <2>2, <2>4, <2>7, <3>1, <3>2 DEF Promise!Dispose
    <3> QED BY <2>1, <3>1, <3>2, <3>3 DEF Underway, Promise!Next, Fates, Promise!Fates
  <2> QED BY <2>6, <2>7
<1>3. CASE opt.onError = "pause"
  <2>1. EndTick(t, Pause(eng)) /\ history' = history
      BY <1>3 DEF HandleSendError
  <2>2. Pause(eng) \in EngineType
      BY <1>1, MethodTypes
  <2>3. eng' = Pause(eng) /\ AllIdle'
      BY <2>1, <2>2, EndTickStep DEF EndTick, AllIdle
  <2>4. /\ eng'.outcome = "pending" /\ eng'.linesSentCount = eng.linesSentCount
        /\ ~ eng'.isSending /\ ~ eng'.interval
      BY <1>1, <2>3 DEF Pause, EngineType
  <2> QED BY <1>1, <2>1, <2>3, <2>4 DEF Underway, Over, Promise!vars
<1>4. CASE opt.onError = "exit"
  <2>1. EndTick(t, Settle(eng, "failed")) /\ history' = history
      BY <1>4 DEF HandleSendError
  <2>2. Settle(eng, "failed") \in EngineType
      BY <1>1, MethodTypes DEF Settled
  <2>3. eng' = Settle(eng, "failed") /\ AllIdle'
      BY <2>1, <2>2, EndTickStep DEF EndTick, AllIdle
  <2>4. /\ eng'.outcome = "failed" /\ eng'.linesSentCount = eng.linesSentCount
        /\ ~ eng'.isSending /\ ~ eng'.interval
      BY <1>1, <2>3 DEF Settle, EngineType
  <2>5. Promise!GiveUp
      BY <1>1, <2>1, <2>4 DEF Promise!GiveUp
  <2> QED BY <2>3, <2>4, <2>5 DEF Underway, Over, Promise!Next
<1> QED BY <1>2, <1>3, <1>4 DEF HandleSendError

\* The predicates of SessionInv read the options, which never change.
LEMMA UnderwayPrimed ==
    ASSUME opt' = opt, run' = "returned", Underway(eng', history')
    PROVE  SessionInv'
<1>1. Going(eng', history') => Going(eng, history)'
    BY DEF Going, HasWindow, StartIndex, EndIndex, Following, LimitReached
<1>2. Over(eng') => Over(eng)'
    BY DEF Over
<1> QED BY <1>1, <1>2 DEF Underway, SessionInv

\* Settling a pending run that is not scheduled.
LEMMA SettleEnds ==
    ASSUME NEW e \in EngineType, e.outcome = "pending", NEW status \in Settled
    PROVE  /\ Settle(e, status).outcome = status
           /\ Settle(e, status).linesSentCount = e.linesSentCount
           /\ Over(Settle(e, status))
    BY DEF Settle, Over, EngineType, Settled

\* run() after its connection: it settles, waits for a client or starts.
LEMMA StartRefines ==
    ASSUME TickInv, run # "returned", history = <<>>, history' = history, opt' = opt,
           eng.outcome = "pending", eng.linesSentCount = 0, HasWindow,
           NEW e \in EngineType, e.outcome = "pending", ~ e.isSending, ~ e.interval,
           e.linesSentCount = 0, e.currentLineIndex = StartIndex,
           StartSchedule(e) \/ ConnectionSettled(e)
    PROVE  [Promise!Next]_(Promise!vars) /\ SessionInv'
<1>1. TypeOK /\ opt \in Options /\ AllIdle /\ Only(1) /\ 1 \in Tick
    BY DEF TickInv, TypeOK, NothingBeforeSchedule, AllIdle, Only, Tick
<1>2. CASE StartSchedule(e)
  <2> DEFINE f == [e EXCEPT !.isSending = TRUE, !.interval = TRUE]
  <2>1. NextLine(1, f, 0) /\ run' = "returned"
      BY <1>2 DEF StartSchedule
  <2>2. /\ f \in EngineType /\ f.outcome = "pending" /\ f.isSending /\ f.interval
        /\ f.linesSentCount = 0 /\ f.currentLineIndex = StartIndex
      BY DEF EngineType
  <2> HIDE DEF f
  <2>3. ~ LimitReached(opt, 0)
      BY <1>1, OptionFacts DEF LimitReached
  <2>4. Going(f, history)
      BY <2>2, <2>3 DEF Going, Following
  <2>5. eng' = f /\ LinesAreCurrent'
      BY <1>1, <2>1, <2>2, <2>4, NextLineGoing
  <2>6. SessionInv'
      BY <2>1, <2>4, <2>5, UnderwayPrimed DEF Underway
  <2> QED BY <2>2, <2>5, <2>6 DEF Promise!vars
<1>3. ASSUME NEW status \in {"ready", "failed"}, RunReturns(Settle(e, status)),
             status = "ready" => ~ opt.autoStart
      PROVE  [Promise!Next]_(Promise!vars) /\ SessionInv'
  <2>1. /\ eng'.outcome = status /\ eng'.linesSentCount = 0 /\ Over(eng')
        /\ ticks' = ticks /\ run' = "returned"
      BY <1>3, SettleEnds DEF RunReturns, Settled
  <2>2. SessionInv'
      BY <1>1, <2>1, UnderwayPrimed DEF Underway, AllIdle
  <2>3. Promise!GetReady \/ Promise!GiveUp
      BY <1>3, <2>1 DEF Promise!GetReady, Promise!GiveUp
  <2> QED BY <2>2, <2>3 DEF Promise!Next
<1>4. ASSUME run' = "waiting", eng' = e
      PROVE  [Promise!Next]_(Promise!vars) /\ SessionInv'
  <2>1. SessionInv'
      BY <1>4 DEF SessionInv, HasWindow, StartIndex, EndIndex
  <2> QED BY <1>4, <2>1 DEF Promise!vars
<1> QED BY <1>2, <1>3, <1>4 DEF ConnectionSettled

LEMMA RunStepRefines ==
    ASSUME TickInv, SessionInv, RunStep
    PROVE  [Promise!Next]_(Promise!vars) /\ SessionInv'
<1>1. /\ run \in {"loading", "connecting", "waiting"} /\ opt' = opt /\ history' = history
    BY DEF RunStep, FileLoads, FileFails, ConnectResolves, ConnectRejects, WaitRejects,
       ghostVars
<1>2. /\ eng \in EngineType /\ StartIndex \in Nat
      /\ eng.outcome = "pending" /\ ~ eng.isSending /\ ~ eng.interval
      /\ eng.linesSentCount = 0 /\ history = <<>> /\ AllIdle
    BY <1>1, OptionFacts DEF SessionInv, TickInv, TypeOK, NothingBeforeSchedule, AllIdle
<1>3. ASSUME RunReturns(Settle(eng, "failed"))
      PROVE  [Promise!Next]_(Promise!vars) /\ SessionInv'
  <2>1. /\ eng'.outcome = "failed" /\ eng'.linesSentCount = 0 /\ Over(eng')
        /\ ticks' = ticks /\ run' = "returned"
      BY <1>2, <1>3, SettleEnds DEF RunReturns, Settled
  <2>2. SessionInv'
      BY <1>1, <1>2, <2>1, UnderwayPrimed DEF Underway, AllIdle
  <2>3. Promise!GiveUp
      BY <1>1, <1>2, <2>1 DEF Promise!GiveUp
  <2> QED BY <2>2, <2>3 DEF Promise!Next
<1>4. CASE FileLoads
  <2> DEFINE e == [eng EXCEPT !.currentLineIndex = StartIndex]
  <2>1. /\ e \in EngineType /\ e.outcome = "pending" /\ ~ e.isSending /\ ~ e.interval
        /\ e.linesSentCount = 0 /\ e.currentLineIndex = StartIndex
      BY <1>2 DEF EngineType
  <2>2. CASE HasWindow /\ run' = "connecting" /\ eng' = e
    <3> HIDE DEF e
    <3>1. SessionInv'
        BY <1>1, <1>2, <2>1, <2>2 DEF SessionInv, HasWindow, StartIndex, EndIndex
    <3> QED BY <1>1, <1>2, <2>1, <2>2, <3>1 DEF Promise!vars
  <2>3. CASE HasWindow /\ ConnectionSettled(e)
    <3> HIDE DEF e
    <3> QED BY <1>1, <1>2, <2>1, <2>3, StartRefines
  <2> QED BY <1>3, <1>4, <2>2, <2>3 DEF FileLoads
<1>5. CASE FileFails \/ ConnectRejects \/ WaitRejects
    BY <1>3, <1>5 DEF FileFails, ConnectRejects, WaitRejects
<1>6. CASE ConnectResolves
  <2>1. HasWindow /\ eng.currentLineIndex = StartIndex /\ ConnectionSettled(eng)
      BY <1>6 DEF ConnectResolves, SessionInv
  <2> QED BY <1>1, <1>2, <2>1, StartRefines
<1> QED BY <1>4, <1>5, <1>6 DEF RunStep

LEMMA TickStepRefines ==
    ASSUME TickInv, SessionInv, NEW t \in Tick, TickStep(t)
    PROVE  [Promise!Next]_(Promise!vars) /\ SessionInv'
<1>1. TypeOK /\ SingleTick /\ NothingBeforeSchedule
    BY DEF TickInv
<1>2. ticks[t].at # "idle" /\ Only(t)
    BY <1>1, SuspendedIsOnly DEF TickStep, SendDelivers, SendFindsNobody, SendIsUnwritten,
       SendRejects, ReconnectResolves, ReconnectRejects
<1>3. run = "returned" /\ Going(eng, history) /\ LinesAreCurrent /\ eng \in EngineType
    BY <1>1, <1>2 DEF SessionInv, NothingBeforeSchedule, AllIdle, TypeOK
<1>4. run' = "returned" /\ opt' = opt
    BY <1>3 DEF TickStep, SendDelivers, SendFindsNobody, SendIsUnwritten, SendRejects,
       ReconnectResolves, ReconnectRejects
<1>5. ASSUME NEW fate \in Fates, fate # "skipped", Sent(t, fate)
      PROVE  [Promise!Next]_(Promise!vars) /\ SessionInv'
    BY <1>1, <1>2, <1>3, <1>4, <1>5, SentDisposes, UnderwayPrimed
       DEF Promise!Next, Fates, Promise!Fates
<1>6. ASSUME EndTick(t, eng), history' = history
      PROVE  [Promise!Next]_(Promise!vars) /\ SessionInv'
  <2>1. eng' = eng /\ LinesAreCurrent'
      BY <1>1, <1>2, <1>3, <1>6, EndTickStep DEF EndTick, LinesAreCurrent
  <2> QED BY <1>3, <1>4, <1>6, <2>1, UnderwayPrimed DEF Underway, Promise!vars
<1>7. ASSUME HandleSendError(t)
      PROVE  [Promise!Next]_(Promise!vars) /\ SessionInv'
    BY <1>1, <1>2, <1>3, <1>4, <1>7, ErrorDisposes, UnderwayPrimed
<1>8. CASE SendDelivers(t)
    BY <1>5, <1>8 DEF SendDelivers, Fates
<1>9. CASE SendFindsNobody(t)
    BY <1>5, <1>6, <1>9 DEF SendFindsNobody, NobodyThere, Fates
<1>10. CASE SendIsUnwritten(t)
    BY <1>5, <1>10 DEF SendIsUnwritten, Fates
<1>11. ASSUME NEW arrived \in BOOLEAN, SendRejects(t, arrived)
       PROVE  [Promise!Next]_(Promise!vars) /\ SessionInv'
    BY <1>6, <1>7, <1>11 DEF SendRejects, RetryOnNextTick
<1>12. CASE ReconnectResolves(t)
  <2>1. /\ eng' = eng /\ history' = history
        /\ ticks' = [ticks EXCEPT ![t].at = "sending", ![t].live = TRUE]
      BY <1>12 DEF ReconnectResolves, ghostVars
  <2>2. LinesAreCurrent'
      BY <1>1, <1>2, <1>3, <2>1 DEF LinesAreCurrent, TypeOK, TickType
  <2> QED BY <1>3, <1>4, <2>1, <2>2, UnderwayPrimed DEF Underway, Promise!vars
<1>13. CASE ReconnectRejects(t)
    BY <1>7, <1>13 DEF ReconnectRejects
<1> QED BY <1>8, <1>9, <1>10, <1>11, <1>12, <1>13 DEF TickStep

LEMMA EnvironmentRefines ==
    ASSUME ~ ExternalControl, TickInv, SessionInv, Environment
    PROVE  [Promise!Next]_(Promise!vars) /\ SessionInv'
<1>1. CASE RecipientJoins /\ run = "waiting"
  <2>1. /\ eng \in EngineType /\ eng.outcome = "pending" /\ ~ eng.isSending /\ ~ eng.interval
        /\ eng.linesSentCount = 0 /\ history = <<>> /\ HasWindow
        /\ eng.currentLineIndex = StartIndex
      BY <1>1 DEF SessionInv, TickInv, TypeOK
  <2>2. StartSchedule(eng) /\ opt' = opt /\ history' = history
      BY <1>1 DEF RecipientJoins, ghostVars
  <2> QED BY <1>1, <2>1, <2>2, StartRefines
<1>2. ASSUME UNCHANGED <<opt, eng, run, ticks, tickInFlight, ghostVars>>
      PROVE  [Promise!Next]_(Promise!vars) /\ SessionInv'
    BY <1>2 DEF Promise!vars, ghostVars, SessionInv, HasWindow, StartIndex, EndIndex, Going,
       Following, LimitReached, Over, AllIdle, LinesAreCurrent
<1>3. CASE RecipientJoins /\ run # "waiting"
    BY <1>2, <1>3 DEF RecipientJoins
<1>4. CASE RecipientLeaves \/ ConnectionLost
    BY <1>2, <1>4 DEF RecipientLeaves, ConnectionLost
<1> QED BY <1>1, <1>3, <1>4 DEF Environment, ExternalStop, ExternalPause

LEMMA SessionInvInit == Init => Promise!Init /\ SessionInv
    BY DEF Init, Promise!Init, SessionInv

LEMMA NextRefines ==
    ASSUME ~ ExternalControl, TickInv, SessionInv, [Next]_vars
    PROVE  [Promise!Next]_(Promise!vars) /\ SessionInv'
<1>1. TypeOK
    BY DEF TickInv
<1>2. CASE Run
  <2>1. /\ run = "idle" /\ run' = "loading" /\ opt' = opt /\ history' = history
        /\ eng' = [eng EXCEPT !.outcome = "pending"] /\ eng \in EngineType
      BY <1>1, <1>2 DEF Run, ghostVars, TypeOK
  <2>2. /\ eng'.outcome = "pending" /\ eng'.linesSentCount = eng.linesSentCount
        /\ eng'.isSending = eng.isSending /\ eng'.interval = eng.interval
      BY <2>1 DEF EngineType
  <2>3. /\ eng.outcome = "none" /\ ~ eng.isSending /\ ~ eng.interval
        /\ eng.linesSentCount = 0 /\ history = <<>>
      BY <2>1 DEF SessionInv
  <2>4. Promise!Begin
      BY <2>1, <2>2, <2>3 DEF Promise!Begin
  <2>5. SessionInv'
      BY <2>1, <2>2, <2>3 DEF SessionInv
  <2> QED BY <2>4, <2>5 DEF Promise!Next
<1>3. CASE RunStep
    BY <1>3, RunStepRefines
<1>4. ASSUME NEW t \in Tick, TickStep(t)
      PROVE  [Promise!Next]_(Promise!vars) /\ SessionInv'
    BY <1>4, TickStepRefines
<1>5. ASSUME NEW t \in Tick, IntervalFires(t)
      PROVE  [Promise!Next]_(Promise!vars) /\ SessionInv'
  <2>1. run = "returned" /\ Going(eng, history) /\ eng \in EngineType /\ Only(t)
      BY <1>1, <1>5 DEF IntervalFires, IntervalRuns, SessionInv, Over, TypeOK, TickInv,
         FlagIsAccurate, Only
  <2>2. /\ NextLine(t, eng, 0) /\ opt' = opt /\ history' = history /\ run' = run
      BY <1>5 DEF IntervalFires, ghostVars
  <2>3. eng' = eng /\ LinesAreCurrent'
      BY <1>1, <2>1, <2>2, NextLineGoing
  <2> QED BY <2>1, <2>2, <2>3, UnderwayPrimed DEF Underway, Promise!vars
<1>6. CASE Environment
    BY <1>6, EnvironmentRefines
<1>7. CASE UNCHANGED vars
    BY <1>7 DEF vars, ghostVars, Promise!vars, SessionInv, HasWindow, StartIndex, EndIndex,
       Going, Following, LimitReached, Over, AllIdle, LinesAreCurrent
<1> QED BY <1>2, <1>3, <1>4, <1>5, <1>6, <1>7 DEF Next

\* Once the scheduler is off, no tick is suspended that would go on sending:
\* for a session that is not stopped or paused from outside.
THEOREM QuietSession ==
    ASSUME ~ ExternalControl
    PROVE  Spec => []QuietWhenNotSending
<1>1. Init => TickInv /\ SessionInv
    BY TickInvInit, SessionInvInit
<1>2. TickInv /\ SessionInv /\ [Next]_vars => (TickInv /\ SessionInv)'
    BY TickInvInductive, NextRefines
<1>3. TickInv /\ SessionInv => QuietWhenNotSending
    BY DEF SessionInv, QuietWhenNotSending, Over, Going, AllIdle
<1> QED BY <1>1, <1>2, <1>3, PTL DEF Spec

\* The engine implements Replay: every record of the window is disposed of in
\* order, and run() settles once, as completed exactly when nothing is left.
THEOREM EngineImplementsReplay ==
    ASSUME ~ ExternalControl
    PROVE  Spec => ImplementsReplay
<1>1. Init => TickInv /\ SessionInv /\ Promise!Init
    BY TickInvInit, SessionInvInit
<1>2. TickInv /\ SessionInv /\ [Next]_vars => (TickInv /\ SessionInv)'
    BY TickInvInductive, NextRefines
<1>3. TickInv /\ SessionInv /\ [Next]_vars => [Promise!Next]_(Promise!vars)
    BY NextRefines
<1> QED BY <1>1, <1>2, <1>3, PTL DEF Spec, ImplementsReplay, Promise!Spec

-----------------------------------------------------------------------------
(* What becomes of the records: none is lost behind the cursor, and what a  *)
(* recipient sees is in the order of the file.                              *)

\* Nothing is suspended and no timer runs: the line at the cursor is not sent again.
Stopped == run = "returned" /\ ~ eng.interval /\ AllIdle

\* What was received lies behind the cursor; the line at the cursor itself was
\* received only by a client that is to send it again, or by a session that ended
\* on the error its send reported.
ReceivedBehind ==
    ~ opt.loop =>
        \A i \in DOMAIN received :
            \/ received[i] < eng.currentLineIndex
            \/ /\ received[i] = eng.currentLineIndex
               /\ opt.connectWaitForServer \/ Stopped

NothingReceivedYet == run # "returned" => received = <<>>

RecordsInv == /\ NothingReceivedYet
              /\ ReceivedBehind
              /\ WaitForClientLosesNothing
              /\ RetryLosesNothing
              /\ ReceivedInOrder

\* The line at the cursor reaches the recipient (arrived) or does not.
Reaches(arrived) ==
    received' = IF arrived THEN Append(received, eng.currentLineIndex) ELSE received

\* The cursor passes the line, which met the given fate.
Passes(fate, arrived) ==
    /\ history' = Append(history, [record |-> eng.currentLineIndex, fate |-> fate])
    /\ ~ opt.loop => eng'.currentLineIndex = eng.currentLineIndex + 1
    /\ opt.waitForClient => fate \in {"delivered", "skipped"}
    /\ opt.connectWaitForServer /\ opt.onError # "continue" => arrived
    /\ fate = "delivered" => arrived
    /\ fate = "skipped" => opt.onError = "continue"

\* The cursor stays on the line, to send it again or because the session ended.
HoldsBack(arrived) ==
    /\ history' = history
    /\ eng'.currentLineIndex = eng.currentLineIndex
    /\ arrived => opt.connectWaitForServer \/ Stopped'

LEMMA CursorMoves ==
    ASSUME NEW e \in EngineType
    PROVE  /\ \A status : Settle(e, status).currentLineIndex = e.currentLineIndex
           /\ Pause(e).currentLineIndex = e.currentLineIndex
           /\ ~ opt.loop =>
                  /\ MoveOn(e).currentLineIndex = e.currentLineIndex + 1
                  /\ advanceAfterSuccessfulSend(e).currentLineIndex = e.currentLineIndex + 1
<1>1. \A f \in EngineType : \A status : Settle(f, status).currentLineIndex = f.currentLineIndex
    BY DEF Settle, EngineType
<1>2. Pause(e).currentLineIndex = e.currentLineIndex
    BY DEF Pause, EngineType
<1>3. \A f \in EngineType :
          /\ [f EXCEPT !.currentLineIndex = @ + 1] \in EngineType
          /\ [f EXCEPT !.currentLineIndex = @ + 1].currentLineIndex = f.currentLineIndex + 1
    BY DEF EngineType
<1>4. ~ opt.loop => \A f \in EngineType : MoveOn(f).currentLineIndex = f.currentLineIndex + 1
    BY <1>1, <1>3 DEF MoveOn
<1>5. /\ [e EXCEPT !.linesSentCount = @ + 1] \in EngineType
      /\ [e EXCEPT !.linesSentCount = @ + 1].currentLineIndex = e.currentLineIndex
    BY DEF EngineType
<1>6. ~ opt.loop =>
          advanceAfterSuccessfulSend(e).currentLineIndex = e.currentLineIndex + 1
    BY <1>1, <1>3, <1>4, <1>5 DEF advanceAfterSuccessfulSend
<1> QED BY <1>1, <1>2, <1>4, <1>6

LEMMA NextLineCursor ==
    ASSUME NEW t \in Tick, NEW e \in EngineType, NEW n, NextLine(t, e, n)
    PROVE  eng'.currentLineIndex = e.currentLineIndex
    BY CursorMoves DEF NextLine, EndTick

LEMMA SentPasses ==
    ASSUME TypeOK, NEW t \in Tick, ticks[t].line = eng.currentLineIndex,
           NEW fate \in Fates, Sent(t, fate)
    PROVE  /\ history' = Append(history, [record |-> eng.currentLineIndex, fate |-> fate])
           /\ ~ opt.loop => eng'.currentLineIndex = eng.currentLineIndex + 1
<1> DEFINE e == advanceAfterSuccessfulSend(eng)
<1>1. opt \in Options /\ eng \in EngineType
    BY DEF TypeOK
<1>2. e \in EngineType /\ (~ opt.loop => e.currentLineIndex = eng.currentLineIndex + 1)
    BY <1>1, MethodTypes, CursorMoves
<1>3. EndTick(t, e) \/ NextLine(t, e, ticks[t].sentThisTick + 1)
    BY DEF Sent
<1>4. history' = Append(history, [record |-> eng.currentLineIndex, fate |-> fate])
    BY DEF Sent
<1> HIDE DEF e
<1>5. eng'.currentLineIndex = e.currentLineIndex
    BY <1>2, <1>3, NextLineCursor DEF EndTick
<1> QED BY <1>2, <1>4, <1>5

LEMMA ErrorPassesOrStops ==
    ASSUME TypeOK, run' = "returned", NEW t \in Tick, Only(t), HandleSendError(t),
           eng.outcome = "pending", NEW arrived \in BOOLEAN
    PROVE  HoldsBack(arrived) \/ Passes("skipped", arrived)
<1>1. opt \in Options /\ eng \in EngineType
    BY DEF TypeOK
<1>2. /\ MoveOn(eng) \in EngineType /\ Pause(eng) \in EngineType
      /\ Settle(eng, "failed") \in EngineType
    BY <1>1, MethodTypes DEF Settled
<1>3. CASE opt.onError = "continue"
  <2>1. /\ NextLine(t, MoveOn(eng), ticks[t].sentThisTick + 1)
        /\ history' = Append(history, [record |-> eng.currentLineIndex, fate |-> "skipped"])
      BY <1>3 DEF HandleSendError
  <2>2. eng'.currentLineIndex = MoveOn(eng).currentLineIndex
      BY <1>2, <2>1, NextLineCursor
  <2>3. ~ opt.loop => eng'.currentLineIndex = eng.currentLineIndex + 1
      BY <1>1, <2>2, CursorMoves
  <2> QED BY <1>3, <2>1, <2>3 DEF Passes
<1>4. ASSUME NEW e \in EngineType, EndTick(t, e), history' = history, ~ e.interval,
             e.currentLineIndex = eng.currentLineIndex
      PROVE  HoldsBack(arrived)
  <2>1. eng' = e /\ AllIdle'
      BY <1>4, EndTickStep DEF EndTick, AllIdle
  <2> QED BY <1>4, <2>1 DEF HoldsBack, Stopped
<1>5. CASE opt.onError = "pause"
  <2>1. ~ Pause(eng).interval /\ Pause(eng).currentLineIndex = eng.currentLineIndex
      BY <1>1, CursorMoves DEF Pause, EngineType
  <2> QED BY <1>2, <1>4, <1>5, <2>1 DEF HandleSendError
<1>6. CASE opt.onError = "exit"
  <2>1. /\ ~ Settle(eng, "failed").interval
        /\ Settle(eng, "failed").currentLineIndex = eng.currentLineIndex
      BY <1>1, CursorMoves DEF Settle, EngineType
  <2> QED BY <1>2, <1>4, <1>6, <2>1 DEF HandleSendError
<1> QED BY <1>3, <1>5, <1>6 DEF HandleSendError

\* What a suspended tick's step does to the line at the cursor.
LEMMA TickStepPassesOrHolds ==
    ASSUME ~ UnwrittenSends, TickInv, SessionInv, NEW t \in Tick, TickStep(t)
    PROVE  /\ ~ Stopped /\ opt' = opt /\ run = "returned" /\ run' = "returned"
           /\ \E arrived \in BOOLEAN :
                  /\ Reaches(arrived)
                  /\ HoldsBack(arrived) \/ \E fate \in Fates : Passes(fate, arrived)
<1>1. TypeOK /\ SingleTick /\ NothingBeforeSchedule
    BY DEF TickInv
<1>2. ticks[t].at # "idle" /\ Only(t)
    BY <1>1, SuspendedIsOnly DEF TickStep, SendDelivers, SendFindsNobody, SendIsUnwritten,
       SendRejects, ReconnectResolves, ReconnectRejects
<1>3. /\ run = "returned" /\ eng.outcome = "pending" /\ ~ Stopped
      /\ ticks[t].line = eng.currentLineIndex /\ opt \in Options /\ eng \in EngineType
    BY <1>1, <1>2 DEF SessionInv, NothingBeforeSchedule, AllIdle, TypeOK, Going,
       LinesAreCurrent, Stopped
<1>4. run' = "returned" /\ opt' = opt
    BY <1>3 DEF TickStep, SendDelivers, SendFindsNobody, SendIsUnwritten, SendRejects,
       ReconnectResolves, ReconnectRejects
<1>5. Normalised(opt) /\ opt \in OptionType
    BY <1>3, EngineAssumption
<1> DEFINE Explained == \E arrived \in BOOLEAN :
               /\ Reaches(arrived)
               /\ HoldsBack(arrived) \/ \E fate \in Fates : Passes(fate, arrived)
<1>6. ASSUME NEW arrived \in BOOLEAN, Reaches(arrived),
             HoldsBack(arrived) \/ \E fate \in Fates : Passes(fate, arrived)
      PROVE  Explained
    BY <1>6
<1>7. TRUE \in BOOLEAN /\ FALSE \in BOOLEAN
    OBVIOUS
<1> HIDE DEF Explained
<1>8. ASSUME SendDelivers(t)
      PROVE  Explained
  <2>1. Reaches(TRUE) /\ Sent(t, "delivered")
      BY <1>3, <1>8 DEF SendDelivers, Reaches
  <2>2. "delivered" \in Fates
      BY DEF Fates
  <2>3. Passes("delivered", TRUE)
      BY <1>1, <1>3, <2>1, <2>2, SentPasses DEF Passes
  <2> QED BY <1>6, <1>7, <2>1, <2>2, <2>3
<1>9. ASSUME SendFindsNobody(t)
      PROVE  Explained
  <2>1. opt.mode = "server" /\ Reaches(FALSE) /\ NobodyThere(t)
      BY <1>9 DEF SendFindsNobody, Reaches
  <2>2. CASE opt.waitForClient
    <3>1. EndTick(t, eng) /\ history' = history
        BY <2>1, <2>2 DEF NobodyThere
    <3>2. HoldsBack(FALSE)
        BY <3>1 DEF EndTick, HoldsBack
    <3> QED BY <1>6, <1>7, <2>1, <3>2
  <2>3. CASE ~ opt.waitForClient
    <3>1. Sent(t, "nobody") /\ "nobody" \in Fates
        BY <2>1, <2>3 DEF NobodyThere, Fates
    <3>2. ~ opt.connectWaitForServer
        BY <1>5, <2>1 DEF Normalised
    <3>3. Passes("nobody", FALSE)
        BY <1>1, <1>3, <2>3, <3>1, <3>2, SentPasses DEF Passes
    <3> QED BY <1>6, <1>7, <2>1, <3>1, <3>3
  <2> QED BY <2>2, <2>3
<1>10. ASSUME SendIsUnwritten(t)
      PROVE  Explained
    BY <1>10 DEF SendIsUnwritten
<1>11. ASSUME NEW arrived \in BOOLEAN, HandleSendError(t), Reaches(arrived)
      PROVE  Explained
    BY <1>1, <1>2, <1>3, <1>4, <1>11, <1>6, ErrorPassesOrStops DEF Fates
<1>12. ASSUME NEW arrived \in BOOLEAN, SendRejects(t, arrived)
       PROVE  Explained
  <2>1. Reaches(arrived)
      BY <1>3, <1>12 DEF SendRejects, Reaches
  <2>2. CASE MayReconnect /\ RetryOnNextTick(t)
    <3>1. opt.connectWaitForServer /\ EndTick(t, eng) /\ history' = history
        BY <2>2 DEF MayReconnect, RetryOnNextTick
    <3>2. HoldsBack(arrived)
        BY <3>1 DEF EndTick, HoldsBack
    <3> QED BY <1>6, <1>7, <2>1, <3>2
  <2> QED BY <1>11, <1>12, <2>1, <2>2 DEF SendRejects
<1>13. ASSUME ReconnectResolves(t)
       PROVE  Explained
  <2>1. Reaches(FALSE) /\ HoldsBack(FALSE)
      BY <1>13 DEF ReconnectResolves, ghostVars, Reaches, HoldsBack
  <2> QED BY <1>6, <1>7, <2>1
<1>14. ASSUME ReconnectRejects(t)
       PROVE  Explained
  <2>1. Reaches(FALSE) /\ HandleSendError(t)
      BY <1>14 DEF ReconnectRejects, Reaches
  <2> QED BY <1>11, <1>7, <2>1
<1>15. Explained
    BY <1>8, <1>9, <1>10, <1>12, <1>13, <1>14 DEF TickStep
<1> QED BY <1>3, <1>4, <1>15 DEF Explained

\* The sequence of received lines, one longer or as it was.
LEMMA ReachesFacts ==
    ASSUME TypeOK, NEW arrived \in BOOLEAN, Reaches(arrived)
    PROVE  LET n == Len(received)
           IN  /\ n \in Nat /\ DOMAIN received = 1 .. n
               /\ DOMAIN received' = 1 .. (IF arrived THEN n + 1 ELSE n)
               /\ \A i \in 1 .. n : received'[i] = received[i] /\ received[i] \in Nat
               /\ arrived => received'[n + 1] = eng.currentLineIndex
<1>1. received \in Seq(Nat) /\ eng.currentLineIndex \in Nat
    BY DEF TypeOK, EngineType
<1>2. CASE arrived
    BY <1>1, <1>2 DEF Reaches
<1>3. CASE ~ arrived
    BY <1>1, <1>3 DEF Reaches
<1> QED BY <1>2, <1>3

\* A line that arrives comes after every line received, or repeats the last one.
LEMMA ReachesInOrder ==
    ASSUME TypeOK, ReceivedBehind, ReceivedInOrder, ~ Stopped, opt' = opt,
           NEW arrived \in BOOLEAN, Reaches(arrived)
    PROVE  ReceivedInOrder'
<1> DEFINE n == Len(received)
<1>1. SUFFICES ASSUME ~ opt.loop, NEW i \in DOMAIN received', NEW j \in DOMAIN received',
                      i < j
               PROVE  \/ received'[i] < received'[j]
                      \/ opt.connectWaitForServer /\ received'[i] = received'[j]
    BY DEF ReceivedInOrder
<1>2. /\ n \in Nat /\ DOMAIN received = 1 .. n
      /\ DOMAIN received' = 1 .. (IF arrived THEN n + 1 ELSE n)
      /\ \A k \in 1 .. n : received'[k] = received[k] /\ received[k] \in Nat
      /\ arrived => received'[n + 1] = eng.currentLineIndex
    BY ReachesFacts
<1> HIDE DEF n
<1>3. CASE j \in 1 .. n
  <2>1. i \in 1 .. n
      BY <1>1, <1>2, <1>3
  <2> QED BY <1>1, <1>2, <1>3, <2>1 DEF ReceivedInOrder
<1>4. CASE j \notin 1 .. n
  <2>1. arrived /\ j = n + 1 /\ i \in 1 .. n
      BY <1>1, <1>2, <1>4
  <2>2. \/ received[i] < eng.currentLineIndex
        \/ received[i] = eng.currentLineIndex /\ opt.connectWaitForServer
      BY <1>1, <1>2, <2>1 DEF ReceivedBehind
  <2> QED BY <1>2, <2>1, <2>2
<1> QED BY <1>3, <1>4

LEMMA TickStepKeepsRecords ==
    ASSUME ~ UnwrittenSends, TickInv, SessionInv, RecordsInv, NEW t \in Tick, TickStep(t)
    PROVE  RecordsInv'
<1>1. /\ ~ Stopped /\ opt' = opt /\ run' = "returned" /\ TypeOK
      /\ eng.currentLineIndex \in Nat /\ history \in Seq([record : Nat, fate : Fates])
    BY TickStepPassesOrHolds DEF TickInv, TypeOK, EngineType
<1>2. PICK arrived \in BOOLEAN :
          /\ Reaches(arrived)
          /\ HoldsBack(arrived) \/ \E fate \in Fates : Passes(fate, arrived)
    BY TickStepPassesOrHolds
<1> DEFINE n == Len(received)
<1>3. /\ n \in Nat /\ DOMAIN received = 1 .. n
      /\ DOMAIN received' = 1 .. (IF arrived THEN n + 1 ELSE n)
      /\ \A k \in 1 .. n : received'[k] = received[k] /\ received[k] \in Nat
      /\ arrived => received'[n + 1] = eng.currentLineIndex
    BY <1>1, <1>2, ReachesFacts
<1> HIDE DEF n
<1>4. ReceivedInOrder'
    BY <1>1, <1>2, ReachesInOrder DEF RecordsInv
<1>5. \A i \in 1 .. n : ~ opt.loop =>
          \/ received[i] < eng.currentLineIndex
          \/ received[i] = eng.currentLineIndex /\ opt.connectWaitForServer
    BY <1>1, <1>3 DEF RecordsInv, ReceivedBehind
<1>6. CASE HoldsBack(arrived)
  <2>1. ReceivedBehind'
    <3>1. SUFFICES ASSUME ~ opt.loop, NEW i \in DOMAIN received'
                   PROVE  \/ received'[i] < eng'.currentLineIndex
                          \/ /\ received'[i] = eng'.currentLineIndex
                             /\ opt.connectWaitForServer \/ Stopped'
        BY <1>1 DEF ReceivedBehind
    <3>2. CASE i \in 1 .. n
        BY <1>3, <1>5, <1>6, <3>1, <3>2 DEF HoldsBack
    <3>3. CASE arrived /\ i = n + 1
        BY <1>3, <1>6, <3>3 DEF HoldsBack
    <3> QED BY <1>3, <3>1, <3>2, <3>3
  <2>2. WaitForClientLosesNothing'
      BY <1>1, <1>6 DEF HoldsBack, RecordsInv, WaitForClientLosesNothing
  <2>3. RetryLosesNothing'
    <3>1. \A k \in DOMAIN received : k \in DOMAIN received' /\ received'[k] = received[k]
        BY <1>3
    <3> QED BY <1>1, <1>6, <3>1 DEF HoldsBack, RecordsInv, RetryLosesNothing, StartIndex
  <2> QED BY <1>1, <1>4, <2>1, <2>2, <2>3 DEF RecordsInv, NothingReceivedYet
<1>7. ASSUME NEW fate \in Fates, Passes(fate, arrived)
      PROVE  RecordsInv'
  <2>1. ReceivedBehind'
    <3>1. SUFFICES ASSUME ~ opt.loop, NEW i \in DOMAIN received'
                   PROVE  received'[i] < eng'.currentLineIndex
        BY <1>1 DEF ReceivedBehind
    <3>2. eng'.currentLineIndex = eng.currentLineIndex + 1
        BY <1>7, <3>1 DEF Passes
    <3>3. CASE i \in 1 .. n
        BY <1>1, <1>3, <1>5, <3>1, <3>2, <3>3
    <3>4. CASE arrived /\ i = n + 1
        BY <1>1, <1>3, <3>2, <3>4
    <3> QED BY <1>3, <3>1, <3>3, <3>4
  <2>2. WaitForClientLosesNothing'
    <3>1. SUFFICES ASSUME opt.waitForClient, NEW i \in DOMAIN history'
                   PROVE  history'[i].fate \in {"delivered", "skipped"}
        BY <1>1 DEF WaitForClientLosesNothing
    <3>2. /\ history' = Append(history, [record |-> eng.currentLineIndex, fate |-> fate])
          /\ fate \in {"delivered", "skipped"}
        BY <1>7, <3>1 DEF Passes
    <3>3. /\ Len(history') = Len(history) + 1
          /\ \A k \in 1 .. Len(history) : history'[k] = history[k]
          /\ history' \in Seq([record : Nat, fate : Fates])
        BY <1>1, <3>2
    <3>4. CASE i = Len(history) + 1
        BY <1>1, <3>2, <3>4
    <3>5. CASE i \in 1 .. Len(history)
        BY <1>1, <3>1, <3>3, <3>5 DEF RecordsInv, WaitForClientLosesNothing
    <3> QED BY <1>1, <3>1, <3>3, <3>4, <3>5
  <2>3. RetryLosesNothing'
    <3>1. SUFFICES ASSUME opt.connectWaitForServer, opt.onError # "continue", ~ opt.loop,
                          NEW r \in StartIndex .. (eng'.currentLineIndex - 1)
                   PROVE  \E i \in DOMAIN received' : received'[i] = r
        BY <1>1 DEF RetryLosesNothing, StartIndex
    <3>2. eng'.currentLineIndex = eng.currentLineIndex + 1 /\ arrived
        BY <1>7, <3>1 DEF Passes
    <3>3. StartIndex \in Nat
        BY <1>1, OptionFacts DEF TypeOK
    <3>4. r = eng.currentLineIndex \/ r \in StartIndex .. (eng.currentLineIndex - 1)
        BY <1>1, <3>1, <3>2, <3>3
    <3>5. CASE r = eng.currentLineIndex
        BY <1>3, <3>2, <3>5
    <3>6. CASE r \in StartIndex .. (eng.currentLineIndex - 1)
      <4>1. PICK i \in DOMAIN received : received[i] = r
          BY <3>1, <3>6 DEF RecordsInv, RetryLosesNothing
      <4> QED BY <1>3, <4>1
    <3> QED BY <3>4, <3>5, <3>6
  <2> QED BY <1>1, <1>4, <2>1, <2>2, <2>3 DEF RecordsInv, NothingReceivedYet
<1> QED BY <1>2, <1>6, <1>7

\* A step that leaves the records and the cursor alone, and restarts nothing.
LEMMA StillKeepsRecords ==
    ASSUME RecordsInv, opt' = opt, received' = received, history' = history,
           eng'.currentLineIndex = eng.currentLineIndex,
           run # "returned" \/ (run' = run /\ (Stopped => Stopped'))
    PROVE  RecordsInv'
<1>1. NothingReceivedYet'
    BY DEF RecordsInv, NothingReceivedYet
<1>2. ReceivedBehind'
  <2>1. CASE run # "returned"
      BY <2>1 DEF RecordsInv, NothingReceivedYet, ReceivedBehind
  <2>2. CASE run' = run /\ (Stopped => Stopped')
      BY <2>2 DEF RecordsInv, ReceivedBehind
  <2> QED BY <2>1, <2>2
<1>3. WaitForClientLosesNothing' /\ RetryLosesNothing' /\ ReceivedInOrder'
    BY DEF RecordsInv, WaitForClientLosesNothing, RetryLosesNothing, ReceivedInOrder,
       StartIndex
<1> QED BY <1>1, <1>2, <1>3 DEF RecordsInv

\* Before the first line is sent nothing was received, wherever the cursor starts.
LEMMA RunStepKeepsRecords ==
    ASSUME TickInv, SessionInv, RecordsInv, RunStep
    PROVE  RecordsInv'
<1>1. /\ run # "returned" /\ received = <<>> /\ history = <<>> /\ opt' = opt
      /\ received' = <<>> /\ history' = <<>> /\ opt \in Options /\ eng \in EngineType
    BY DEF RunStep, FileLoads, FileFails, ConnectResolves, ConnectRejects, WaitRejects,
       ghostVars, SessionInv, RecordsInv, NothingReceivedYet, TickInv, TypeOK
<1>2. ASSUME NEW e \in EngineType, ConnectionSettled(e) \/ RunReturns(Settle(e, "failed"))
      PROVE  eng'.currentLineIndex = e.currentLineIndex
  <2>1. [e EXCEPT !.isSending = TRUE, !.interval = TRUE] \in EngineType
      BY <1>2 DEF EngineType
  <2>2. [e EXCEPT !.isSending = TRUE, !.interval = TRUE].currentLineIndex = e.currentLineIndex
      BY <1>2 DEF EngineType
  <2>3. ASSUME StartSchedule(e)
        PROVE  eng'.currentLineIndex = e.currentLineIndex
    <3>1. CASE eng' = e
        BY <3>1
    <3>2. CASE NextLine(1, [e EXCEPT !.isSending = TRUE, !.interval = TRUE], 0)
        BY <2>1, <2>2, <3>2, NextLineCursor DEF Tick
    <3> QED BY <2>3, <3>1, <3>2 DEF StartSchedule
  <2> QED BY <1>2, <2>3, CursorMoves DEF ConnectionSettled, RunReturns
<1>3. eng'.currentLineIndex \in {eng.currentLineIndex, StartIndex}
  <2> DEFINE e == [eng EXCEPT !.currentLineIndex = StartIndex]
  <2>1. e \in EngineType /\ e.currentLineIndex = StartIndex
      BY <1>1, OptionFacts DEF EngineType
  <2>2. CASE FileLoads
    <3> HIDE DEF e
    <3> QED BY <1>1, <1>2, <2>1, <2>2 DEF FileLoads, e
  <2> QED BY <1>1, <1>2, <2>2
          DEF RunStep, FileFails, ConnectResolves, ConnectRejects, WaitRejects
<1>4. RetryLosesNothing'
  <2>1. CASE eng'.currentLineIndex = eng.currentLineIndex
      BY <1>1, <2>1 DEF RecordsInv, RetryLosesNothing, StartIndex
  <2>2. CASE eng'.currentLineIndex = StartIndex
    <3>1. StartIndex \in Nat /\ StartIndex' = StartIndex
        BY <1>1, OptionFacts DEF StartIndex
    <3>2. StartIndex' .. (eng'.currentLineIndex - 1) = {}
        BY <2>2, <3>1
    <3> QED BY <3>2 DEF RetryLosesNothing
  <2> QED BY <1>3, <2>1, <2>2
<1>5. /\ NothingReceivedYet' /\ ReceivedBehind' /\ WaitForClientLosesNothing'
      /\ ReceivedInOrder'
    BY <1>1 DEF NothingReceivedYet, ReceivedBehind, WaitForClientLosesNothing, ReceivedInOrder
<1> QED BY <1>4, <1>5 DEF RecordsInv

LEMMA NextKeepsRecords ==
    ASSUME ~ ExternalControl, ~ UnwrittenSends, TickInv, SessionInv, RecordsInv, [Next]_vars
    PROVE  RecordsInv'
<1>1. TypeOK /\ opt \in Options /\ eng \in EngineType
    BY DEF TickInv, TypeOK
<1>2. CASE Run
  <2>1. /\ run # "returned" /\ opt' = opt /\ received' = received /\ history' = history
        /\ eng'.currentLineIndex = eng.currentLineIndex
      BY <1>1, <1>2 DEF Run, ghostVars, EngineType
  <2> QED BY <2>1, StillKeepsRecords
<1>3. CASE RunStep
    BY <1>3, RunStepKeepsRecords
<1>4. ASSUME NEW t \in Tick, TickStep(t)
      PROVE  RecordsInv'
    BY <1>4, TickStepKeepsRecords
<1>5. ASSUME NEW t \in Tick, IntervalFires(t)
      PROVE  RecordsInv'
  <2>1. /\ ~ Stopped /\ opt' = opt /\ received' = received /\ history' = history
        /\ run' = run /\ NextLine(t, eng, 0)
      BY <1>5 DEF IntervalFires, IntervalRuns, ghostVars, Stopped
  <2>2. eng'.currentLineIndex = eng.currentLineIndex
      BY <1>1, <2>1, NextLineCursor
  <2> QED BY <2>1, <2>2, StillKeepsRecords
<1>6. CASE RecipientJoins /\ run = "waiting"
  <2>1. /\ opt' = opt /\ received' = received /\ history' = history /\ StartSchedule(eng)
      BY <1>6 DEF RecipientJoins, ghostVars
  <2>2. /\ [eng EXCEPT !.isSending = TRUE, !.interval = TRUE] \in EngineType
        /\ [eng EXCEPT !.isSending = TRUE, !.interval = TRUE].currentLineIndex
               = eng.currentLineIndex
      BY <1>1 DEF EngineType
  <2>3. eng'.currentLineIndex = eng.currentLineIndex
      BY <2>1, <2>2, NextLineCursor DEF StartSchedule, Tick
  <2> QED BY <1>6, <2>1, <2>3, StillKeepsRecords
<1>7. ASSUME UNCHANGED <<opt, eng, run, ticks, ghostVars>>
      PROVE  RecordsInv'
  <2>1. Stopped' = Stopped /\ received' = received /\ history' = history
      BY <1>7 DEF Stopped, AllIdle, ghostVars
  <2> QED BY <1>7, <2>1, StillKeepsRecords
<1>8. CASE Environment
  <2>1. CASE RecipientJoins /\ run # "waiting"
      BY <1>7, <2>1 DEF RecipientJoins
  <2>2. CASE RecipientLeaves \/ ConnectionLost
      BY <1>7, <2>2 DEF RecipientLeaves, ConnectionLost
  <2> QED BY <1>6, <1>8, <2>1, <2>2 DEF Environment, ExternalStop, ExternalPause
<1>9. CASE UNCHANGED vars
    BY <1>7, <1>9 DEF vars
<1> QED BY <1>2, <1>3, <1>4, <1>5, <1>8, <1>9 DEF Next

\* Nothing was sent, and nothing lies behind the cursor.
LEMMA RecordsInvInit ==
    ASSUME Init
    PROVE  RecordsInv
<1>1. /\ received = <<>> /\ history = <<>> /\ eng.currentLineIndex = 0 /\ opt \in Options
    BY DEF Init
<1>2. StartIndex .. (eng.currentLineIndex - 1) = {}
    BY <1>1, OptionFacts
<1> QED BY <1>1, <1>2 DEF RecordsInv, NothingReceivedYet,
           ReceivedBehind, WaitForClientLosesNothing, RetryLosesNothing, ReceivedInOrder

\* A server that waits for clients counts no record nobody received, a client that
\* waits for its server leaves no record behind the cursor unreceived, and what a
\* recipient sees is in file order, repeated only by such a client: for every file,
\* window and option set, however often connections and recipients come and go.
\* Nobody stops or pauses the session from outside, and every send() that delivers
\* nothing says why: the two things the code around the engine may do otherwise.
THEOREM RecordsSurvive ==
    ASSUME ~ ExternalControl, ~ UnwrittenSends
    PROVE  Spec => []RecordsAreKept
<1>1. Init => TickInv /\ SessionInv /\ RecordsInv
    BY TickInvInit, SessionInvInit, RecordsInvInit
<1>2. /\ TickInv /\ SessionInv /\ RecordsInv /\ [Next]_vars
      => (TickInv /\ SessionInv /\ RecordsInv)'
    BY TickInvInductive, NextRefines, NextKeepsRecords
<1>3. TickInv /\ SessionInv /\ RecordsInv => RecordsAreKept
    BY DEF RecordsInv, RecordsAreKept
<1> QED BY <1>1, <1>2, <1>3, PTL DEF Spec

-----------------------------------------------------------------------------
(* How far the replay is: what the outcome of run() says of the records       *)
(* disposed of.                                                               *)

\* The promise's window is empty when there is nothing to replay.
LEMMA WindowMeansWindow ==
    ASSUME opt \in Options, Promise!Window # {}
    PROVE  HasWindow
<1>1. /\ opt.available \in Nat /\ opt.startLine \in Nat \ {0} /\ opt.endLine \in Nat
    BY OptionFacts DEF OptionType
<1> QED BY <1>1 DEF Promise!Window, HasWindow, StartIndex, EndIndex

InWindowOrder ==
    ~ opt.loop => \A i \in DOMAIN history : history[i].record = StartIndex + i - 1

\* How far the replay is, from what run() says of it and the records disposed of.
Progress ==
    /\ InWindowOrder
    /\ eng.outcome = "none" => history = <<>>
    /\ eng.outcome = "pending" /\ history # <<>> /\ ~ opt.loop =>
           StartIndex + Len(history) <= EndIndex
    /\ eng.outcome = "completed" /\ ~ opt.loop =>
           \/ LimitReached(opt, eng.linesSentCount)
           \/ Len(history) = EndIndex - StartIndex + 1
    /\ eng.outcome = "ready" => ~ opt.autoStart

LEMMA DisposeKeepsProgress ==
    ASSUME opt \in Options, history \in Seq([record : Nat, fate : Fates]), Progress,
           NEW fate \in Fates, Promise!Dispose(fate)
    PROVE  Progress'
<1>1. HasWindow /\ opt' = opt /\ eng.outcome = "pending"
    BY WindowMeansWindow DEF Promise!Dispose
<1>2. /\ StartIndex \in Nat /\ EndIndex \in Int /\ StartIndex <= EndIndex
      /\ StartIndex' = StartIndex /\ EndIndex' = EndIndex
    BY <1>1, OptionFacts DEF HasWindow, StartIndex, EndIndex
<1>3. /\ Promise!Window = StartIndex .. EndIndex
      /\ Promise!Position(history) = Following(history)
    BY <1>1, WindowFacts
<1>4. PICK r \in StartIndex .. EndIndex : r = Following(history)
    BY <1>1, FollowingBounds
<1>5. /\ history' = Append(history, [record |-> r, fate |-> fate])
      /\ eng'.outcome = IF Promise!NothingLeft(eng'.linesSentCount, r)
                        THEN "completed" ELSE "pending"
    BY <1>3, <1>4 DEF Promise!Dispose
<1>6. \A n : Promise!NothingLeft(n, r)
                 <=> LimitReached(opt, n) \/ (~ opt.loop /\ r + 1 \notin StartIndex .. EndIndex)
    BY <1>3 DEF Promise!NothingLeft, Promise!LimitReached, LimitReached
<1> DEFINE n == Len(history)
<1>7. n \in Nat /\ DOMAIN history = 1 .. n
    OBVIOUS
<1>8. /\ history' # <<>> /\ Len(history') = n + 1 /\ DOMAIN history' = 1 .. (n + 1)
      /\ history'[n + 1].record = r
      /\ \A i \in 1 .. n : history'[i] = history[i]
  <2>1. [record |-> r, fate |-> fate] \in [record : Nat, fate : Fates]
      BY <1>2
  <2> QED BY <1>5, <1>7, <2>1
<1>9. ~ opt.loop => r = StartIndex + n
  <2>1. SUFFICES ASSUME ~ opt.loop PROVE r = StartIndex + n
      OBVIOUS
  <2>2. CASE history = <<>>
      BY <1>2, <1>4, <2>2 DEF Following
  <2>3. CASE history # <<>>
    <3>1. n \in 1 .. n
        BY <1>7, <2>3
    <3>2. history[n].record = StartIndex + n - 1
        BY <1>7, <2>1, <3>1 DEF Progress, InWindowOrder
    <3>3. StartIndex + n <= EndIndex
        BY <1>1, <2>1, <2>3 DEF Progress
    <3> QED BY <1>2, <1>4, <1>7, <2>3, <3>2, <3>3 DEF Following
  <2> QED BY <2>2, <2>3
<1> HIDE DEF n
<1>10. InWindowOrder'
  <2>1. SUFFICES ASSUME ~ opt.loop, NEW i \in 1 .. (n + 1)
                 PROVE  history'[i].record = StartIndex + i - 1
      BY <1>1, <1>2, <1>8 DEF InWindowOrder
  <2>2. CASE i = n + 1
      BY <1>2, <1>7, <1>8, <1>9, <2>1, <2>2
  <2>3. CASE i \in 1 .. n
      BY <1>7, <1>8, <2>1, <2>3 DEF Progress, InWindowOrder
  <2> QED BY <1>7, <2>2, <2>3
<1>11. CASE Promise!NothingLeft(eng'.linesSentCount, r)
  <2>1. eng'.outcome = "completed"
      BY <1>5, <1>11
  <2>2. ~ opt.loop => \/ LimitReached(opt, eng'.linesSentCount)
                      \/ n + 1 = EndIndex - StartIndex + 1
      BY <1>2, <1>4, <1>6, <1>7, <1>9, <1>11
  <2>3. LimitReached(opt, eng'.linesSentCount) => LimitReached(opt, eng.linesSentCount)'
      BY <1>1 DEF LimitReached
  <2> QED BY <1>1, <1>2, <1>8, <1>10, <2>1, <2>2, <2>3 DEF Progress
<1>12. CASE ~ Promise!NothingLeft(eng'.linesSentCount, r)
  <2>1. eng'.outcome = "pending"
      BY <1>5, <1>12
  <2>2. ~ opt.loop => StartIndex + (n + 1) <= EndIndex
      BY <1>2, <1>4, <1>6, <1>7, <1>9, <1>12
  <2> QED BY <1>1, <1>2, <1>8, <1>10, <2>1, <2>2 DEF Progress
<1> QED BY <1>11, <1>12

\* Progress is a matter of the promise alone, which the engine keeps (NextRefines).
LEMMA PromiseKeepsProgress ==
    ASSUME opt \in Options, history \in Seq([record : Nat, fate : Fates]), Progress,
           [Promise!Next]_(Promise!vars)
    PROVE  Progress'
<1>1. ASSUME opt' = opt, history' = history, eng'.outcome = eng.outcome,
             eng'.linesSentCount = eng.linesSentCount
      PROVE  Progress'
    BY <1>1 DEF Progress, InWindowOrder, LimitReached, StartIndex, EndIndex
<1>2. ASSUME opt' = opt, history' = history,
             eng'.outcome \in {"pending", "failed", "stopped", "ready"},
             eng.outcome = "none" \/ eng'.outcome # "pending",
             eng'.outcome = "ready" => ~ opt.autoStart
      PROVE  Progress'
    BY <1>2 DEF Progress, InWindowOrder, StartIndex, EndIndex
<1>3. CASE Promise!Begin
    BY <1>2, <1>3 DEF Promise!Begin
<1>4. ASSUME NEW fate \in Promise!Fates, Promise!Dispose(fate)
      PROVE  Progress'
    BY <1>4, DisposeKeepsProgress DEF Promise!Fates, Fates
<1>5. CASE Promise!GetReady
    BY <1>2, <1>5 DEF Promise!GetReady
<1>6. CASE Promise!GiveUp
    BY <1>2, <1>6 DEF Promise!GiveUp
<1> QED BY <1>1, <1>3, <1>4, <1>5, <1>6 DEF Promise!Next, Promise!vars

\* Nothing in the engine calls stop().
Unstopped(e) == e.outcome # "stopped"

LEMMA MethodsDoNotStop ==
    ASSUME NEW e \in EngineType, Unstopped(e), opt \in Options
    PROVE  /\ \A s \in {"ready", "completed", "failed"} : Unstopped(Settle(e, s))
           /\ Unstopped(Pause(e))
           /\ Unstopped(MoveOn(e))
           /\ Unstopped(advanceAfterSuccessfulSend(e))
<1>1. \A f \in EngineType, s \in {"ready", "completed", "failed"} :
          Unstopped(f) => Unstopped(Settle(f, s))
    BY DEF Unstopped, Settle, EngineType
<1>2. Unstopped(Pause(e))
    BY DEF Unstopped, Pause, EngineType
<1>3. \A f \in EngineType : Unstopped(f) => Unstopped(MoveOn(f))
  <2>1. SUFFICES ASSUME NEW f \in EngineType, Unstopped(f)
                 PROVE  Unstopped(MoveOn(f))
      OBVIOUS
  <2> DEFINE next == [f EXCEPT !.currentLineIndex = @ + 1]
             wrapped == [f EXCEPT !.currentLineIndex = StartIndex]
  <2>2. next \in EngineType /\ Unstopped(next) /\ Unstopped(wrapped)
      BY <2>1 DEF EngineType, Unstopped
  <2>3. Unstopped(Settle(next, "completed"))
      BY <1>1, <2>2
  <2>4. MoveOn(f) \in {next, wrapped, Settle(next, "completed")}
      BY DEF MoveOn
  <2> HIDE DEF next, wrapped
  <2> QED BY <2>2, <2>3, <2>4
<1>4. Unstopped(advanceAfterSuccessfulSend(e))
  <2> DEFINE counted == [e EXCEPT !.linesSentCount = @ + 1]
             last == [counted EXCEPT !.currentLineIndex = @ + 1]
  <2>1. \A f \in EngineType : Unstopped(f) =>
            LET next == [f EXCEPT !.currentLineIndex = @ + 1]
            IN  next \in EngineType /\ Unstopped(next)
      BY DEF EngineType, Unstopped
  <2>2. counted \in EngineType /\ Unstopped(counted)
      BY DEF EngineType, Unstopped
  <2>3. last \in EngineType /\ Unstopped(last)
      BY <2>1, <2>2
  <2>4. Unstopped(Settle(last, "completed")) /\ Unstopped(MoveOn(counted))
      BY <1>1, <1>3, <2>2, <2>3
  <2>5. advanceAfterSuccessfulSend(e) \in {Settle(last, "completed"), MoveOn(counted)}
      BY DEF advanceAfterSuccessfulSend
  <2> HIDE DEF counted, last
  <2> QED BY <2>4, <2>5
<1> QED BY <1>1, <1>2, <1>3, <1>4

LEMMA NextLineDoesNotStop ==
    ASSUME opt \in Options, NEW t, NEW e \in EngineType, Unstopped(e), NEW n,
           NextLine(t, e, n)
    PROVE  Unstopped(eng')
    BY MethodsDoNotStop DEF NextLine, EndTick

\* An error skips the line, pauses the engine or fails the run.
LEMMA ErrorDoesNotStop ==
    ASSUME TypeOK, Unstopped(eng), NEW t \in Tick, HandleSendError(t)
    PROVE  Unstopped(eng')
<1>1. opt \in Options /\ eng \in EngineType /\ MoveOn(eng) \in EngineType
    BY MethodTypes DEF TypeOK
<1>2. /\ Unstopped(MoveOn(eng)) /\ Unstopped(Pause(eng))
      /\ Unstopped(Settle(eng, "failed"))
    BY <1>1, MethodsDoNotStop
<1> QED BY <1>1, <1>2, NextLineDoesNotStop DEF HandleSendError, EndTick

LEMMA SentDoesNotStop ==
    ASSUME TypeOK, Unstopped(eng), NEW t \in Tick, NEW fate, Sent(t, fate)
    PROVE  Unstopped(eng')
<1> DEFINE e == advanceAfterSuccessfulSend(eng)
<1>1. opt \in Options /\ eng \in EngineType
    BY DEF TypeOK
<1>2. e \in EngineType /\ Unstopped(e)
    BY <1>1, MethodTypes, MethodsDoNotStop
<1>3. EndTick(t, e) \/ NextLine(t, e, ticks[t].sentThisTick + 1)
    BY DEF Sent
<1> HIDE DEF e
<1> QED BY <1>1, <1>2, <1>3, NextLineDoesNotStop DEF EndTick

LEMMA ScheduleDoesNotStop ==
    ASSUME TypeOK, NEW e \in EngineType, Unstopped(e), StartSchedule(e) \/ ConnectionSettled(e)
    PROVE  Unstopped(eng')
<1>1. opt \in Options
    BY DEF TypeOK
<1> DEFINE f == [e EXCEPT !.isSending = TRUE, !.interval = TRUE]
<1>2. f \in EngineType /\ Unstopped(f)
    BY DEF EngineType, Unstopped
<1>3. ASSUME StartSchedule(e)
      PROVE  Unstopped(eng')
  <2>1. eng' = e \/ NextLine(1, f, 0)
      BY <1>3 DEF StartSchedule
  <2> HIDE DEF f
  <2> QED BY <1>1, <1>2, <2>1, NextLineDoesNotStop
<1>4. ASSUME RunReturns(Settle(e, "ready")) \/ RunReturns(Settle(e, "failed"))
      PROVE  Unstopped(eng')
    BY <1>1, <1>4, MethodsDoNotStop DEF RunReturns
<1> QED BY <1>3, <1>4 DEF ConnectionSettled

LEMMA NextDoesNotStop ==
    ASSUME ~ ExternalControl, TypeOK, Unstopped(eng), [Next]_vars
    PROVE  Unstopped(eng')
<1>1. opt \in Options /\ eng \in EngineType
    BY DEF TypeOK
<1>2. CASE Run
    BY <1>1, <1>2 DEF Run, EngineType, Unstopped
<1>3. CASE RunStep
  <2> DEFINE e == [eng EXCEPT !.currentLineIndex = StartIndex]
  <2>1. e \in EngineType /\ Unstopped(e)
      BY <1>1, OptionFacts DEF EngineType, Unstopped
  <2>2. ASSUME RunReturns(Settle(eng, "failed"))
        PROVE  Unstopped(eng')
      BY <1>1, <2>2, MethodsDoNotStop DEF RunReturns
  <2>3. CASE FileLoads
    <3>1. eng' = e \/ ConnectionSettled(e) \/ RunReturns(Settle(eng, "failed"))
        BY <2>3 DEF FileLoads
    <3> HIDE DEF e
    <3> QED BY <2>1, <2>2, <3>1, ScheduleDoesNotStop
  <2> QED BY <1>1, <1>3, <2>2, <2>3, ScheduleDoesNotStop
          DEF RunStep, FileFails, ConnectResolves, ConnectRejects, WaitRejects
<1>4. ASSUME NEW t \in Tick, TickStep(t)
      PROVE  Unstopped(eng')
  <2>1. ASSUME EndTick(t, eng) PROVE Unstopped(eng')
      BY <2>1 DEF EndTick
  <2> QED BY <1>4, <2>1, SentDoesNotStop, ErrorDoesNotStop
          DEF TickStep, SendDelivers, SendFindsNobody, NobodyThere, SendIsUnwritten,
              SendRejects, RetryOnNextTick, ReconnectResolves, ReconnectRejects
<1>5. ASSUME NEW t \in Tick, IntervalFires(t)
      PROVE  Unstopped(eng')
    BY <1>1, <1>5, NextLineDoesNotStop DEF IntervalFires
<1>6. CASE Environment
  <2>1. CASE RecipientJoins
      BY <1>1, <2>1, ScheduleDoesNotStop DEF RecipientJoins
  <2> QED BY <1>6, <2>1 DEF Environment, RecipientLeaves, ConnectionLost,
             ExternalStop, ExternalPause
<1>7. CASE UNCHANGED vars
    BY <1>7 DEF vars
<1> QED BY <1>2, <1>3, <1>4, <1>5, <1>6, <1>7 DEF Next

\* The fates of the records are true: one that is said to be delivered was received,
\* and one is passed over on an error only where the options say so.
FatesAreTrue ==
    \A i \in DOMAIN history :
        /\ history[i].fate = "delivered" =>
               \E j \in DOMAIN received : received[j] = history[i].record
        /\ history[i].fate = "skipped" => opt.onError = "continue"

LEMMA TickStepKeepsFates ==
    ASSUME ~ UnwrittenSends, TickInv, SessionInv, FatesAreTrue, NEW t \in Tick, TickStep(t)
    PROVE  FatesAreTrue'
<1>1. /\ opt' = opt /\ TypeOK /\ eng.currentLineIndex \in Nat
      /\ history \in Seq([record : Nat, fate : Fates])
    BY TickStepPassesOrHolds DEF TickInv, TypeOK, EngineType
<1>2. PICK arrived \in BOOLEAN :
          /\ Reaches(arrived)
          /\ HoldsBack(arrived) \/ \E fate \in Fates : Passes(fate, arrived)
    BY TickStepPassesOrHolds
<1> DEFINE n == Len(received)
<1>3. /\ n \in Nat /\ DOMAIN received = 1 .. n
      /\ DOMAIN received' = 1 .. (IF arrived THEN n + 1 ELSE n)
      /\ \A k \in 1 .. n : received'[k] = received[k] /\ received[k] \in Nat
      /\ arrived => received'[n + 1] = eng.currentLineIndex
    BY <1>1, <1>2, ReachesFacts
<1> HIDE DEF n
<1>4. \A k \in DOMAIN received : k \in DOMAIN received' /\ received'[k] = received[k]
    BY <1>3
<1>5. CASE HoldsBack(arrived)
    BY <1>1, <1>4, <1>5 DEF HoldsBack, FatesAreTrue
<1>6. ASSUME NEW fate \in Fates, Passes(fate, arrived)
      PROVE  FatesAreTrue'
  <2> DEFINE m == Len(history)
             x == [record |-> eng.currentLineIndex, fate |-> fate]
  <2>1. /\ m \in Nat /\ DOMAIN history = 1 .. m /\ DOMAIN history' = 1 .. (m + 1)
        /\ history'[m + 1] = x /\ \A k \in 1 .. m : history'[k] = history[k]
      BY <1>1, <1>6 DEF Passes
  <2>2. x.record = eng.currentLineIndex /\ x.fate = fate
      OBVIOUS
  <2>3. fate = "delivered" => arrived
      BY <1>6 DEF Passes
  <2>4. fate = "skipped" => opt.onError = "continue"
      BY <1>6 DEF Passes
  <2>5. fate = "delivered" => \E j \in DOMAIN received' : received'[j] = x.record
      BY <1>3, <2>2, <2>3
  <2> HIDE DEF m, x
  <2>6. SUFFICES ASSUME NEW i \in 1 .. (m + 1)
                 PROVE  /\ history'[i].fate = "delivered" =>
                               \E j \in DOMAIN received' : received'[j] = history'[i].record
                        /\ history'[i].fate = "skipped" => opt.onError = "continue"
      BY <1>1, <2>1 DEF FatesAreTrue
  <2>7. CASE i = m + 1
      BY <2>1, <2>2, <2>4, <2>5, <2>7
  <2>8. CASE i \in 1 .. m
      BY <1>4, <2>1, <2>8 DEF FatesAreTrue
  <2> QED BY <2>1, <2>6, <2>7, <2>8
<1> QED BY <1>2, <1>5, <1>6

LEMMA NextKeepsFates ==
    ASSUME ~ UnwrittenSends, TickInv, SessionInv, FatesAreTrue, [Next]_vars
    PROVE  FatesAreTrue'
<1>1. ASSUME opt' = opt, UNCHANGED ghostVars
      PROVE  FatesAreTrue'
    BY <1>1 DEF FatesAreTrue, ghostVars
<1>2. ASSUME NEW t \in Tick, TickStep(t)
      PROVE  FatesAreTrue'
    BY <1>2, TickStepKeepsFates
<1>3. CASE Run
    BY <1>1, <1>3 DEF Run
<1>4. CASE RunStep
    BY <1>1, <1>4 DEF RunStep, FileLoads, FileFails, ConnectResolves, ConnectRejects, WaitRejects
<1>5. ASSUME NEW t \in Tick, IntervalFires(t)
      PROVE  FatesAreTrue'
    BY <1>1, <1>5 DEF IntervalFires
<1>6. CASE Environment
    BY <1>1, <1>6 DEF Environment, RecipientJoins, RecipientLeaves, ConnectionLost,
       ExternalStop, ExternalPause
<1>7. CASE UNCHANGED vars
    BY <1>1, <1>7 DEF vars
<1> QED BY <1>2, <1>3, <1>4, <1>5, <1>6, <1>7 DEF Next

-----------------------------------------------------------------------------
(* The headless process around the engine.                                  *)

\* What the engine is known to be like, whoever runs it; what became of the records
\* is known where a send() that delivers nothing says why.
EngineInv == /\ TickInv /\ SessionInv /\ Progress /\ Unstopped(eng)
             /\ ~ UnwrittenSends => RecordsInv /\ FatesAreTrue

LEMMA EngineInvInit == Init => EngineInv
<1>1. SUFFICES ASSUME Init PROVE EngineInv
    OBVIOUS
<1>2. TickInv /\ SessionInv
    BY <1>1, TickInvInit, SessionInvInit
<1>3. RecordsInv
    BY <1>1, RecordsInvInit
<1>4. Progress /\ Unstopped(eng) /\ FatesAreTrue
    BY <1>1 DEF Init, Progress, InWindowOrder, Unstopped, FatesAreTrue
<1> QED BY <1>2, <1>3, <1>4 DEF EngineInv

LEMMA EngineInvInductive ==
    ASSUME ~ ExternalControl, EngineInv, [Next]_vars
    PROVE  EngineInv'
<1>1. /\ TypeOK /\ opt \in Options /\ history \in Seq([record : Nat, fate : Fates])
    BY DEF EngineInv, TickInv, TypeOK
<1>2. TickInv' /\ SessionInv' /\ [Promise!Next]_(Promise!vars)
    BY TickInvInductive, NextRefines DEF EngineInv
<1>3. ~ UnwrittenSends => RecordsInv' /\ FatesAreTrue'
    BY NextKeepsRecords, NextKeepsFates DEF EngineInv
<1>4. Progress'
    BY <1>1, <1>2, PromiseKeepsProgress DEF EngineInv
<1>5. Unstopped(eng')
    BY <1>1, NextDoesNotStop DEF EngineInv
<1>6. Unstopped(eng)'
    BY <1>5 DEF Unstopped
<1> QED BY <1>2, <1>3, <1>4, <1>6 DEF EngineInv

\* A teardown takes the transport away and touches nothing else of the engine.
LEMMA TeardownKeepsEngineInv ==
    ASSUME EngineInv, UNCHANGED <<opt, eng, run, ticks, tickInFlight, faults, ghostVars>>,
           transport' \in [connected : BOOLEAN, recipients : BOOLEAN]
    PROVE  EngineInv'
<1>1. TickInv'
    BY DEF EngineInv, ghostVars, TickInv, TypeOK, SingleTick, FlagIsAccurate,
       NothingBeforeSchedule
<1>2. SessionInv'
    BY DEF EngineInv, ghostVars, SessionInv, HasWindow, StartIndex, EndIndex, Going,
       Following, LimitReached, Over, AllIdle, LinesAreCurrent
<1>3. RecordsInv => RecordsInv'
  <2>1. Stopped' = Stopped /\ received' = received /\ history' = history
      BY DEF Stopped, AllIdle, ghostVars
  <2> QED BY <2>1, StillKeepsRecords
<1>4. Progress' /\ Unstopped(eng)' /\ (FatesAreTrue => FatesAreTrue')
    BY DEF EngineInv, ghostVars, Progress, InWindowOrder, StartIndex, EndIndex, LimitReached,
       Unstopped, FatesAreTrue
<1> QED BY <1>1, <1>2, <1>3, <1>4 DEF EngineInv

\* Once run() has settled, the engine takes no step of its own: what is left are
\* recipients that come and go, and a connection that goes down.
LEMMA SettledIsOver ==
    ASSUME SessionInv, eng.outcome \in Settled
    PROVE  run = "returned" /\ Over(eng) /\ AllIdle
    BY DEF SessionInv, Going, Settled

LEMMA SettledStaysSettled ==
    ASSUME ~ ExternalControl, TypeOK, SessionInv, eng.outcome \in Settled, EngineStep
    PROVE  /\ UNCHANGED <<opt, eng, ghostVars>>
           /\ transport'.connected => transport.connected
<1>1. run = "returned" /\ ~ eng.interval /\ AllIdle
    BY SettledIsOver DEF Over
<1>2. ~ RunStep
    BY <1>1 DEF RunStep, FileLoads, FileFails, ConnectResolves, ConnectRejects, WaitRejects
<1>3. \A t \in Tick : ~ TickStep(t) /\ ~ IntervalFires(t)
    BY <1>1 DEF AllIdle, TickStep, SendDelivers, SendFindsNobody, SendIsUnwritten,
       SendRejects, ReconnectResolves, ReconnectRejects, IntervalFires, IntervalRuns
<1>4. Environment
    BY <1>2, <1>3 DEF EngineStep
<1>5. RecipientJoins \/ RecipientLeaves \/ ConnectionLost
    BY <1>4 DEF Environment, ExternalStop, ExternalPause
<1>6. transport \in [connected : BOOLEAN, recipients : BOOLEAN]
    BY DEF TypeOK
<1> QED BY <1>1, <1>5, <1>6 DEF RecipientJoins, RecipientLeaves, ConnectionLost, ghostVars

\* Where runHeadlessSession() stands, and what it has said so far.
SessionType == {"idle", "running", "staying", "finishing", "failing", "returned",
                "rejected", "exited"}

TornDown == {"finishing", "failing", "returned", "rejected", "exited"}

ProcessInv ==
    /\ session \in SessionType
    /\ session # "exited" /\ startup = "headless" => exitCode = -1
    /\ session \in TornDown => eng.outcome \in Settled /\ ~ transport.connected
    /\ session = "finishing" => eng.outcome # "failed"
    /\ session = "failing" => eng.outcome = "failed" \/ unwritable
    /\ session = "exited" =>
           \/ exitCode = 0 /\ doneFile = "success" /\ eng.outcome # "failed"
           \/ exitCode = 2 /\ doneFile = "failure" /\ (eng.outcome = "failed" \/ unwritable)

\* A launch that did not become a session has run nothing.
LaunchInv ==
    /\ startup # "headless" => session = "idle" /\ run = "idle"
    /\ startup = "headless" => session # "idle"
    /\ startup \in {"starting", "window"} => exitCode = -1
    /\ startup = "help" => exitCode = 0
    /\ startup = "error" => exitCode = 1
    /\ startup \in {"starting", "window", "help", "error", "headless"}

StartupInv == EngineInv /\ ProcessInv /\ LaunchInv

LEMMA StartupInvInit == StartupInit => StartupInv
<1>1. SUFFICES ASSUME StartupInit PROVE StartupInv
    OBVIOUS
<1>2. Init /\ session = "idle" /\ exitCode = -1 /\ startup = "starting"
    BY <1>1 DEF StartupInit, HeadlessInit
<1>3. EngineInv
    BY <1>2, EngineInvInit
<1>4. run = "idle"
    BY <1>2 DEF Init
<1> QED BY <1>2, <1>3, <1>4 DEF StartupInv, ProcessInv, LaunchInv, SessionType, TornDown

LEMMA SessionStepKeepsInv ==
    ASSUME ~ ExternalControl, StartupInv, SessionStep
    PROVE  StartupInv'
<1>1. /\ startup = "headless" /\ startup' = startup /\ EngineInv /\ ProcessInv /\ LaunchInv
      /\ TypeOK /\ SessionInv
    BY DEF SessionStep, startupVars, StartupInv, EngineInv, TickInv
<1>2. ASSUME session' # "idle" PROVE LaunchInv'
    BY <1>1, <1>2 DEF LaunchInv
<1>3. ASSUME NEW context, DisconnectQuietly(context)
      PROVE  /\ session' = context /\ ~ transport'.connected
             /\ transport' \in [connected : BOOLEAN, recipients : BOOLEAN]
    BY <1>3 DEF DisconnectQuietly
<1>4. transport \in [connected : BOOLEAN, recipients : BOOLEAN]
    BY <1>1 DEF TypeOK
<1>5. CASE EngineSettled
  <2>1. /\ UNCHANGED <<opt, eng, run, ticks, tickInFlight, faults, ghostVars>>
        /\ eng.outcome \in Settled /\ session = "running" /\ unwritable' = unwritable
        /\ exitCode = -1 /\ eng' = eng
      BY <1>1, <1>5 DEF EngineSettled, ProcessInv
  <2>2. \/ /\ DisconnectQuietly("failing") /\ exitCode' = exitCode
           /\ eng.outcome = "failed" \/ unwritable
        \/ session' = "staying" /\ exitCode' = exitCode /\ transport' = transport
        \/ /\ DisconnectQuietly("finishing") /\ exitCode' = exitCode
           /\ eng.outcome # "failed"
      BY <1>5 DEF EngineSettled, Catch
  <2>3. transport' \in [connected : BOOLEAN, recipients : BOOLEAN] /\ session' # "idle"
      BY <1>3, <1>4, <2>2
  <2>4. ProcessInv'
      BY <1>1, <1>3, <2>1, <2>2 DEF ProcessInv, SessionType, TornDown
  <2> QED BY <1>1, <1>2, <2>1, <2>3, <2>4, TeardownKeepsEngineInv DEF StartupInv
<1>6. CASE Finish
  <2>1. /\ UNCHANGED <<opt, eng, run, ticks, tickInFlight, faults, ghostVars>>
        /\ session = "finishing" /\ unwritable' = unwritable /\ exitCode = -1 /\ eng' = eng
        /\ eng.outcome \in Settled /\ eng.outcome # "failed" /\ ~ transport.connected
      BY <1>1, <1>6 DEF Finish, ProcessInv, TornDown
  <2>2. \/ session' = "exited" /\ exitCode' = 0 /\ doneFile' = "success" /\ transport' = transport
        \/ session' = "returned" /\ exitCode' = exitCode /\ transport' = transport
        \/ DisconnectQuietly("failing") /\ exitCode' = exitCode /\ unwritable
      BY <1>6 DEF Finish, Catch
  <2>3. transport' \in [connected : BOOLEAN, recipients : BOOLEAN] /\ session' # "idle"
      BY <1>3, <1>4, <2>2
  <2>4. ProcessInv'
      BY <1>1, <1>3, <2>1, <2>2 DEF ProcessInv, SessionType, TornDown
  <2> QED BY <1>1, <1>2, <2>1, <2>3, <2>4, TeardownKeepsEngineInv DEF StartupInv
<1>7. CASE Fail
  <2>1. /\ UNCHANGED vars /\ session = "failing" /\ unwritable' = unwritable
        /\ exitCode = -1 /\ eng' = eng /\ transport' = transport
        /\ eng.outcome \in Settled /\ (eng.outcome = "failed" \/ unwritable)
        /\ ~ transport.connected
      BY <1>1, <1>7 DEF Fail, ProcessInv, TornDown, vars, envVars
  <2>2. \/ session' = "exited" /\ exitCode' = 2 /\ doneFile' = "failure"
        \/ session' = "rejected" /\ exitCode' = exitCode
      BY <1>7 DEF Fail
  <2>3. ProcessInv'
      BY <1>1, <2>1, <2>2 DEF ProcessInv, SessionType, TornDown
  <2>4. EngineInv'
      BY <1>1, <2>1, EngineInvInductive
  <2> QED BY <1>2, <2>2, <2>3, <2>4 DEF StartupInv
<1>8. CASE EngineStep
  <2>1. /\ session \in SessionType \ {"idle", "exited"} /\ UNCHANGED runnerVars
      BY <1>1, <1>8 DEF EngineStep, Alive, ProcessInv, LaunchInv
  <2>2. [Next]_vars
      BY <1>8 DEF EngineStep, Next
  <2>3. EngineInv'
      BY <1>1, <2>2, EngineInvInductive
  <2>4. session \in TornDown => eng' = eng /\ ~ transport'.connected
      BY <1>1, <1>8, SettledStaysSettled DEF ProcessInv
  <2>5. ProcessInv'
      BY <1>1, <2>1, <2>4 DEF ProcessInv, runnerVars, TornDown, SessionType
  <2> QED BY <1>2, <2>1, <2>3, <2>5 DEF StartupInv, runnerVars
<1> QED BY <1>5, <1>6, <1>7, <1>8 DEF SessionStep

LEMMA StartupInvInductive ==
    ASSUME ~ ExternalControl, StartupInv, [StartupNext]_startVars
    PROVE  StartupInv'
<1>1. EngineInv /\ ProcessInv /\ LaunchInv
    BY DEF StartupInv
<1>2. CASE StartHeadless
  <2>1. /\ session = "idle" /\ session' = "running" /\ startup' = "headless"
        /\ exitCode = -1 /\ exitCode' = exitCode /\ Run
      BY <1>1, <1>2 DEF StartHeadless, runHeadlessSession, LaunchInv
  <2>2. EngineInv'
      BY <1>1, <2>1, EngineInvInductive DEF Next
  <2> QED BY <2>1, <2>2 DEF StartupInv, ProcessInv, LaunchInv, SessionType, TornDown
<1>3. ASSUME UNCHANGED vars, UNCHANGED <<unwritable, session, doneFile>>, startup = "starting",
             \/ startup' = "window" /\ exitCode' = exitCode
             \/ startup' = "help" /\ exitCode' = 0
             \/ startup' = "error" /\ exitCode' = 1
      PROVE  StartupInv'
  <2>1. EngineInv'
      BY <1>1, <1>3, EngineInvInductive
  <2>2. session = "idle" /\ run = "idle" /\ exitCode = -1
      BY <1>1, <1>3 DEF LaunchInv
  <2> QED BY <1>3, <2>1, <2>2
          DEF StartupInv, ProcessInv, LaunchInv, SessionType, TornDown, vars
<1>4. CASE OpenWindow
    BY <1>3, <1>4 DEF OpenWindow, headlessVars, runnerVars
<1>5. CASE ShowHelp \/ Refuse
    BY <1>3, <1>5 DEF ShowHelp, Refuse, GracefulExit
<1>6. CASE SessionStep
    BY <1>6, SessionStepKeepsInv
<1>7. CASE UNCHANGED startVars
  <2>1. UNCHANGED vars /\ UNCHANGED runnerVars /\ startup' = startup
      BY <1>7 DEF startVars, headlessVars, startupVars
  <2>2. EngineInv'
      BY <1>1, <2>1, EngineInvInductive
  <2> QED BY <1>1, <2>1, <2>2
          DEF StartupInv, ProcessInv, LaunchInv, runnerVars, vars, envVars
<1> QED BY <1>2, <1>4, <1>5, <1>6, <1>7 DEF StartupNext

LEMMA InvGivesHonesty ==
    ASSUME ~ UnwrittenSends, StartupInv
    PROVE  ExitIsHonest
<1>1. EngineInv /\ ProcessInv /\ LaunchInv
    BY DEF StartupInv
<1>2. ASSUME startup = "headless", exitCode = 0
      PROVE  ExitZeroMeansReplayed
  <2>1. eng.outcome \in Settled \ {"failed", "stopped"}
      BY <1>1, <1>2 DEF ProcessInv, EngineInv, Unstopped, TornDown
  <2>2. SUFFICES ASSUME opt.autoStart, ~ opt.loop
                 PROVE  /\ \/ LimitReached(opt, eng.linesSentCount)
                           \/ Len(history) = EndIndex - StartIndex + 1
                        /\ \A i \in DOMAIN history : history[i].record = StartIndex + i - 1
                        /\ opt.waitForClient /\ opt.onError # "continue" =>
                               \A i \in DOMAIN history : \E j \in DOMAIN received :
                                   received[j] = history[i].record
      BY DEF ExitZeroMeansReplayed
  <2>3. Progress /\ WaitForClientLosesNothing /\ FatesAreTrue
      BY <1>1 DEF EngineInv, RecordsInv
  <2>4. eng.outcome = "completed"
      BY <2>1, <2>2, <2>3 DEF Progress, Settled
  <2>5. opt.waitForClient /\ opt.onError # "continue" =>
            \A i \in DOMAIN history : history[i].fate = "delivered"
      BY <2>3 DEF WaitForClientLosesNothing, FatesAreTrue
  <2> QED BY <2>2, <2>3, <2>4, <2>5 DEF Progress, InWindowOrder, FatesAreTrue
<1>3. startup = "headless" => ExitZeroMeansReplayed
    BY <1>2 DEF ExitZeroMeansReplayed
<1>4. ExitTellsTheOutcome
    BY <1>1 DEF ExitTellsTheOutcome, ProcessInv, TornDown, Settled, EngineInv, Unstopped
<1>5. (exitCode = 1) <=> (startup = "error")
    BY <1>1 DEF ProcessInv, LaunchInv
<1>6. startup \in {"help", "error", "window"} => eng.outcome = "none" /\ history = <<>>
    BY <1>1 DEF LaunchInv, EngineInv, SessionInv
<1> QED BY <1>3, <1>4, <1>5, <1>6 DEF ExitIsHonest

\* What a launch says of itself when it ends is what happened, for every launch the
\* command line and a configuration file can make, every file length and every fault
\* budget: exit code 0 of a session that was to send is a window sent to its end or to
\* its limit, in order and (waitForClient, no skipping) delivered; 2 is a run that
\* failed, or a done file that could not be written; 1 a launch that was refused and
\* sent nothing; and no process exits with its transport up (headless-runner.js).
\* Nobody stops or pauses the session from outside, and every send() that delivers
\* nothing says why.
THEOREM ExitsAreHonest ==
    ASSUME ~ ExternalControl, ~ UnwrittenSends
    PROVE  StartupSpec => []ExitIsHonest
<1>1. StartupInit => StartupInv
    BY StartupInvInit
<1>2. StartupInv /\ [StartupNext]_startVars => StartupInv'
    BY StartupInvInductive
<1>3. StartupInv => ExitIsHonest
    BY InvGivesHonesty
<1> QED BY <1>1, <1>2, <1>3, PTL DEF StartupSpec

\* Once teardown began nothing is sent, counted or received any more, however many
\* ticks were due: the done file's summary is of a run that is over
\* (runHeadlessSession() writes the summary of run() after it has awaited disconnect()).
THEOREM TheSummaryIsFinal ==
    ASSUME ~ ExternalControl
    PROVE  StartupSpec => DoneIsFinal
<1>1. StartupInit => StartupInv
    BY StartupInvInit
<1>2. StartupInv /\ [StartupNext]_startVars => StartupInv'
    BY StartupInvInductive
<1>3. StartupInv /\ [StartupNext]_startVars
      => [Ending => UNCHANGED <<eng, history, received>>]_headlessVars
  <2>1. SUFFICES ASSUME StartupInv, Ending, [StartupNext]_startVars
                 PROVE  UNCHANGED <<eng, history, received>>
      OBVIOUS
  <2>2. /\ startup = "headless" /\ eng.outcome \in Settled /\ TypeOK /\ SessionInv
      BY <2>1 DEF Ending, StartupInv, ProcessInv, LaunchInv, TornDown, EngineInv, TickInv
  <2>3. CASE EngineStep
      BY <2>2, <2>3, SettledStaysSettled DEF ghostVars
  <2>4. CASE EngineSettled \/ Finish \/ Fail
      BY <2>4 DEF EngineSettled, Finish, Fail, ghostVars, vars
  <2>5. CASE UNCHANGED startVars
      BY <2>5 DEF startVars, headlessVars, vars, ghostVars
  <2>6. CASE SessionStep
      BY <2>3, <2>4, <2>6 DEF SessionStep
  <2> QED BY <2>1, <2>2, <2>5, <2>6 DEF StartupNext, StartHeadless, OpenWindow, ShowHelp,
             Refuse, GracefulExit
<1> QED BY <1>1, <1>2, <1>3, PTL DEF StartupSpec, DoneIsFinal

-----------------------------------------------------------------------------
(* What a launch's settings are: the tables of options hold different      *)
(* keys, and so do their defaults.                                         *)

LEMMA Merge ==
    ASSUME NEW f, NEW g
    PROVE /\ DOMAIN (f ++ g) = DOMAIN f \cup DOMAIN g
          /\ \A k \in DOMAIN f : (f ++ g)[k] = f[k]
          /\ \A k \in DOMAIN g : k \notin DOMAIN f => (f ++ g)[k] = g[k]
    BY DEF ++

\* The settings of every session, of the sockets, of the other transports and of XMPP.
SessionKeys ==
    {"filename", "logFile", "config", "doneFile", "linesPerInterval", "intervalMs",
     "connectRetryIntervalMs", "startLine", "endLine", "maxLines", "loop", "autoConnect",
     "autoStart", "exitOnComplete", "waitForClient", "connectWaitForServer", "stdout",
     "protocol", "mode", "ip", "port", "connectTimeoutMs", "logLevel", "onError", "runId"}
WindowKeys ==
    {"tcpAddressFamily", "udpAddressFamily", "udpConnectionMode", "udpLocalHost",
     "udpLocalPort", "tcpHandshakeText", "tcpHandshakeUseEscapes", "tcpFormat", "udpFormat",
     "tcpInputHasHeader", "udpInputHasHeader", "udpAppendNewline", "tcpWkid", "udpWkid"}
FieldKeys == {"tcpXField", "tcpYField", "udpXField", "udpYField"}
StreamKeys ==
    {"grpcHeaderPath", "grpcHeaderPathKey", "tlsCaPath", "tlsCertPath", "tlsKeyPath",
     "allowUnverifiedTls", "httpAllowUnverifiedTls", "wsAllowUnverifiedTls", "httpPolling",
     "grpcSerialization", "grpcSendMethod", "useTls", "httpTlsCaPath", "httpTlsCertPath",
     "httpTlsKeyPath", "httpFormat", "httpTls", "httpPath", "wsTlsCaPath", "wsTlsCertPath",
     "wsTlsKeyPath", "wsTls", "wsIgnoreFirstMsg", "wsSubscriptionMsg", "wsHeaders",
     "wsFormat", "wsPath"}
XmppKeys ==
    {"xmppDomain", "xmppUsername", "xmppResource", "xmppExternalUsername", "xmppDestination",
     "xmppRoom", "xmppNickname", "xmppTlsCaPath", "xmppTlsCertPath", "xmppTlsKeyPath",
     "xmppAllowUnverifiedTls", "xmppAllowRemote", "xmppPassword", "xmppExternalPassword",
     "xmppConnectTimeoutMs", "xmppReplyTimeoutMs", "xmppPingIntervalMs",
     "xmppReconnectDelayMs", "xmppTlsPolicy", "xmppRoomPassword", "xmppConversation"}

\* Every table says what it is about.
LEMMA SessionDomain == DOMAIN SessionOptions = SessionKeys
    BY DEF SessionOptions, SessionKeys

\* The window reads every socket setting but the four field names.
LEMMA SocketDomain ==
    /\ DOMAIN SocketOptions = WindowKeys \cup FieldKeys
    /\ DOMAIN SocketFields = FieldKeys
    /\ UiRead = WindowKeys \cup {"httpPolling"}
<1>1. DOMAIN SocketAddressFamilies = {"tcpAddressFamily", "udpAddressFamily"}
  BY DEF SocketAddressFamilies
<1>2. DOMAIN UdpPairingOptions = {"udpConnectionMode", "udpLocalHost", "udpLocalPort"}
  BY DEF UdpPairingOptions
<1>3. DOMAIN TcpHandshakeOptions = {"tcpHandshakeText", "tcpHandshakeUseEscapes"}
  BY DEF TcpHandshakeOptions
<1>4. DOMAIN SocketFormats = {"tcpFormat", "udpFormat", "tcpInputHasHeader", "udpInputHasHeader",
                              "udpAppendNewline", "tcpWkid", "udpWkid"}
  BY DEF SocketFormats
<1>5. DOMAIN SocketFields = FieldKeys
  BY DEF SocketFields, FieldKeys
<1>6. DOMAIN (SocketAddressFamilies ++ UdpPairingOptions ++ TcpHandshakeOptions ++ SocketFormats) = WindowKeys
  BY <1>1, <1>2, <1>3, <1>4 DEF WindowKeys, ++
<1> QED
  BY <1>5, <1>6, Merge DEF SocketOptions, UiRead

LEMMA StreamDomain == DOMAIN StreamOptions = StreamKeys
<1>1. DOMAIN GrpcOptions =
   {"grpcHeaderPath", "grpcHeaderPathKey", "tlsCaPath", "tlsCertPath", "tlsKeyPath",
   "allowUnverifiedTls", "httpAllowUnverifiedTls", "wsAllowUnverifiedTls", "httpPolling",
   "grpcSerialization", "grpcSendMethod", "useTls"}
  BY DEF GrpcOptions
<1>2. DOMAIN HttpOptions = {"httpTlsCaPath", "httpTlsCertPath",
   "httpTlsKeyPath", "httpFormat", "httpTls", "httpPath"}
  BY DEF HttpOptions
<1>3. DOMAIN WebSocketOptions = {"wsTlsCaPath", "wsTlsCertPath",
   "wsTlsKeyPath", "wsTls", "wsIgnoreFirstMsg", "wsSubscriptionMsg", "wsHeaders",
   "wsFormat", "wsPath"}
  BY DEF WebSocketOptions
<1> QED
  BY <1>1, <1>2, <1>3 DEF StreamOptions, StreamKeys, ++

LEMMA XmppDomain == DOMAIN XmppOptions = XmppKeys
    BY DEF XmppOptions, XmppKeys, XmppTimings

\* Together they are the settings.
LEMMA SettingsDomain ==
    DOMAIN Settings = SessionKeys \cup WindowKeys \cup FieldKeys \cup StreamKeys \cup XmppKeys
    BY SessionDomain, SocketDomain, StreamDomain, XmppDomain DEF Settings, ConnectionOptions, ++

\* A setting is read the way its own table says.
LEMMA SettingsSplit ==
    /\ \A k \in SessionKeys : Settings[k] = SessionOptions[k]
    /\ \A k \in WindowKeys \cup FieldKeys : Settings[k] = SocketOptions[k]
    /\ \A k \in StreamKeys : Settings[k] = StreamOptions[k]
    /\ \A k \in XmppKeys : Settings[k] = XmppOptions[k]
<1> USE SessionDomain, SocketDomain, StreamDomain, XmppDomain
<1>1. \A k \in SessionKeys : Settings[k] = SessionOptions[k]
  BY Merge DEF Settings
<1>2. DOMAIN (SocketOptions ++ StreamOptions) = WindowKeys \cup FieldKeys \cup StreamKeys
  BY Merge
<1>3. DOMAIN ConnectionOptions = WindowKeys \cup FieldKeys \cup StreamKeys \cup XmppKeys
  BY Merge, <1>2 DEF ConnectionOptions
<1>4. SessionKeys \cap (WindowKeys \cup FieldKeys) = {}
   BY DEF SessionKeys, WindowKeys, FieldKeys
<1>5. SessionKeys \cap StreamKeys = {}
   BY DEF SessionKeys, StreamKeys
<1>6. SessionKeys \cap XmppKeys = {}
   BY DEF SessionKeys, XmppKeys
<1>7. (WindowKeys \cup FieldKeys) \cap StreamKeys = {}
   BY DEF StreamKeys, WindowKeys, FieldKeys
<1>8. (WindowKeys \cup FieldKeys) \cap XmppKeys = {}
   BY DEF XmppKeys, WindowKeys, FieldKeys
<1>9. StreamKeys \cap XmppKeys = {}
   BY DEF XmppKeys, StreamKeys
<1>10. \A k \in WindowKeys \cup FieldKeys : Settings[k] = SocketOptions[k]
  BY <1>2, <1>3, <1>4 DEF Settings, ConnectionOptions, ++
<1>11. \A k \in StreamKeys : Settings[k] = StreamOptions[k]
  BY <1>2, <1>3, <1>5, <1>7 DEF ++, Settings, ConnectionOptions
<1>12. \A k \in XmppKeys : Settings[k] = XmppOptions[k]
  BY <1>2, <1>3, <1>6, <1>8, <1>9 DEF ++, Settings, ConnectionOptions
<1> QED BY <1>1, <1>10, <1>11, <1>12

\* No two tables share a key.
LEMMA Disjoint ==
    /\ SessionKeys \cap (WindowKeys \cup FieldKeys) = {}
    /\ SessionKeys \cap StreamKeys = {}
    /\ SessionKeys \cap XmppKeys = {}
    /\ (WindowKeys \cup FieldKeys) \cap StreamKeys = {}
    /\ (WindowKeys \cup FieldKeys) \cap XmppKeys = {}
    /\ StreamKeys \cap XmppKeys = {}
<1>4. SessionKeys \cap (WindowKeys \cup FieldKeys) = {}
   BY DEF SessionKeys, WindowKeys, FieldKeys
<1>5. SessionKeys \cap StreamKeys = {}
   BY DEF SessionKeys, StreamKeys
<1>6. SessionKeys \cap XmppKeys = {}
   BY DEF SessionKeys, XmppKeys
<1>7. (WindowKeys \cup FieldKeys) \cap StreamKeys = {}
   BY DEF StreamKeys, WindowKeys, FieldKeys
<1>8. (WindowKeys \cup FieldKeys) \cap XmppKeys = {}
   BY DEF XmppKeys, WindowKeys, FieldKeys
<1>9. StreamKeys \cap XmppKeys = {}
   BY DEF XmppKeys, StreamKeys
<1> QED BY <1>4, <1>5, <1>6, <1>7, <1>8, <1>9

\* The settings that have a default of their own.
SessionSet == {"linesPerInterval", "startLine", "intervalMs", "connectRetryIntervalMs", "loop",
     "waitForClient", "connectWaitForServer", "autoConnect", "autoStart", "exitOnComplete",
         "stdout",
     "protocol", "mode", "ip", "port", "connectTimeoutMs", "logLevel", "onError"}
XmppSet == {"xmppResource", "xmppNickname", "xmppPingIntervalMs", "xmppReconnectDelayMs",
     "xmppAllowUnverifiedTls", "xmppAllowRemote", "xmppDomain", "xmppTlsPolicy",
         "xmppConversation",
     "xmppConnectTimeoutMs", "xmppReplyTimeoutMs"}

\* A default is of a setting of the same table.
LEMMA DefaultsDomains ==
    /\ DOMAIN SessionDefaults = SessionSet /\ SessionSet \subseteq SessionKeys
    /\ DOMAIN SocketDefaults = WindowKeys
    /\ DOMAIN StreamDefaults \subseteq StreamKeys
    /\ DOMAIN XmppDefaultOptions = XmppSet /\ XmppSet \subseteq XmppKeys
<1>1. DOMAIN SessionDefaults = SessionSet BY DEF SessionDefaults, SessionSet
<1>2. SessionSet \subseteq SessionKeys BY DEF SessionSet, SessionKeys
<1>3. DOMAIN SocketDefaults = WindowKeys BY DEF SocketDefaults, WindowKeys
<1>4. DOMAIN StreamDefaults \subseteq StreamKeys BY DEF StreamDefaults, StreamKeys
<1>5. DOMAIN XmppDefaultOptions = XmppSet BY DEF XmppDefaultOptions, XmppSet
<1>6. XmppSet \subseteq XmppKeys BY DEF XmppSet, XmppKeys
<1> QED BY <1>1, <1>2, <1>3, <1>4, <1>5, <1>6

\* Every setting has a default, null where no table gives it one.
LEMMA DefaultsSplit ==
    /\ DOMAIN Defaults = DOMAIN Settings
    /\ \A k \in SessionSet : Defaults[k] = SessionDefaults[k]
    /\ \A k \in SessionKeys \ SessionSet : Defaults[k] = NULL
    /\ \A k \in WindowKeys : Defaults[k] = SocketDefaults[k]
    /\ \A k \in FieldKeys : Defaults[k] = NULL
    /\ \A k \in StreamKeys \cap DOMAIN StreamDefaults : Defaults[k] = StreamDefaults[k]
    /\ \A k \in XmppSet : Defaults[k] = XmppDefaultOptions[k]
    /\ \A k \in XmppKeys \ XmppSet : Defaults[k] = NULL
<1> DEFINE F1 == SessionDefaults ++ SocketDefaults
<1> DEFINE F2 == F1 ++ StreamDefaults
<1> DEFINE F3 == F2 ++ XmppDefaultOptions
<1> DEFINE N == [k \in DOMAIN Settings |-> NULL]
<1> USE DefaultsDomains, Disjoint, SettingsDomain
<1>0. FieldKeys \cap WindowKeys = {} BY DEF FieldKeys, WindowKeys
<1>1. Defaults = F3 ++ N BY DEF Defaults
<1>2. DOMAIN F1 = SessionSet \cup WindowKeys BY DEF ++
<1>3. DOMAIN F2 = SessionSet \cup WindowKeys \cup DOMAIN StreamDefaults BY <1>2 DEF ++
<1>4. DOMAIN F3 = SessionSet \cup WindowKeys \cup DOMAIN StreamDefaults \cup XmppSet BY <1>3 DEF ++
<1>5. DOMAIN N = DOMAIN Settings /\ \A k \in DOMAIN Settings : N[k] = NULL OBVIOUS
<1>6. DOMAIN Defaults = DOMAIN Settings BY <1>1, <1>4, <1>5 DEF ++
<1>7. \A k \in DOMAIN F3 : Defaults[k] = F3[k] BY <1>1 DEF ++
<1>8. \A k \in DOMAIN Settings \ DOMAIN F3 : Defaults[k] = NULL BY <1>1, <1>5 DEF ++
<1>9. \A k \in SessionSet : F3[k] = SessionDefaults[k] BY <1>2, <1>3 DEF ++
<1>10. \A k \in WindowKeys : F3[k] = SocketDefaults[k] BY <1>2, <1>3 DEF ++
<1>11. \A k \in DOMAIN StreamDefaults : F3[k] = StreamDefaults[k] BY <1>2, <1>3 DEF ++
<1>12. \A k \in XmppSet : F3[k] = XmppDefaultOptions[k] BY <1>2, <1>3 DEF ++
<1>13. FieldKeys \cap DOMAIN F3 = {} BY <1>0, <1>4
<1>14. (SessionKeys \ SessionSet) \cap DOMAIN F3 = {} BY <1>4
<1>15. (XmppKeys \ XmppSet) \cap DOMAIN F3 = {} BY <1>4
<1> QED BY ONLY <1>4, <1>6, <1>7, <1>8, <1>9, <1>10, <1>11, <1>12, <1>13, <1>14, <1>15,
           SettingsDomain

\* What is used of a setting: the value read, or the default where there is none.
LEMMA UsedValues ==
    ASSUME NEW m, NEW k \in DOMAIN Settings
    PROVE  /\ k \in DOMAIN m => ReadSettings(m)[k] = IF Read(Settings[k], m[k]).value = Unset
                THEN Defaults[k]
                                                     ELSE Read(Settings[k], m[k]).value
           /\ k \notin DOMAIN m => ReadSettings(m)[k] = Defaults[k]
           /\ DOMAIN ReadSettings(m) = DOMAIN Settings
    BY DefaultsSplit DEF ReadSettings, ++

\* The kinds of setting the window validates.
ReadKinds == {"one of", "exactly", "local host", "local port", "anything", "boolean", "wkid"}

LEMMA SocketTables ==
    /\ \A k \in DOMAIN SocketAddressFamilies : SocketOptions[k] = SocketAddressFamilies[k]
    /\ \A k \in DOMAIN UdpPairingOptions : SocketOptions[k] = UdpPairingOptions[k]
    /\ \A k \in DOMAIN TcpHandshakeOptions : SocketOptions[k] = TcpHandshakeOptions[k]
    /\ \A k \in DOMAIN SocketFormats : SocketOptions[k] = SocketFormats[k]
    /\ \A k \in FieldKeys : SocketOptions[k] = Field
    /\ WindowKeys \subseteq DOMAIN SocketAddressFamilies \cup DOMAIN UdpPairingOptions
                            \cup DOMAIN TcpHandshakeOptions \cup DOMAIN SocketFormats
<1>1. DOMAIN SocketAddressFamilies = {"tcpAddressFamily", "udpAddressFamily"}
  BY DEF SocketAddressFamilies
<1>2. DOMAIN UdpPairingOptions = {"udpConnectionMode", "udpLocalHost", "udpLocalPort"}
  BY DEF UdpPairingOptions
<1>3. DOMAIN TcpHandshakeOptions = {"tcpHandshakeText", "tcpHandshakeUseEscapes"}
  BY DEF TcpHandshakeOptions
<1>4. DOMAIN SocketFormats = {"tcpFormat", "udpFormat", "tcpInputHasHeader", "udpInputHasHeader",
                              "udpAppendNewline", "tcpWkid", "udpWkid"}
  BY DEF SocketFormats
<1>5. DOMAIN SocketFields = FieldKeys /\ \A k \in FieldKeys : SocketFields[k] = Field
  BY DEF SocketFields, FieldKeys
<1>6. \A k \in DOMAIN SocketAddressFamilies : SocketOptions[k] = SocketAddressFamilies[k]
  BY DEF SocketOptions, ++
<1>7. \A k \in DOMAIN UdpPairingOptions : SocketOptions[k] = UdpPairingOptions[k]
  BY <1>1, <1>2 DEF SocketOptions, ++
<1>8. \A k \in DOMAIN TcpHandshakeOptions : SocketOptions[k] = TcpHandshakeOptions[k]
  BY <1>1, <1>2, <1>3 DEF SocketOptions, ++
<1>9. \A k \in DOMAIN SocketFormats : SocketOptions[k] = SocketFormats[k]
  BY <1>1, <1>2, <1>3, <1>4 DEF SocketOptions, ++
<1>10. \A k \in FieldKeys : k \notin DOMAIN (SocketAddressFamilies ++ UdpPairingOptions ++ TcpHandshakeOptions ++ SocketFormats)
  BY <1>1, <1>2, <1>3, <1>4 DEF FieldKeys, ++
<1>11. \A k \in FieldKeys : SocketOptions[k] = Field
  <2> DEFINE F == SocketAddressFamilies ++ UdpPairingOptions ++ TcpHandshakeOptions ++ SocketFormats
  <2>1. SocketOptions = F ++ SocketFields BY DEF SocketOptions
  <2>2. \A k \in FieldKeys : k \notin DOMAIN F BY <1>10
  <2> HIDE DEF F
  <2> QED BY <1>5, <2>1, <2>2 DEF ++
<1>12. WindowKeys \subseteq DOMAIN SocketAddressFamilies \cup DOMAIN UdpPairingOptions
                        \cup DOMAIN TcpHandshakeOptions \cup DOMAIN SocketFormats
  BY <1>1, <1>2, <1>3, <1>4 DEF WindowKeys
<1> QED
  BY <1>6, <1>7, <1>8, <1>9, <1>11, <1>12

LEMMA WindowKinds ==
    \A k \in UiRead : Settings[k].is \in ReadKinds
<1>1. \A k \in DOMAIN SocketAddressFamilies : SocketAddressFamilies[k].is \in ReadKinds
  <2>1. /\ SocketAddressFamilies["tcpAddressFamily"].is = "one of"
        /\ SocketAddressFamilies["udpAddressFamily"].is = "one of"
    BY DEF SocketAddressFamilies, OneOf, Kind
  <2>2. DOMAIN SocketAddressFamilies = {"tcpAddressFamily", "udpAddressFamily"}
    BY DEF SocketAddressFamilies
  <2> QED BY <2>1, <2>2 DEF ReadKinds
<1>2. \A k \in DOMAIN UdpPairingOptions : UdpPairingOptions[k].is \in ReadKinds
  <2>0. \A S : Exactly(S).is = "exactly" BY DEF Exactly, Kind
  <2>00. LocalHost.is = "local host" /\ LocalPort.is = "local port" BY DEF LocalHost, LocalPort, Kind
  <2>1. /\ UdpPairingOptions["udpConnectionMode"].is = "exactly"
        /\ UdpPairingOptions["udpLocalHost"].is = "local host"
        /\ UdpPairingOptions["udpLocalPort"].is = "local port"
    BY <2>0, <2>00 DEF UdpPairingOptions
  <2>2. DOMAIN UdpPairingOptions = {"udpConnectionMode", "udpLocalHost", "udpLocalPort"}
    BY DEF UdpPairingOptions
  <2> QED BY <2>1, <2>2 DEF ReadKinds
<1>3. \A k \in DOMAIN TcpHandshakeOptions : TcpHandshakeOptions[k].is \in ReadKinds
  <2>1. /\ TcpHandshakeOptions["tcpHandshakeText"].is = "anything"
        /\ TcpHandshakeOptions["tcpHandshakeUseEscapes"].is = "boolean"
    BY DEF TcpHandshakeOptions, Anything, Boolean, Kind
  <2>2. DOMAIN TcpHandshakeOptions = {"tcpHandshakeText", "tcpHandshakeUseEscapes"}
    BY DEF TcpHandshakeOptions
  <2> QED BY <2>1, <2>2 DEF ReadKinds
<1>4. \A k \in DOMAIN SocketFormats : SocketFormats[k].is \in ReadKinds
  <2>1. Wkid.is = "wkid" /\ Boolean.is = "boolean" /\ \A S : OneOf(S).is = "one of"
    BY DEF OneOf, Wkid, Boolean, Kind
  <2>2. SocketFormats["tcpFormat"].is = "one of"
    BY <2>1 DEF SocketFormats
  <2>4. SocketFormats["udpFormat"].is = "one of"
    BY <2>1 DEF SocketFormats
  <2>5. SocketFormats["tcpWkid"].is = "wkid" /\ SocketFormats["udpWkid"].is = "wkid"
    BY <2>1 DEF SocketFormats
  <2>6. /\ SocketFormats["tcpInputHasHeader"].is = "boolean"
        /\ SocketFormats["udpInputHasHeader"].is = "boolean"
        /\ SocketFormats["udpAppendNewline"].is = "boolean"
    BY <2>1 DEF SocketFormats
  <2>3. DOMAIN SocketFormats = {"tcpFormat", "udpFormat", "tcpInputHasHeader",
      "udpInputHasHeader",
                              "udpAppendNewline", "tcpWkid", "udpWkid"}
    BY DEF SocketFormats
  <2> QED BY <2>2, <2>3, <2>4, <2>5, <2>6 DEF ReadKinds
<1>5. Settings["httpPolling"].is \in ReadKinds
  <2>1. "httpPolling" \in StreamKeys BY DEF StreamKeys
  <2>2. "httpPolling" \in DOMAIN GrpcOptions /\ GrpcOptions["httpPolling"] = Boolean
    BY DEF GrpcOptions
  <2>3. StreamOptions["httpPolling"] = Boolean
    BY <2>2 DEF StreamOptions, ++
  <2>4. Boolean.is = "boolean" BY DEF Boolean, Kind
  <2> QED BY <2>1, <2>3, <2>4, SettingsSplit DEF ReadKinds
<1>6. \A k \in WindowKeys : Settings[k].is \in ReadKinds
  BY <1>1, <1>2, <1>3, <1>4, SocketTables, SettingsSplit
<1> QED
  BY <1>5, <1>6, SocketDomain

\* What the window takes is a value, never `unset`.
LEMMA WindowReads ==
    ASSUME NEW k \in UiRead, NEW v \in Texts, ~ Read(Settings[k], v).error
    PROVE  Read(Settings[k], v).value # Unset
<1> DEFINE kind == Settings[k]
<1>0. Trim(v) \in Texts /\ Lower(Trim(v)) \in Texts
  BY TextsAreNormalised DEF TextAssumption, Normalises, Trim, Lower
<1>0a. Unset \notin Texts /\ Unset \notin Int /\ Unset \notin BOOLEAN
  BY TextsAreNormalised DEF TextAssumption
<1> HIDE DEF kind
<1>1. CASE kind.is = "one of"
  BY <1>1, <1>0, <1>0a DEF Read, Sets, Keeps, Refuses, RefusesAs, kind
<1>2. CASE kind.is = "exactly"
  BY <1>2, <1>0, <1>0a DEF Read, Sets, Keeps, Refuses, RefusesAs, kind
<1>3. CASE kind.is = "local host"
  BY <1>3, <1>0, <1>0a DEF Read, Sets, Keeps, Refuses, RefusesAs, kind
<1>4. CASE kind.is = "local port"
  BY <1>4, <1>0, <1>0a, TextsAreNormalised DEF Read, Sets, Keeps, Refuses, RefusesAs, kind,
     TextAssumption
<1>5. CASE kind.is = "anything"
  BY <1>5, <1>0, <1>0a DEF Read, Sets, Keeps, Refuses, RefusesAs, kind
<1>6. CASE kind.is = "boolean"
  BY <1>6, <1>0, <1>0a DEF Read, Sets, Keeps, Refuses, RefusesAs, kind, ParseBoolean
<1>7. CASE kind.is = "wkid"
  BY <1>7, <1>0, <1>0a, TextsAreNormalised DEF Read, Sets, Keeps, Refuses, RefusesAs, kind,
     ParseInteger, TextAssumption
<1> QED
  BY <1>1, <1>2, <1>3, <1>4, <1>5, <1>6, <1>7, WindowKinds DEF ReadKinds, kind

\* A field name is always taken; a blank one means none.
LEMMA FieldReads ==
    ASSUME NEW k \in FieldKeys, NEW v \in Texts
    PROVE  /\ ~ Read(Settings[k], v).error
           /\ Read(Settings[k], v).value = IF Trim(v) = "" THEN NULL ELSE Trim(v)
           /\ Read(Settings[k], v).value # Unset
<1>1. Settings[k] = Field BY SocketTables, SettingsSplit
<1>2. Trim(v) \in Texts
  BY TextsAreNormalised DEF TextAssumption, Normalises, Trim
<1>3. Settings[k].is = "field" BY <1>1 DEF Field, Kind
<1> QED BY <1>2, <1>3, TextsAreNormalised DEF Read, Sets, TextAssumption

-----------------------------------------------------------------------------
(* The window reads socket settings as a headless launch does.             *)

\* The rules for sockets speak of settings both sides read.
LEMMA SocketReadKeysFacts ==
    /\ \A s \in SocketKeys : s.format \in UiRead /\ s.wkid \in UiRead /\ s.x \in FieldKeys /\ s.y \in FieldKeys
    /\ "tcpHandshakeText" \in UiRead /\ "tcpHandshakeUseEscapes" \in UiRead
    /\ \A k \in UiRead : k \in DOMAIN Settings /\ k \notin FieldKeys
    /\ \A k \in FieldKeys : k \in DOMAIN Settings /\ k \notin UiRead
    /\ SocketKeysRead = UiRead \cup FieldKeys
<1>2. {"tcpHandshakeText", "tcpHandshakeUseEscapes", "tcpFormat", "udpFormat", "tcpWkid",
    "udpWkid"} \subseteq WindowKeys
  BY DEF WindowKeys
<1>3. {"tcpXField", "tcpYField", "udpXField", "udpYField"} = FieldKeys
  BY DEF FieldKeys
<1>4. \A s \in SocketKeys : /\ s.format \in {"tcpFormat",
                                 "udpFormat"} /\ s.wkid \in {"tcpWkid", "udpWkid"}
                            /\ s.x \in FieldKeys /\ s.y \in FieldKeys
  BY <1>3 DEF SocketKeys
<1>5. "httpPolling" \in StreamKeys BY DEF StreamKeys
<1>6. UiRead = WindowKeys \cup {"httpPolling"} BY SocketDomain
<1>7. UiRead \cup FieldKeys \subseteq DOMAIN Settings
  BY <1>5, <1>6, SettingsDomain
<1>8. WindowKeys \cap FieldKeys = {} BY DEF WindowKeys, FieldKeys
<1>9. UiRead \cap FieldKeys = {} BY <1>5, <1>6, <1>8, Disjoint
<1>10. SocketKeysRead = UiRead \cup FieldKeys
  BY SocketDomain DEF SocketKeysRead
<1> QED BY <1>2, <1>4, <1>6, <1>7, <1>9, <1>10

\* What the rules for sockets say of a launch that leaves the setting out.
LEMMA FieldDefaults == \A k \in FieldKeys : Defaults[k] = NULL
    BY DefaultsSplit

LEMMA FormatDefaults == \A s \in SocketKeys : Defaults[s.format] = "delimited"
<1>1. SocketDefaults["tcpFormat"] = "delimited" /\ SocketDefaults["udpFormat"] = "delimited"
  BY DEF SocketDefaults
<1>2. "tcpFormat" \in WindowKeys /\ "udpFormat" \in WindowKeys BY DEF WindowKeys
<1>3. \A s \in SocketKeys : s.format = "tcpFormat" \/ s.format = "udpFormat" BY DEF SocketKeys
<1> QED BY <1>1, <1>2, <1>3, DefaultsSplit

LEMMA WkidDefaults == \A s \in SocketKeys : Defaults[s.wkid] = 4326
<1>1. SocketDefaults["tcpWkid"] = 4326 /\ SocketDefaults["udpWkid"] = 4326
  BY DEF SocketDefaults
<1>2. "tcpWkid" \in WindowKeys /\ "udpWkid" \in WindowKeys BY DEF WindowKeys
<1>3. \A s \in SocketKeys : s.wkid = "tcpWkid" \/ s.wkid = "udpWkid" BY DEF SocketKeys
<1> QED BY <1>1, <1>2, <1>3, DefaultsSplit

LEMMA HandshakeDefaults == Defaults["tcpHandshakeText"] = ""
<1>1. SocketDefaults["tcpHandshakeText"] = ""
  BY DEF SocketDefaults
<1>2. "tcpHandshakeText" \in WindowKeys BY DEF WindowKeys
<1> QED BY <1>1, <1>2, DefaultsSplit

LEMMA EscapeDefaults == Defaults["tcpHandshakeUseEscapes"] = TRUE
<1>1. SocketDefaults["tcpHandshakeUseEscapes"] = TRUE
  BY DEF SocketDefaults
<1>2. "tcpHandshakeUseEscapes" \in WindowKeys BY DEF WindowKeys
<1> QED BY <1>1, <1>2, DefaultsSplit

\* The two copies of the rules take the same settings, and mean the same by them.
LEMMA SameVerdict ==
    ASSUME NEW m, \A k \in DOMAIN m : m[k] \in Texts
    PROVE  LET used == ReadSettings(m)
               presets == UiPresets(m)
               refused == BadValues(m, SocketKeysRead) \union SocketErrors(used)
           IN  /\ (refused = {}) <=> (UiSocketErrors(m) = {})
               /\ refused = {} => \A k \in SocketKeysRead \intersect DOMAIN presets :
                                     Shown(presets, k) = used[k]
<1> DEFINE used == ReadSettings(m)
           v == UiValues(m)
           r(k) == Read(Settings[k], m[k])
<1>1. SocketKeysRead = UiRead \cup FieldKeys
  BY SocketReadKeysFacts
<1>2. BadValues(m, SocketKeysRead) = BadValues(m, UiRead)
  BY <1>1, FieldReads DEF BadValues
<1>3. \A k \in UiRead \cap DOMAIN m :
        ~ r(k).error => used[k] = r(k).value /\ v[k] = r(k).value
  <2> SUFFICES ASSUME NEW k \in UiRead \cap DOMAIN m, ~ r(k).error
               PROVE  used[k] = r(k).value /\ v[k] = r(k).value
    OBVIOUS
  <2>1. r(k).value # Unset BY WindowReads
  <2>2. used[k] = r(k).value BY <2>1, UsedValues, SocketReadKeysFacts
  <2>3. v[k] = r(k).value BY <2>1 DEF UiValues
  <2> QED BY <2>2, <2>3
<1>4. \A k \in UiRead \cup FieldKeys : k \notin DOMAIN m => used[k] = Defaults[k]
  BY UsedValues, SocketReadKeysFacts
<1>5. \A k \in FieldKeys \cap DOMAIN m : used[k] = IF Trim(m[k]) = "" THEN NULL ELSE Trim(m[k])
  <2> SUFFICES ASSUME NEW k \in FieldKeys \cap DOMAIN m
               PROVE  used[k] = IF Trim(m[k]) = "" THEN NULL ELSE Trim(m[k])
    OBVIOUS
  <2>1. k \in DOMAIN Settings BY SocketReadKeysFacts
  <2>2. r(k).value # Unset /\ r(k).value = IF Trim(m[k]) = "" THEN NULL ELSE Trim(m[k])
    BY FieldReads
  <2>3. used[k] = IF r(k).value = Unset THEN Defaults[k] ELSE r(k).value BY <2>1, UsedValues
  <2> HIDE DEF used, r
  <2> QED BY <2>2, <2>3
<1>6. \A k \in FieldKeys \cap DOMAIN m : v[k] = m[k]
  BY SocketReadKeysFacts DEF UiValues
<1>7. DOMAIN v = DOMAIN m BY DEF UiValues
<1>8. Trim("") = "" BY TextsAreNormalised DEF TextAssumption, Trim, Words
<1>9. \A k \in FieldKeys : Falsy(used[k]) <=> (Trim(Or(m, k, "")) = "")
  <2> SUFFICES ASSUME NEW k \in FieldKeys
               PROVE  Falsy(used[k]) <=> (Trim(Or(m, k, "")) = "")
    OBVIOUS
  <2> HIDE DEF used
  <2>1. CASE k \in DOMAIN m
    <3>1. Or(m, k, "") = m[k] BY <2>1 DEF Or
    <3>2. CASE Trim(m[k]) = ""
      <4>1. used[k] = NULL BY <2>1, <3>2, <1>5
      <4> QED BY <4>1, <3>1, <3>2 DEF Falsy
    <3>3. CASE Trim(m[k]) # ""
      <4>1. used[k] = Trim(m[k]) BY <2>1, <3>3, <1>5
      <4>2. Trim(m[k]) # NULL
        BY <2>1, TextsAreNormalised DEF TextAssumption, Normalises, Trim
      <4> QED BY <4>1, <4>2, <3>1, <3>3 DEF Falsy
    <3> QED BY <3>2, <3>3
  <2>2. CASE k \notin DOMAIN m
    BY <2>2, <1>4, <1>8, FieldDefaults DEF Falsy, Or
  <2> QED BY <2>1, <2>2
<1>10. UiFieldErrors(m) = {s.x : s \in {s \in SocketKeys : Falsy(used[s.x]) # Falsy(used[s.y])}}
  <2>1. \A s \in SocketKeys :
           ((Trim(Or(m, s.x, "")) = "") # (Trim(Or(m, s.y, "")) = "")) <=>
               (Falsy(used[s.x]) # Falsy(used[s.y]))
    <3> SUFFICES ASSUME NEW s \in SocketKeys
                 PROVE ((Trim(Or(m, s.x, "")) = "") # (Trim(Or(m, s.y, "")) = "")) <=>
                          (Falsy(used[s.x]) # Falsy(used[s.y]))
      OBVIOUS
    <3>1. s.x \in FieldKeys /\ s.y \in FieldKeys BY SocketReadKeysFacts
    <3> DEFINE A == Falsy(used[s.x])
               B == Falsy(used[s.y])
               C == Trim(Or(m, s.x, "")) = ""
               D == Trim(Or(m, s.y, "")) = ""
    <3>2. A \in BOOLEAN /\ B \in BOOLEAN /\ C \in BOOLEAN /\ D \in BOOLEAN BY DEF Falsy
    <3>3. (A <=> C) /\ (B <=> D) BY <3>1, <1>9, Zenon
    <3> HIDE DEF A, B, C, D
    <3>4. (C # D) <=> (A # B) BY <3>2, <3>3
    <3> QED BY <3>4 DEF A, B, C, D
  <2>2. {s \in SocketKeys : (Trim(Or(m, s.x, "")) = "") # (Trim(Or(m, s.y, "")) = "")}
          = {s \in SocketKeys : Falsy(used[s.x]) # Falsy(used[s.y])}
     BY <2>1, Zenon
  <2> QED BY <2>2, Zenon DEF UiFieldErrors
<1> HIDE DEF used, v, r
<1>11. CASE BadValues(m, UiRead) # {}
  BY <1>2, <1>11 DEF UiSocketErrors
<1>12. CASE BadValues(m, UiRead) = {}
  <2>1. \A k \in UiRead \cap DOMAIN m : used[k] = v[k]
    BY <1>12, <1>3 DEF BadValues, r
  <2>2. \A s \in SocketKeys : (Or(v, s.format, "none") = "geo-json") <=>
      (used[s.format] = "geo-json")
    BY <2>1, <1>4, <1>7, FormatDefaults, SocketReadKeysFacts DEF Or
  <2>3. \A s \in SocketKeys : Or(v, s.wkid, 4326) = used[s.wkid]
    BY <2>1, <1>4, <1>7, WkidDefaults, SocketReadKeysFacts DEF Or
  <2>4. UiWkidErrors(v) = {s.wkid : s \in {s \in SocketKeys : used[s.format] = "geo-json" /\ used[s.wkid] # 4326}}
    <3>1. {s \in SocketKeys : Or(v, s.format, "none") = "geo-json" /\ Or(v, s.wkid, 4326) # 4326}
          = {s \in SocketKeys : used[s.format] = "geo-json" /\ used[s.wkid] # 4326}
      <4>1. \A s \in SocketKeys : (Or(v, s.format, "none") = "geo-json" /\ Or(v, s.wkid, 4326) # 4326)
                                    <=> (used[s.format] = "geo-json" /\ used[s.wkid] # 4326)
        <5> SUFFICES ASSUME NEW s \in SocketKeys
                     PROVE  (Or(v, s.format, "none") = "geo-json" /\ Or(v, s.wkid, 4326) # 4326)
                                    <=> (used[s.format] = "geo-json" /\ used[s.wkid] # 4326)
          BY Zenon
        <5> DEFINE A == Or(v, s.format, "none") = "geo-json"
                   B == used[s.format] = "geo-json"
                   C == Or(v, s.wkid, 4326)
                   D == used[s.wkid]
        <5>1. A <=> B BY <2>2, Zenon
        <5>2. C = D BY <2>3
        <5> HIDE DEF A, B, C, D
        <5>3. (A /\ C # 4326) <=> (B /\ D # 4326) BY <5>1, <5>2
        <5> QED BY <5>3, Zenon DEF A, B, C, D
      <4> DEFINE P(s) == Or(v, s.format, "none") = "geo-json" /\ Or(v, s.wkid, 4326) # 4326
                 Q(s) == used[s.format] = "geo-json" /\ used[s.wkid] # 4326
      <4>2. \A s \in SocketKeys : P(s) <=> Q(s) BY <4>1, Zenon
      <4> HIDE DEF P, Q
      <4>3. {s \in SocketKeys : P(s)} = {s \in SocketKeys : Q(s)} BY <4>2
      <4> QED BY <4>3, Zenon DEF P, Q
    <3> QED BY <3>1, Zenon DEF UiWkidErrors
  <2>50. Or(v, "tcpHandshakeText", "") = used["tcpHandshakeText"]
    BY <2>1, <1>4, <1>7, HandshakeDefaults, SocketReadKeysFacts DEF Or
  <2>5. Or(v, "tcpHandshakeUseEscapes", TRUE) = used["tcpHandshakeUseEscapes"]
    BY <2>1, <1>4, <1>7, EscapeDefaults, SocketReadKeysFacts DEF Or
  <2>6. UiSocketErrors(m) = SocketErrors(used)
    BY <1>10, <1>12, <2>4, <2>5, <2>50, Zenon DEF UiSocketErrors, SocketErrors, v
  <2>7. ASSUME NEW k \in SocketKeysRead \cap DOMAIN UiPresets(m)
        PROVE  Shown(UiPresets(m), k) = used[k]
    <3>1. k \in DOMAIN m /\ UiPresets(m)[k] = v[k]
      <4> DEFINE presets == [j \in DOMAIN v \intersect UiPresetKeys |-> v[j]]
                 role == IF "protocol" \in DOMAIN v /\ Lower(v["protocol"]) = "xmpp"
                         THEN [mode |-> "client"] ELSE Nothing
                 rate == IF "rateMs" \in DOMAIN v THEN [intervalMs |-> v["rateMs"]] ELSE Nothing
      <4>1. UiPresets(m) = presets ++ role ++ rate BY DEF UiPresets, v
      <4>2. k # "mode" /\ k # "intervalMs"
        <5>1. k \in WindowKeys \cup {"httpPolling"} \cup FieldKeys
          BY SocketReadKeysFacts, SocketDomain
        <5> QED BY <5>1 DEF WindowKeys, FieldKeys
      <4>3. k \notin DOMAIN role BY <4>2 DEF Nothing
      <4>4. k \notin DOMAIN rate BY <4>2 DEF Nothing
      <4>5. DOMAIN presets = DOMAIN v \cap UiPresetKeys /\ \A j \in DOMAIN presets : presets[j] = v[j]
        OBVIOUS
      <4> HIDE DEF presets, role, rate
      <4>6. k \in DOMAIN presets /\ UiPresets(m)[k] = presets[k]
        BY <4>1, <4>3, <4>4 DEF ++
      <4> QED BY <4>5, <4>6, <1>7
    <3>2. CASE k \in UiRead
      <4>1. Settings[k] # Field
        <5>1. Field.is = "field" BY DEF Field, Kind
        <5> QED BY <3>2, <5>1, WindowKinds DEF ReadKinds
      <4> QED BY <3>1, <3>2, <4>1, <2>1 DEF Shown
    <3>3. CASE k \in FieldKeys
      <4>1. Settings[k] = Field BY <3>3, SocketTables, SettingsSplit
      <4> QED BY <3>1, <3>3, <4>1, <1>5, <1>6 DEF Shown
    <3> QED BY <3>2, <3>3, <1>1
  <2> QED BY <1>2, <1>12, <2>6, <2>7 DEF used
<1> QED BY <1>11, <1>12

-----------------------------------------------------------------------------
(* Whatever a launch says, it says in texts: of several pairs the last one *)
(* counts.                                                                 *)

\* A set of positions that is not empty has a last one.
LEMMA LargestIndex ==
    ASSUME NEW n \in Nat, NEW S, S \subseteq 1..n, S # {}
    PROVE  \E i \in S : \A j \in S : j <= i
<1> DEFINE T == {n - i : i \in S}
<1>1. T \subseteq Nat
  <2>1. \A i \in S : n - i \in Nat OBVIOUS
  <2> QED BY <2>1
<1>0. T # {} OBVIOUS
<1>2. PICK x \in T : \A y \in T : ~ (<<y, x>> \in OpToRel(<, Nat))
  BY <1>0, <1>1, NatLessThanWellFounded, WFMin
<1>3. \A y \in T : x <= y
  <2> SUFFICES ASSUME NEW y \in T PROVE x <= y OBVIOUS
  <2>1. x \in Nat /\ y \in Nat BY <1>1, <1>2
  <2>2. ~ (<<y, x>> \in OpToRel(<, Nat)) BY <1>2
  <2> HIDE DEF T
  <2>3. ~ (y < x) BY <2>1, <2>2 DEF OpToRel
  <2> QED BY <2>1, <2>3
<1>4. PICK i \in S : x = n - i BY <1>2
<1>5. \A j \in S : j <= i
  <2> SUFFICES ASSUME NEW j \in S PROVE j <= i OBVIOUS
  <2>1. n - j \in T OBVIOUS
  <2>2. x <= n - j BY <1>3, <2>1
  <2>3. i \in Int /\ j \in Int OBVIOUS
  <2> HIDE DEF T
  <2> QED BY <1>4, <2>2, <2>3
<1> QED BY <1>5

\* Every option said has a last pair that says it ...
LEMMA LastPair ==
    ASSUME NEW args \in Seq(CommandArguments), NEW k \in DOMAIN RawValues(args)
    PROVE  \E i \in DOMAIN args :
             /\ args[i].is = "pair" /\ args[i].key = k
             /\ \A j \in DOMAIN args : args[j].is = "pair" /\ args[j].key = k => j <= i
<1> DEFINE S == {i \in DOMAIN args : args[i].is = "pair" /\ args[i].key = k}
<1>1. Len(args) \in Nat /\ DOMAIN args = 1..Len(args) OBVIOUS
<1>2. S \subseteq 1..Len(args) BY <1>1
<1>3. DOMAIN RawValues(args) = {a.key : a \in ArgsOf(args, "pair")}
  BY DEF RawValues
<1>4. PICK a \in ArgsOf(args, "pair") : a.key = k BY <1>3
<1>5. S # {} BY <1>4 DEF ArgsOf
<1>6. PICK i \in S : \A j \in S : j <= i BY <1>1, <1>2, <1>5, LargestIndex
<1> QED BY <1>6

\* ... and its value is the option's.
LEMMA RawValueOf ==
    ASSUME NEW args \in Seq(CommandArguments), NEW i \in DOMAIN args, NEW k,
             args[i].is = "pair", args[i].key = k,
           \A j \in DOMAIN args : args[j].is = "pair" /\ args[j].key = k => j <= i
    PROVE  /\ k \in DOMAIN RawValues(args)
           /\ RawValues(args)[k] = IF k \in SECRET_OPTION_KEYS THEN args[i].value
                ELSE Trim(args[i].value)
<1> DEFINE P(n) == /\ args[n].is = "pair" /\ args[n].key = k
                   /\ \A j \in DOMAIN args : args[j].is = "pair" /\ args[j].key = k => j <= n
           c == CHOOSE n \in DOMAIN args : P(n)
<1>1. args[i] \in ArgsOf(args, "pair") BY DEF ArgsOf
<1>2. k \in DOMAIN RawValues(args) BY <1>1 DEF RawValues
<1>3. RawValues(args)[k] = IF k \in SECRET_OPTION_KEYS THEN args[c].value ELSE Trim(args[c].value)
  BY <1>2 DEF RawValues
<1>4. P(i) OBVIOUS
<1>5. c \in DOMAIN args /\ P(c) BY <1>4
<1>6. c <= i /\ i <= c BY <1>5
<1>7. i \in Int /\ c \in Int BY <1>5
<1> HIDE DEF c
<1>8. c = i BY <1>6, <1>7
<1> QED BY <1>2, <1>3, <1>8

\* trim() and toLowerCase() make texts, and leave what they made alone.
LEMMA TrimIsText ==
    ASSUME NEW v \in Texts
    PROVE  /\ Trim(v) \in Texts /\ Lower(v) \in Texts /\ Trim(Trim(v)) = Trim(v) /\ Lower(Lower(v)) = Lower(v)
           /\ Trim(Lower(Trim(v))) = Lower(Trim(v))
    BY TextsAreNormalised DEF TextAssumption, Normalises, Trim, Lower

LEMMA RawValuesAreTexts ==
    ASSUME NEW args \in Seq(CommandArguments), NEW k \in DOMAIN RawValues(args)
    PROVE  RawValues(args)[k] \in Texts
<1>1. PICK i \in DOMAIN args :
         /\ args[i].is = "pair" /\ args[i].key = k
         /\ \A j \in DOMAIN args : args[j].is = "pair" /\ args[j].key = k => j <= i
  BY LastPair
<1>2. args[i].value \in Texts BY <1>1 DEF CommandArguments
<1>3. RawValues(args)[k] = IF k \in SECRET_OPTION_KEYS THEN args[i].value ELSE Trim(args[i].value)
  BY <1>1, RawValueOf
<1> QED BY <1>2, <1>3, TrimIsText

\* The arguments and the configuration file together still say nothing but texts.
LEMMA MergedValuesAreTexts ==
    ASSUME NEW l \in Launches, NEW k \in DOMAIN MergedValues(l)
    PROVE  MergedValues(l)[k] \in Texts
<1> DEFINE file == IF NamesConfig(l.args) /\ l.readable THEN LoadRunConfig(l.file) ELSE Nothing
           Textual(f) == \A j \in DOMAIN f : f[j] \in Texts
<1>1. \A f, g : Textual(f) /\ Textual(g) => Textual(f ++ g) BY DEF ++
<1>2. Textual(l.file.output) /\ Textual(l.file.streaming) /\ Textual(l.file.connection)
      /\ Textual(l.file.headless) /\ Textual(l.file.top)
  BY LaunchAssumption DEF FileParts
<1>3. Textual([udpConnectionMode |-> "registered"]) /\ Textual(Nothing)
  <2>1. "registered" \in Texts BY TextsAreNormalised DEF TextAssumption, Words
  <2>2. Textual(Nothing) BY DEF Nothing
  <2> QED BY <2>1, <2>2
<1>4. Textual(RawValues(l.args)) BY RawValuesAreTexts, LaunchAssumption
<1>5. MergedValues(l) = RawValues(l.args) ++ file BY DEF MergedValues
<1> HIDE DEF Textual
<1>6. Textual(FlattenConfig(l.file))
  <2>1. Textual(l.file.output ++ l.file.streaming) BY <1>1, <1>2
  <2>2. Textual(l.file.output ++ l.file.streaming ++ l.file.connection) BY <1>1, <1>2, <2>1
  <2>3. Textual(l.file.output ++ l.file.streaming ++ l.file.connection ++ l.file.headless) BY <1>1, <1>2, <2>2
  <2> QED BY <1>1, <1>2, <2>3 DEF FlattenConfig
<1>7. Textual(LoadRunConfig(l.file))
  BY <1>1, <1>3, <1>6 DEF LoadRunConfig
<1>8. Textual(file) BY <1>3, <1>7
<1>9. Textual(MergedValues(l)) BY <1>1, <1>4, <1>5, <1>8
<1> QED BY <1>9 DEF Textual

-----------------------------------------------------------------------------
(* The options a headless launch ends with, setting by setting.            *)

\* The settings that XMPP's rules speak of.
AgreedKeys == XmppKeys \cup {"ip"}

LEMMA KeysAreSettings ==
    /\ \A k \in AgreedKeys : k \in DOMAIN Settings
    /\ \A k \in {"protocol", "mode", "port", "autoStart", "autoConnect", "waitForClient",
         "connectWaitForServer", "ip"} :
          k \in DOMAIN Settings /\ k \notin XmppKeys
<1>1. \A k \in {"protocol", "mode", "port", "autoStart", "autoConnect", "waitForClient",
    "connectWaitForServer", "ip"} :
      k \in SessionKeys
  BY DEF SessionKeys
<1> QED BY <1>1, SettingsDomain, Disjoint DEF AgreedKeys

\* Choosing the role leaves every other setting as it was read.
LEMMA WithRoleKeeps ==
    ASSUME NEW given, NEW k \in DOMAIN Settings, k # "mode", k # "port"
    PROVE  WithRole(given)[k] = ReadSettings(given)[k]
<1> DEFINE rd == ReadSettings(given)
<1>1. DOMAIN rd = DOMAIN Settings BY UsedValues
<1> HIDE DEF rd
<1>2. XmppDefaults(rd, given)[k] = rd[k] BY <1>1 DEF XmppDefaults
<1>3. WithRole(given) = IF rd["protocol"] = "xmpp" THEN XmppDefaults(rd, given) ELSE rd
  BY DEF WithRole, rd
<1> QED BY <1>2, <1>3 DEF rd

LEMMA WithRoleDomain ==
    ASSUME NEW given
    PROVE  DOMAIN WithRole(given) = DOMAIN Settings
<1> DEFINE rd == ReadSettings(given)
<1>1. DOMAIN rd = DOMAIN Settings BY UsedValues, SettingsDomain DEF SessionKeys
<1> HIDE DEF rd
<1>2. DOMAIN XmppDefaults(rd, given) = DOMAIN rd BY DEF XmppDefaults
<1>3. WithRole(given) = IF rd["protocol"] = "xmpp" THEN XmppDefaults(rd, given) ELSE rd
  BY DEF WithRole, rd
<1> QED BY <1>1, <1>2, <1>3

\* What is put right with a warning is three flags ...
LEMMA AdjustedKeeps ==
    ASSUME NEW o, NEW k \in DOMAIN o, k \notin {"autoConnect", "waitForClient",
             "connectWaitForServer"}
    PROVE  Adjusted(o)[k] = o[k] /\ k \in DOMAIN Adjusted(o)
    BY DEF Adjusted

\* ... and the destination, which becomes its normal form.
LEMMA DestinationsKeep ==
    ASSUME NEW o, NEW k \in DOMAIN o, k # "xmppDestination"
    PROVE  Destinations(o)[k] = o[k]
    BY DEF Destinations

LEMMA DestinationIs ==
    ASSUME NEW o, "xmppDestination" \in DOMAIN o, o["protocol"] = "xmpp"
    PROVE  Destinations(o)["xmppDestination"] =
              IF o["xmppDestination"] \in DOMAIN JidLists THEN JidLists[o["xmppDestination"]]
              ELSE o["xmppDestination"]
    BY DEF Destinations

\* All other settings are those the rules were applied to.
LEMMA HeadlessKeeps ==
    ASSUME NEW m, NEW k \in DOMAIN Settings,
           k \notin {"autoConnect", "waitForClient", "connectWaitForServer", "xmppDestination"}
    PROVE  HeadlessOptions(m)[k] = WithRole(NormalizeKnownKeys(m))[k]
<1> DEFINE o == WithRole(NormalizeKnownKeys(m))
<1>1. k \in DOMAIN o BY WithRoleDomain
<1> HIDE DEF o
<1>2. Adjusted(o)[k] = o[k] /\ k \in DOMAIN Adjusted(o) BY <1>1, AdjustedKeeps
<1>3. Destinations(Adjusted(o))[k] = Adjusted(o)[k] BY <1>2, DestinationsKeep
<1> QED BY <1>2, <1>3 DEF HeadlessOptions, o

LEMMA HeadlessDestination ==
    ASSUME NEW m, HeadlessOptions(m)["protocol"] = "xmpp"
    PROVE  LET o == WithRole(NormalizeKnownKeys(m)) IN
           HeadlessOptions(m)["xmppDestination"] =
              IF o["xmppDestination"] \in DOMAIN JidLists THEN JidLists[o["xmppDestination"]]
              ELSE o["xmppDestination"]
<1> DEFINE o == WithRole(NormalizeKnownKeys(m))
<1>1. "xmppDestination" \in XmppKeys BY DEF XmppKeys
<1>2. "xmppDestination" \in DOMAIN o /\ "protocol" \in DOMAIN o
  BY <1>1, KeysAreSettings, WithRoleDomain DEF AgreedKeys
<1>3. HeadlessOptions(m) = Destinations(Adjusted(o)) BY DEF HeadlessOptions
<1> HIDE DEF o
<1>4. /\ Adjusted(o)["xmppDestination"] = o["xmppDestination"]
      /\ "xmppDestination" \in DOMAIN Adjusted(o)
      /\ "protocol" \in DOMAIN Adjusted(o)
   BY <1>2, AdjustedKeeps
<1>5. Destinations(Adjusted(o))["protocol"] = Adjusted(o)["protocol"]
   BY <1>4, DestinationsKeep
<1>6. Adjusted(o)["protocol"] = "xmpp" BY <1>3, <1>5
<1> QED BY <1>3, <1>4, <1>6, DestinationIs DEF o

\* Reading rateMs as intervalMs leaves texts texts.
LEMMA GivenIsText ==
    ASSUME NEW m, \A k \in DOMAIN m : m[k] \in Texts
    PROVE  \A k \in DOMAIN NormalizeKnownKeys(m) : NormalizeKnownKeys(m)[k] \in Texts
<1>1. CASE "rateMs" \in DOMAIN m
  <2> DEFINE r == [intervalMs |-> m["rateMs"]]
  <2>1. \A k \in DOMAIN r : r[k] \in Texts BY <1>1
  <2>2. NormalizeKnownKeys(m) = m ++ r BY <1>1 DEF NormalizeKnownKeys
  <2> HIDE DEF r
  <2> QED BY <2>1, <2>2 DEF ++
<1>2. CASE "rateMs" \notin DOMAIN m
  BY <1>2 DEF NormalizeKnownKeys
<1> QED BY <1>1, <1>2

\* XMPP's timings are integers of 1 and more, their defaults too.
LEMMA TimingsAreSettings ==
    \A k \in XmppTimings : k \in XmppKeys /\ k # "xmppDestination"
    BY DEF XmppKeys, XmppTimings

LEMMA TimingKinds ==
    \A k \in XmppTimings : Settings[k].is = "integer" /\ Settings[k].of = 1
<1>1. From(1).is = "integer" /\ From(1).of = 1 BY DEF From, Kind
<1>2. \A k \in XmppTimings : XmppOptions[k] = From(1)
  BY DEF XmppOptions, XmppTimings
<1>3. \A k \in XmppTimings : Settings[k] = From(1)
  BY <1>2, TimingsAreSettings, SettingsSplit
<1> QED BY <1>1, <1>3

LEMMA TimingDefaults ==
    \A k \in XmppTimings : Defaults[k] \in Nat /\ Defaults[k] >= 1
<1>1. /\ XmppDefaultOptions["xmppConnectTimeoutMs"] = 30000
      /\ XmppDefaultOptions["xmppReplyTimeoutMs"] = 15000
      /\ XmppDefaultOptions["xmppPingIntervalMs"] = 60000
      /\ XmppDefaultOptions["xmppReconnectDelayMs"] = 60000
  BY DEF XmppDefaultOptions
<1>2. XmppTimings \subseteq XmppSet BY DEF XmppTimings, XmppSet
<1> QED BY <1>1, <1>2, DefaultsSplit DEF XmppTimings

\* A timing that was taken is one the transport takes.
LEMMA TimingsAreValid ==
    ASSUME NEW given, BadValues(given, DOMAIN Settings) = {}, NEW k \in XmppTimings
    PROVE  /\ ReadSettings(given)[k] \in Int /\ ReadSettings(given)[k] >= 1
           /\ k \in DOMAIN given =>
                ReadSettings(given)[k] = ParseInt[given[k]] /\ given[k] \in DOMAIN ParseInt
<1>1. k \in DOMAIN Settings BY TimingsAreSettings, SettingsDomain
<1>2. CASE k \notin DOMAIN given
  BY <1>1, <1>2, UsedValues, TimingDefaults
<1>3. CASE k \in DOMAIN given
  <2> DEFINE r == Read(Settings[k], given[k])
  <2>1. ~ r.error BY <1>1, <1>3 DEF BadValues
  <2>2. r = ParseInteger(Settings[k], given[k]) BY TimingKinds DEF Read
  <2>3. /\ given[k] \in DOMAIN ParseInt /\ InRange(Settings[k], ParseInt[given[k]])
        /\ r.value = ParseInt[given[k]]
    BY <2>1, <2>2 DEF ParseInteger, RefusesAs, Sets
  <2>4. ParseInt[given[k]] >= 1 BY <2>3, TimingKinds DEF InRange
  <2>5. ParseInt[given[k]] \in Int BY <2>3, TextsAreNormalised DEF TextAssumption
  <2>6. r.value # Unset BY <2>3, <2>5, TextsAreNormalised DEF TextAssumption
  <2>7. ReadSettings(given)[k] = r.value BY <1>1, <1>3, <2>6, UsedValues
  <2> HIDE DEF r
  <2> QED BY <2>3, <2>4, <2>5, <2>7
<1> QED BY <1>2, <1>3

\* The address is trimmed before it is judged.
LEMMA AddressIsTrimmed ==
    ASSUME NEW given, \A k \in DOMAIN given : given[k] \in Texts
    PROVE  ReadSettings(given)["ip"] \in Texts /\ Trim(ReadSettings(given)["ip"]) = ReadSettings(given)["ip"]
<1>1. "ip" \in SessionKeys /\ "ip" \in SessionSet BY DEF SessionKeys, SessionSet
<1>2. "ip" \in DOMAIN Settings BY <1>1, SettingsDomain
<1>3. SessionOptions["ip"] = Address BY DEF SessionOptions
<1>4. Settings["ip"].is = "address"
  <2>1. Address.is = "address" BY DEF Address, Kind
  <2> QED BY <1>1, <1>3, <2>1, SettingsSplit
<1>5. CASE "ip" \notin DOMAIN given
  <2>1. SessionDefaults["ip"] = "127.0.0.1" BY DEF SessionDefaults
  <2>2. Defaults["ip"] = "127.0.0.1" BY <1>1, <2>1, DefaultsSplit
  <2>3. "127.0.0.1" \in Texts /\ Trim("127.0.0.1") = "127.0.0.1"
    BY TextsAreNormalised DEF TextAssumption, Words, Trim
  <2> QED BY <1>2, <1>5, <2>2, <2>3, UsedValues
<1>6. CASE "ip" \in DOMAIN given
  <2>1. Read(Settings["ip"], given["ip"]).value = Trim(given["ip"]) BY <1>4 DEF Read, Sets
  <2>2. Trim(given["ip"]) # Unset BY <1>6, TrimIsText, TextsAreNormalised DEF TextAssumption
  <2>3. ReadSettings(given)["ip"] = Trim(given["ip"]) BY <1>2, <1>6, <2>1, <2>2, UsedValues
  <2> QED BY <1>6, <2>3, TrimIsText
<1> QED BY <1>5, <1>6

\* An accepted XMPP launch has passed every rule for a session and for XMPP.
LEMMA AcceptedXmpp ==
    ASSUME NEW m, HeadlessErrors(m) = {}, HeadlessOptions(m)["protocol"] = "xmpp"
    PROVE  LET o == WithRole(NormalizeKnownKeys(m)) IN
           /\ BadValues(NormalizeKnownKeys(m), DOMAIN Settings) = {}
           /\ SessionErrors(o) = {} /\ XmppErrors(o) = {} /\ o["protocol"] = "xmpp"
<1> DEFINE o == WithRole(NormalizeKnownKeys(m))
<1>1. "protocol" \in DOMAIN Settings BY KeysAreSettings
<1>2. o["protocol"] = "xmpp" BY <1>1, HeadlessKeeps
<1> HIDE DEF o
<1>3. HeadlessErrors(m) = BadValues(NormalizeKnownKeys(m), DOMAIN Settings) \union SocketErrors(o)
                          \union SessionErrors(o)
                          \union (IF o["protocol"] = "xmpp" THEN XmppErrors(o) ELSE {})
  BY DEF HeadlessErrors, o
<1> QED BY <1>2, <1>3 DEF o

LEMMA RuleKeys ==
    /\ \A k \in {"xmppConversation", "xmppRoom", "xmppNickname", "xmppUsername", "xmppPassword",
                 "xmppExternalUsername", "xmppExternalPassword", "xmppTlsCertPath",
                     "xmppTlsKeyPath",
                 "xmppAllowRemote", "xmppDomain", "xmppTlsPolicy", "ip", "mode", "port"} :
           /\ k \in DOMAIN Settings
           /\ k \notin {"autoConnect", "waitForClient", "connectWaitForServer", "xmppDestination"}
<1>1. \A k \in {"xmppConversation", "xmppRoom", "xmppNickname", "xmppUsername", "xmppPassword",
             "xmppExternalUsername", "xmppExternalPassword", "xmppTlsCertPath", "xmppTlsKeyPath",
             "xmppAllowRemote", "xmppDomain", "xmppTlsPolicy"} : k \in XmppKeys
  BY DEF XmppKeys
<1>2. \A k \in {"ip", "mode", "port"} : k \in SessionKeys BY DEF SessionKeys
<1>3. \A k \in {"xmppConversation", "xmppRoom", "xmppNickname", "xmppUsername", "xmppPassword",
             "xmppExternalUsername", "xmppExternalPassword", "xmppTlsCertPath", "xmppTlsKeyPath",
             "xmppAllowRemote", "xmppDomain", "xmppTlsPolicy", "ip", "mode", "port"} :
         k \notin {"autoConnect", "waitForClient", "connectWaitForServer", "xmppDestination"}
  OBVIOUS
<1> QED BY <1>1, <1>2, <1>3, SettingsDomain

\* The transport refuses no options the command line took, their names aside.
LEMMA TransportTakesIt ==
    ASSUME NEW m, \A k \in DOMAIN m : m[k] \in Texts,
           HeadlessErrors(m) = {}, HeadlessOptions(m)["protocol"] = "xmpp"
    PROVE  ~ OptionsRefused(HeadlessOptions(m))
<1> DEFINE given == NormalizeKnownKeys(m)
           o == WithRole(given)
           h == HeadlessOptions(m)
           dest == o["xmppDestination"]
<1>1. /\ BadValues(given, DOMAIN Settings) = {}
      /\ SessionErrors(o) = {} /\ XmppErrors(o) = {}
  BY AcceptedXmpp
<1>2. \A k \in {"xmppConversation", "xmppRoom", "xmppNickname", "xmppUsername", "xmppPassword",
             "xmppExternalUsername", "xmppExternalPassword", "xmppTlsCertPath", "xmppTlsKeyPath",
             "xmppAllowRemote", "ip", "mode"} : h[k] = o[k]
  BY RuleKeys, HeadlessKeeps
<1>3. h["xmppDestination"] = IF dest \in DOMAIN JidLists THEN JidLists[dest] ELSE dest
  BY HeadlessDestination
<1>4. \A k \in XmppTimings : h[k] >= 1
  <2> SUFFICES ASSUME NEW k \in XmppTimings PROVE h[k] >= 1 OBVIOUS
  <2>1. k \in DOMAIN Settings /\ k \notin SessionKeys /\ k # "xmppDestination"
    BY TimingsAreSettings, SettingsDomain, Disjoint
  <2>2. k \notin {"autoConnect", "waitForClient", "connectWaitForServer", "mode", "port"}
    BY <2>1 DEF SessionKeys
  <2>3. h[k] = o[k] BY <2>1, <2>2, HeadlessKeeps
  <2>4. o[k] = ReadSettings(given)[k] BY <2>1, <2>2, WithRoleKeeps
  <2>5. ReadSettings(given)[k] >= 1 BY <1>1, TimingsAreValid
  <2> HIDE DEF h, o, given
  <2> QED BY <2>3, <2>4, <2>5
<1>5. Trim(o["ip"]) = o["ip"]
  <2>1. \A k \in DOMAIN given : given[k] \in Texts BY GivenIsText
  <2>2. o["ip"] = ReadSettings(given)["ip"] BY WithRoleKeeps, KeysAreSettings
  <2> QED BY <2>1, <2>2, AddressIsTrimmed
<1> HIDE DEF h, o, given, dest
<1>6. ConversationErrors(o) = {}
  BY <1>1 DEF XmppErrors
<1>7. ~ Falsy(dest) => dest \in DOMAIN JidLists
  BY <1>1 DEF XmppErrors, dest
<1>8. ~ CommonRefused(h)
  <2>1. \A k \in XmppTimings : TimingIsValid(h[k]) BY <1>4 DEF TimingIsValid
  <2>2. o["xmppConversation"] = "muc" =>
      ~ Falsy(o["xmppRoom"]) /\ o["xmppNickname"] \notin BrokenNames
    BY <1>6 DEF ConversationErrors
  <2> QED BY <1>2, <2>1, <2>2 DEF CommonRefused
<1>9. ASSUME h["mode"] = "client"
      PROVE  ~ ClientRefused(h)
  <2>1. o["mode"] = "client" BY <1>2, <1>9
  <2>2. ClientErrors(o) = {} BY <1>1, <2>1 DEF XmppErrors
  <2>3. ~ Falsy(o["xmppUsername"]) /\ o["xmppPassword"] # NULL
    BY <2>2 DEF ClientErrors
  <2>4. ~ Falsy(o["ip"]) BY <1>1, <2>1 DEF SessionErrors
  <2>5. ASSUME h["xmppConversation"] = "direct"
        PROVE  h["xmppDestination"] \in DOMAIN JidLists
    <3>1. o["xmppConversation"] = "direct" BY <1>2, <2>5
    <3>2. ~ Falsy(o["xmppDestination"]) BY <1>6, <2>1, <3>1 DEF ConversationErrors
    <3> QED BY <1>3, <1>7, <3>2, JidListsAreNormalised DEF dest
  <2>6. ~ Falsy(Trim(h["ip"])) BY <1>2, <1>5, <2>4
  <2>7. ~ Falsy(h["xmppUsername"]) /\ h["xmppPassword"] # NULL BY <1>2, <2>3
  <2> QED BY <2>5, <2>6, <2>7 DEF ClientRefused
<1>10. ASSUME h["mode"] # "client"
       PROVE  ~ ServerRefused(h)
  <2>1. o["mode"] # "client" BY <1>2, <1>10
  <2>2. ServerErrors(o) = {} BY <1>1, <2>1 DEF XmppErrors
  <2>3. o["xmppAllowRemote"] = TRUE \/ o["ip"] = "" \/ Lower(o["ip"]) \in LoopbackHosts
    BY <2>2 DEF ServerErrors, Holds
  <2>4. ~ Falsy(o["xmppExternalUsername"]) /\ CanonicalName(o["xmppExternalUsername"]) # INTERNAL_APP_USERNAME
    BY <2>2 DEF ServerErrors
  <2>5. o["xmppExternalPassword"] # NULL
    BY <2>2 DEF ServerErrors
  <2>6. ~ (Falsy(o["xmppTlsCertPath"]) # Falsy(o["xmppTlsKeyPath"]))
    BY <2>2 DEF ServerErrors
  <2>7. ~ Falsy(h["xmppDestination"]) => h["xmppDestination"] \in DOMAIN JidLists
    BY <1>3, <1>7, JidListsAreNormalised
  <2>8. h["xmppAllowRemote"] = TRUE \/ h["ip"] = "" \/ Lower(h["ip"]) \in LoopbackHosts
    BY <1>2, <2>3
  <2>9. ~ Falsy(h["xmppExternalUsername"]) /\ CanonicalName(h["xmppExternalUsername"]) # INTERNAL_APP_USERNAME
    BY <1>2, <2>4
  <2>10. h["xmppExternalPassword"] # NULL BY <1>2, <2>5
  <2>11. ~ (Falsy(h["xmppTlsCertPath"]) # Falsy(h["xmppTlsKeyPath"])) BY <1>2, <2>6
  <2> QED BY <2>7, <2>8, <2>9, <2>10, <2>11 DEF ServerRefused
<1>11. ~ OptionsRefused(h) BY <1>8, <1>9, <1>10 DEF OptionsRefused
<1> QED BY <1>11 DEF h

-----------------------------------------------------------------------------
(* What is decided of a launch is decided once.                            *)

\* cliOptions is what the launch was parsed to, and neither changes.
ParsedOnce == launch \in Launches /\ cliOptions = ParseCommandLine(launch)

LEMMA LaunchIsParsedOnce == StartupSpec => []ParsedOnce
<1>1. StartupInit => ParsedOnce BY DEF StartupInit, ParsedOnce
<1>2. ParsedOnce /\ [StartupNext]_startVars => ParsedOnce'
<2> SUFFICES ASSUME ParsedOnce, [StartupNext]_startVars PROVE ParsedOnce'
  OBVIOUS
<2>1. UNCHANGED <<launch, cliOptions>>
  BY DEF StartupNext, StartHeadless, OpenWindow, ShowHelp, Refuse, GracefulExit, SessionStep,
     startupVars, startVars
<2> QED BY <2>1 DEF ParsedOnce
<1> QED BY <1>1, <1>2, PTL DEF StartupSpec

\* A headless launch is one no rule refused.
LEMMA HeadlessIsAccepted ==
    ASSUME ParsedOnce, cliOptions.mode = "headless"
    PROVE  /\ HeadlessErrors(MergedValues(launch)) = {}
           /\ cliOptions.headless = HeadlessOptions(MergedValues(launch))
<1> DEFINE merged == MergedValues(launch)
           refused == ArgumentErrors(launch)
                \union {k \in {"runMode"} : RunMode(merged) \notin {"ui", "silent", "headless"}}
                \union (IF HeadlessRequested(merged) THEN HeadlessErrors(merged)
                    ELSE UiSocketErrors(merged))
<1>1. cliOptions = IF HelpRequested(launch.args) THEN [mode |-> "help"]
      ELSE IF refused # {} THEN [mode |-> "error"]
      ELSE IF HeadlessRequested(merged) THEN [mode |-> "headless",
          headless |-> HeadlessOptions(merged)]
      ELSE [mode |-> "ui", presets |-> UiPresets(merged)]
  BY DEF ParsedOnce, ParseCommandLine
<1>2. ~ HelpRequested(launch.args) /\ refused = {} /\ HeadlessRequested(merged)
  <2> HIDE DEF refused
  <2> QED BY <1>1
<1>3. HeadlessErrors(merged) = {} BY <1>2
<1>4. cliOptions = [mode |-> "headless", headless |-> HeadlessOptions(merged)] BY <1>1, <1>2
<1> QED BY <1>3, <1>4

\* RulesAgree: the window and a headless launch take the same socket settings and mean the same
\* by them, and an XMPP launch the command line took is never refused by the transport, the
\* form of its names aside (cli-options.js:2384 and 2648).
THEOREM RulesHold == StartupSpec => []RulesAgree
<1>1. ParsedOnce => RulesAgree
<2> SUFFICES ASSUME ParsedOnce PROVE RulesAgree OBVIOUS
<2> DEFINE m == MergedValues(launch)
<2>1. launch \in Launches BY DEF ParsedOnce
<2>2. \A k \in DOMAIN m : m[k] \in Texts BY <2>1, MergedValuesAreTexts
<2>3. ValidatorsAgree BY <2>2, SameVerdict DEF ValidatorsAgree
<2>4. XmppRulesAgree
  <3> SUFFICES ASSUME IsXmpp(cliOptions) PROVE ~ OptionsRefused(cliOptions.headless)
    BY DEF XmppRulesAgree
  <3>1. /\ HeadlessErrors(m) = {} /\ cliOptions.headless = HeadlessOptions(m)
    BY HeadlessIsAccepted DEF IsXmpp
  <3>2. HeadlessOptions(m)["protocol"] = "xmpp" BY <3>1 DEF IsXmpp
  <3> QED BY <2>2, <3>1, <3>2, TransportTakesIt
<2> QED BY <2>3, <2>4 DEF RulesAgree
<1> QED BY <1>1, LaunchIsParsedOnce, PTL

-----------------------------------------------------------------------------
(* A block of option=value lines, each said once.                          *)

\* A sequence of pairs, the keys it says, that it says each once, and what it says.
PairSeq(q) == q \in Seq([is : {"pair"}, key : Texts, value : Texts])
KeysOf(q) == {q[i].key : i \in DOMAIN q}
SaysOnce(q) == \A i, j \in DOMAIN q : q[i].key = q[j].key => i = j
Says(q, k, v) == \E i \in DOMAIN q : q[i].key = k /\ q[i].value = v

\* Two blocks that share no key are one block.
LEMMA ConcatPairs ==
    ASSUME NEW p, NEW q, PairSeq(p), PairSeq(q), SaysOnce(p), SaysOnce(q),
             KeysOf(p) \cap KeysOf(q) = {}
    PROVE  /\ PairSeq(p \o q) /\ SaysOnce(p \o q) /\ KeysOf(p \o q) = KeysOf(p) \cup KeysOf(q)
           /\ \A k, v : Says(p, k, v) \/ Says(q, k, v) => Says(p \o q, k, v)
<1> USE DEF PairSeq
<1> DEFINE r == p \o q
<1>1. PairSeq(r) OBVIOUS
<1>2. /\ Len(p) \in Nat /\ Len(q) \in Nat
      /\ DOMAIN p = 1..Len(p) /\ DOMAIN q = 1..Len(q)
      /\ DOMAIN r = 1..(Len(p) + Len(q))
      /\ \A i \in DOMAIN p : i \in DOMAIN r /\ r[i] = p[i]
      /\ \A i \in DOMAIN q : i + Len(p) \in DOMAIN r /\ r[i + Len(p)] = q[i]
      /\ \A i \in DOMAIN r : i \notin DOMAIN p => i - Len(p) \in DOMAIN q /\ r[i] = q[i - Len(p)]
  OBVIOUS
<1> HIDE DEF r, PairSeq
<1>3. KeysOf(r) = KeysOf(p) \cup KeysOf(q)
  <2>1. \A i \in DOMAIN r : r[i].key \in KeysOf(p) \cup KeysOf(q) BY <1>2 DEF KeysOf
  <2>2. \A i \in DOMAIN p : p[i].key \in KeysOf(r) BY <1>2 DEF KeysOf
  <2>3. \A i \in DOMAIN q : q[i].key \in KeysOf(r) BY <1>2 DEF KeysOf
  <2> QED BY <2>1, <2>2, <2>3 DEF KeysOf
<1>4. SaysOnce(r)
  <2> SUFFICES ASSUME NEW i \in DOMAIN r, NEW j \in DOMAIN r, r[i].key = r[j].key PROVE i = j
    BY DEF SaysOnce
  <2>0. i \in Int /\ j \in Int /\ Len(p) \in Int BY <1>2
  <2>1. CASE i \in DOMAIN p /\ j \in DOMAIN p
    <3>1. p[i].key = p[j].key BY <2>1, <1>2
    <3> QED BY <2>1, <3>1 DEF SaysOnce
  <2>2. CASE i \notin DOMAIN p /\ j \notin DOMAIN p
    <3>1. /\ i - Len(p) \in DOMAIN q /\ j - Len(p) \in DOMAIN q
          /\ q[i - Len(p)].key = q[j - Len(p)].key BY <2>2, <1>2
    <3>2. i - Len(p) = j - Len(p) BY <3>1 DEF SaysOnce
    <3> QED BY <2>0, <3>2
  <2>3. CASE i \in DOMAIN p /\ j \notin DOMAIN p
    <3>1. j - Len(p) \in DOMAIN q /\ p[i].key = q[j - Len(p)].key BY <2>3, <1>2
    <3>2. p[i].key \in KeysOf(p) BY <2>3 DEF KeysOf
    <3>3. p[i].key \in KeysOf(q) BY <3>1 DEF KeysOf
    <3> QED BY <3>2, <3>3
  <2>4. CASE i \notin DOMAIN p /\ j \in DOMAIN p
    <3>1. i - Len(p) \in DOMAIN q /\ p[j].key = q[i - Len(p)].key BY <2>4, <1>2
    <3>2. p[j].key \in KeysOf(p) BY <2>4 DEF KeysOf
    <3>3. p[j].key \in KeysOf(q) BY <3>1 DEF KeysOf
    <3> QED BY <3>2, <3>3
  <2> QED BY <2>1, <2>2, <2>3, <2>4
<1>5. ASSUME NEW k, NEW v, Says(p, k, v) \/ Says(q, k, v) PROVE Says(r, k, v)
  <2>1. CASE Says(p, k, v) BY <2>1, <1>2 DEF Says
  <2>2. CASE Says(q, k, v) BY <2>2, <1>2 DEF Says
  <2> QED BY <1>5, <2>1, <2>2
<1> QED BY <1>1, <1>3, <1>4, <1>5 DEF r

\* Of a block that says each key once, every value counts; all but secrets are trimmed.
LEMMA PairValues ==
    ASSUME NEW q, PairSeq(q), SaysOnce(q)
    PROVE  /\ q \in Seq(CommandArguments)
           /\ DOMAIN RawValues(q) = KeysOf(q)
           /\ \A k, v : Says(q, k, v) => RawValues(q)[k] = IF k \in SECRET_OPTION_KEYS THEN v
                ELSE Trim(v)
           /\ ArgsOf(q, "word") = {} /\ ArgsOf(q, "flag") = {}
           /\ \A a \in ArgsOf(q, "pair") : a.key \in KeysOf(q)
<1>1. q \in Seq(CommandArguments)
  <2> DEFINE S == [is : {"pair"}, key : Texts, value : Texts]
  <2>1. S \subseteq CommandArguments BY DEF CommandArguments
  <2>2. q \in Seq(S) BY DEF PairSeq
  <2> HIDE DEF S
  <2> QED BY <2>1, <2>2
<1>2. \A i \in DOMAIN q : q[i].is = "pair"
  <2> DEFINE S == [is : {"pair"}, key : Texts, value : Texts]
  <2>1. \A s \in S : s.is = "pair" OBVIOUS
  <2>2. q \in Seq(S) BY DEF PairSeq
  <2> HIDE DEF S
  <2> QED BY <2>1, <2>2
<1>3. ArgsOf(q, "word") = {} /\ ArgsOf(q, "flag") = {} BY <1>2 DEF ArgsOf
<1>4. ArgsOf(q, "pair") = {q[i] : i \in DOMAIN q} BY <1>2 DEF ArgsOf
<1>5. \A a \in ArgsOf(q, "pair") : a.key \in KeysOf(q) BY <1>4 DEF KeysOf
<1>6. DOMAIN RawValues(q) = KeysOf(q)
  <2>1. DOMAIN RawValues(q) = {a.key : a \in ArgsOf(q, "pair")} BY DEF RawValues
  <2> QED BY <2>1, <1>4 DEF KeysOf
<1>7. ASSUME NEW k, NEW v, Says(q, k, v)
      PROVE  RawValues(q)[k] = IF k \in SECRET_OPTION_KEYS THEN v ELSE Trim(v)
  <2>1. PICK i \in DOMAIN q : q[i].key = k /\ q[i].value = v BY <1>7 DEF Says
  <2>2. DOMAIN q \subseteq Int BY DEF PairSeq
  <2>3. \A j \in DOMAIN q : q[j].is = "pair" /\ q[j].key = k => j <= i
    BY <2>1, <2>2 DEF SaysOnce
  <2> QED BY <1>1, <1>2, <2>1, <2>3, RawValueOf
<1> QED BY <1>1, <1>3, <1>5, <1>6, <1>7

\* A block that says the keys of S, each once.
LinesOf(q, S) == PairSeq(q) /\ SaysOnce(q) /\ KeysOf(q) = S

LEMMA OneLine ==
    ASSUME NEW k \in Texts, NEW v \in Texts
    PROVE  /\ LinesOf(<<Pair(k, v)>>, {k})
           /\ Says(<<Pair(k, v)>>, k, v)
<1> DEFINE q == <<Pair(k, v)>>
           S == [is : {"pair"}, key : Texts, value : Texts]
<1>1. DOMAIN q = {1} /\ q[1].key = k /\ q[1].value = v BY DEF Pair
<1>2. Pair(k, v) \in S BY DEF Pair
<1>3. PairSeq(q)
  <2> HIDE DEF S
  <2>1. q \in Seq(S) BY <1>2
  <2> QED BY <2>1 DEF PairSeq, S
<1> HIDE DEF q
<1>4. KeysOf(q) = {k} BY <1>1 DEF KeysOf
<1>5. SaysOnce(q) BY <1>1 DEF SaysOnce
<1>6. Says(q, k, v) BY <1>1 DEF Says
<1> QED BY <1>3, <1>4, <1>5, <1>6 DEF LinesOf, q

LEMMA MoreLines ==
    ASSUME NEW p, NEW q, NEW S, NEW T, LinesOf(p, S), LinesOf(q, T), S \cap T = {}
    PROVE  /\ LinesOf(p \o q, S \cup T)
           /\ \A k, v : Says(p, k, v) \/ Says(q, k, v) => Says(p \o q, k, v)
    BY ConcatPairs DEF LinesOf

LEMMA TwoLines ==
    ASSUME NEW k1 \in Texts, NEW v1 \in Texts, NEW k2 \in Texts, NEW v2 \in Texts, k1 # k2
    PROVE  LET q == <<Pair(k1, v1), Pair(k2, v2)>> IN
           LinesOf(q, {k1, k2}) /\ Says(q, k1, v1) /\ Says(q, k2, v2)
<1> DEFINE q == <<Pair(k1, v1), Pair(k2, v2)>>
           S == [is : {"pair"}, key : Texts, value : Texts]
<1>1. /\ DOMAIN q = {1, 2} /\ q[1].key = k1 /\ q[1].value = v1
      /\ q[2].key = k2 /\ q[2].value = v2 BY DEF Pair
<1>2. Pair(k1, v1) \in S /\ Pair(k2, v2) \in S BY DEF Pair
<1>3. PairSeq(q)
  <2> HIDE DEF S
  <2>1. q \in Seq(S) BY <1>2
  <2> QED BY <2>1 DEF PairSeq, S
<1> HIDE DEF q
<1>4. KeysOf(q) = {k1, k2} BY <1>1 DEF KeysOf
<1>5. SaysOnce(q) BY <1>1 DEF SaysOnce
<1>6. Says(q, k1, v1) /\ Says(q, k2, v2) BY <1>1 DEF Says
<1> QED BY <1>3, <1>4, <1>5, <1>6 DEF LinesOf, q

-----------------------------------------------------------------------------
(* The block a running server is copied as.                                *)

\* All that copied settings say is text.
WordsOf(s) ==
    /\ s.ip \in Texts /\ s.port \in Texts /\ s.protocol \in Texts /\ s.mode \in Texts
    /\ s.xmppDomain \in Texts /\ s.xmppTlsPolicy \in Texts /\ s.xmppAllowUnverifiedTls \in Texts
    /\ s.xmppUsername \in Texts /\ s.xmppPassword \in Texts /\ s.xmppResource \in Texts
    /\ s.xmppConversation \in Texts
    /\ s.xmppDestination \in Texts /\ s.xmppRoom \in Texts /\ s.xmppNickname \in Texts
    /\ \A k \in XmppTimings : s.timings[k] \in Texts

\* The keys of the lines every block has, and of those about the conversation.
FirstKeys == {"ip", "port", "protocol", "mode", "xmppDomain", "xmppTlsPolicy",
    "xmppAllowUnverifiedTls",
               "xmppUsername", "xmppPassword", "xmppResource", "xmppConversation"}
TalkKeys(s) == IF s.xmppConversation = "muc" THEN {"xmppRoom", "xmppNickname"}
    ELSE {"xmppDestination"}

LEMMA KeysAreTexts ==
    /\ FirstKeys \cup XmppTimings \cup {"xmppRoom", "xmppNickname", "xmppDestination",
         "runMode", "filename"}
         \subseteq Texts
<1> DEFINE K == {"ip", "port", "protocol", "mode", "filename"}
           X == {"xmppDomain", "xmppTlsPolicy", "xmppAllowUnverifiedTls",
             "xmppUsername", "xmppPassword", "xmppResource", "xmppConversation",
             "xmppRoom", "xmppNickname", "xmppDestination", "xmppConnectTimeoutMs",
                 "xmppReplyTimeoutMs",
             "xmppPingIntervalMs", "xmppReconnectDelayMs"}
<1>1. K \subseteq SessionKeys BY DEF SessionKeys
<1>2. X \subseteq XmppKeys BY DEF XmppKeys
<1>3. K \cup X \cup {"runMode"} \subseteq CLI_OPTION_KEYS
  BY <1>1, <1>2, SettingsDomain DEF CLI_OPTION_KEYS
<1>4. FirstKeys \cup XmppTimings \cup {"xmppRoom", "xmppNickname", "xmppDestination",
    "runMode", "filename"}
     \subseteq K \cup X \cup {"runMode"}
  BY DEF FirstKeys, XmppTimings
<1> QED BY <1>3, <1>4, OptionNamesAreTexts

\* The first eleven lines say what they should ...
LEMMA FirstLines ==
    ASSUME NEW s, WordsOf(s)
    PROVE  LET q == <<Pair("ip", s.ip), Pair("port", s.port), Pair("protocol", s.protocol),
             Pair("mode", s.mode),
                      Pair("xmppDomain", s.xmppDomain), Pair("xmppTlsPolicy", s.xmppTlsPolicy),
                      Pair("xmppAllowUnverifiedTls", s.xmppAllowUnverifiedTls),
                      Pair("xmppUsername", s.xmppUsername), Pair("xmppPassword", s.xmppPassword),
                      Pair("xmppResource", s.xmppResource),
                          Pair("xmppConversation", s.xmppConversation)>>
           IN  /\ LinesOf(q, FirstKeys)
               /\ Says(q, "ip", s.ip) /\ Says(q, "port", s.port) /\ Says(q, "protocol", s.protocol)
               /\ Says(q, "mode", s.mode) /\ Says(q, "xmppDomain", s.xmppDomain)
               /\ Says(q, "xmppTlsPolicy", s.xmppTlsPolicy)
               /\ Says(q, "xmppAllowUnverifiedTls", s.xmppAllowUnverifiedTls)
               /\ Says(q, "xmppUsername", s.xmppUsername) /\ Says(q, "xmppPassword", s.xmppPassword)
               /\ Says(q, "xmppResource", s.xmppResource)
               /\ Says(q, "xmppConversation", s.xmppConversation)
<1> DEFINE a == <<Pair("ip", s.ip), Pair("port", s.port)>>
           b == <<Pair("protocol", s.protocol), Pair("mode", s.mode)>>
           c == <<Pair("xmppDomain", s.xmppDomain), Pair("xmppTlsPolicy", s.xmppTlsPolicy)>>
           d == <<Pair("xmppAllowUnverifiedTls", s.xmppAllowUnverifiedTls),
               Pair("xmppUsername", s.xmppUsername)>>
           e == <<Pair("xmppPassword", s.xmppPassword), Pair("xmppResource", s.xmppResource)>>
           f == <<Pair("xmppConversation", s.xmppConversation)>>
           q == <<Pair("ip", s.ip), Pair("port", s.port), Pair("protocol", s.protocol),
               Pair("mode", s.mode),
                  Pair("xmppDomain", s.xmppDomain), Pair("xmppTlsPolicy", s.xmppTlsPolicy),
                  Pair("xmppAllowUnverifiedTls", s.xmppAllowUnverifiedTls),
                  Pair("xmppUsername", s.xmppUsername), Pair("xmppPassword", s.xmppPassword),
                  Pair("xmppResource", s.xmppResource),
                      Pair("xmppConversation", s.xmppConversation)>>
<1>0. q = a \o b \o c \o d \o e \o f OBVIOUS
<1>k. FirstKeys \subseteq Texts BY KeysAreTexts
<1>1. LinesOf(a, {"ip", "port"}) /\ Says(a, "ip", s.ip) /\ Says(a, "port", s.port)
  BY <1>k, TwoLines DEF WordsOf, FirstKeys
<1>2. LinesOf(b, {"protocol", "mode"}) /\ Says(b, "protocol", s.protocol) /\ Says(b, "mode", s.mode)
  BY <1>k, TwoLines DEF WordsOf, FirstKeys
<1>3. /\ LinesOf(c, {"xmppDomain", "xmppTlsPolicy"})
      /\ Says(c, "xmppDomain", s.xmppDomain) /\ Says(c, "xmppTlsPolicy", s.xmppTlsPolicy)
  BY <1>k, TwoLines DEF WordsOf, FirstKeys
<1>4. /\ LinesOf(d, {"xmppAllowUnverifiedTls", "xmppUsername"})
      /\ Says(d, "xmppAllowUnverifiedTls", s.xmppAllowUnverifiedTls) /\ Says(d, "xmppUsername", s.xmppUsername)
  BY <1>k, TwoLines DEF WordsOf, FirstKeys
<1>5. /\ LinesOf(e, {"xmppPassword", "xmppResource"})
      /\ Says(e, "xmppPassword", s.xmppPassword) /\ Says(e, "xmppResource", s.xmppResource)
  BY <1>k, TwoLines DEF WordsOf, FirstKeys
<1>6. LinesOf(f, {"xmppConversation"}) /\ Says(f, "xmppConversation", s.xmppConversation)
  BY <1>k, OneLine DEF WordsOf, FirstKeys
<1> HIDE DEF a, b, c, d, e, f, q
<1>7. /\ LinesOf(a \o b, {"ip", "port"} \cup {"protocol", "mode"})
      /\ \A k, v : Says(a, k, v) \/ Says(b, k, v) => Says(a \o b, k, v)
  BY <1>1, <1>2, MoreLines
<1>8. /\ LinesOf(a \o b \o c, {"ip", "port", "protocol", "mode"}
           \cup {"xmppDomain", "xmppTlsPolicy"})
      /\ \A k, v : Says(a \o b, k, v) \/ Says(c, k, v) => Says(a \o b \o c, k, v)
  <2>1. {"ip", "port"} \cup {"protocol", "mode"} = {"ip", "port", "protocol", "mode"} OBVIOUS
  <2>2. LinesOf(a \o b, {"ip", "port", "protocol", "mode"}) BY <1>7, <2>1
  <2>3. {"ip", "port", "protocol", "mode"} \cap {"xmppDomain", "xmppTlsPolicy"} = {} OBVIOUS
  <2> QED BY <1>3, <2>2, <2>3, MoreLines
<1>9. /\ LinesOf(a \o b \o c \o d, {"ip", "port", "protocol", "mode", "xmppDomain",
           "xmppTlsPolicy"}
                                  \cup {"xmppAllowUnverifiedTls", "xmppUsername"})
      /\ \A k, v : Says(a \o b \o c, k, v) \/ Says(d, k, v) => Says(a \o b \o c \o d, k, v)
  <2>1. {"ip", "port", "protocol", "mode"} \cup {"xmppDomain", "xmppTlsPolicy"}
        = {"ip", "port", "protocol", "mode", "xmppDomain", "xmppTlsPolicy"} OBVIOUS
  <2>2. LinesOf(a \o b \o c, {"ip", "port", "protocol", "mode", "xmppDomain",
      "xmppTlsPolicy"}) BY <1>8, <2>1
  <2>3. {"ip", "port", "protocol", "mode", "xmppDomain", "xmppTlsPolicy"}
          \cap {"xmppAllowUnverifiedTls", "xmppUsername"} = {} OBVIOUS
  <2> QED BY <1>4, <2>2, <2>3, MoreLines
<1>10. /\ LinesOf(a \o b \o c \o d \o e, {"ip", "port", "protocol", "mode", "xmppDomain",
            "xmppTlsPolicy",
                                          "xmppAllowUnverifiedTls", "xmppUsername"}
                                  \cup {"xmppPassword", "xmppResource"})
       /\ \A k, v : Says(a \o b \o c \o d, k, v) \/ Says(e, k, v) =>
                                                      Says(a \o b \o c \o d \o e, k, v)
  <2>1. {"ip", "port", "protocol", "mode", "xmppDomain", "xmppTlsPolicy"}
      \cup {"xmppAllowUnverifiedTls", "xmppUsername"}
        = {"ip", "port", "protocol", "mode", "xmppDomain", "xmppTlsPolicy",
            "xmppAllowUnverifiedTls", "xmppUsername"}
    OBVIOUS
  <2>2. LinesOf(a \o b \o c \o d, {"ip", "port", "protocol", "mode", "xmppDomain",
      "xmppTlsPolicy",
                                   "xmppAllowUnverifiedTls", "xmppUsername"}) BY <1>9, <2>1
  <2>3. {"ip", "port", "protocol", "mode", "xmppDomain", "xmppTlsPolicy",
      "xmppAllowUnverifiedTls", "xmppUsername"}
          \cap {"xmppPassword", "xmppResource"} = {} OBVIOUS
  <2> QED BY <1>5, <2>2, <2>3, MoreLines
<1>11. /\ LinesOf(q, FirstKeys)
       /\ \A k, v : Says(a \o b \o c \o d \o e, k, v) \/ Says(f, k, v) => Says(q, k, v)
  <2> DEFINE W == {"ip", "port", "protocol", "mode", "xmppDomain", "xmppTlsPolicy",
      "xmppAllowUnverifiedTls",
         "xmppUsername"} \cup {"xmppPassword", "xmppResource"}
  <2>1. W \cup {"xmppConversation"} = FirstKeys BY DEF FirstKeys
  <2>2. W \cap {"xmppConversation"} = {} OBVIOUS
  <2>3. LinesOf(a \o b \o c \o d \o e, W) BY <1>10
  <2> HIDE DEF W
  <2> QED BY <1>0, <1>6, <2>1, <2>2, <2>3, MoreLines
<1>12. /\ Says(q, "ip", s.ip) /\ Says(q, "port", s.port) /\ Says(q, "protocol", s.protocol)
       /\ Says(q, "mode", s.mode)
  BY <1>1, <1>2, <1>7, <1>8, <1>9, <1>10, <1>11, Zenon
<1>13. Says(q, "xmppDomain", s.xmppDomain) /\ Says(q, "xmppTlsPolicy", s.xmppTlsPolicy)
  BY <1>3, <1>8, <1>9, <1>10, <1>11, Zenon
<1>14. Says(q, "xmppAllowUnverifiedTls", s.xmppAllowUnverifiedTls) /\ Says(q, "xmppUsername", s.xmppUsername)
  BY <1>4, <1>9, <1>10, <1>11, Zenon
<1>15. Says(q, "xmppPassword", s.xmppPassword) /\ Says(q, "xmppResource", s.xmppResource)
  BY <1>5, <1>10, <1>11, Zenon
<1>16. Says(q, "xmppConversation", s.xmppConversation) BY <1>6, <1>11, Zenon
<1> QED BY <1>11, <1>12, <1>13, <1>14, <1>15, <1>16 DEF q

\* ... and so do the timings ...
LEMMA TimingLines ==
    ASSUME NEW s, WordsOf(s)
    PROVE  LET q == <<Pair("xmppConnectTimeoutMs", s.timings["xmppConnectTimeoutMs"]),
                      Pair("xmppReplyTimeoutMs", s.timings["xmppReplyTimeoutMs"]),
                      Pair("xmppPingIntervalMs", s.timings["xmppPingIntervalMs"]),
                      Pair("xmppReconnectDelayMs", s.timings["xmppReconnectDelayMs"])>>
           IN  LinesOf(q, XmppTimings) /\ \A k \in XmppTimings : Says(q, k, s.timings[k])
<1> DEFINE a == <<Pair("xmppConnectTimeoutMs", s.timings["xmppConnectTimeoutMs"]),
                  Pair("xmppReplyTimeoutMs", s.timings["xmppReplyTimeoutMs"])>>
           b == <<Pair("xmppPingIntervalMs", s.timings["xmppPingIntervalMs"]),
                  Pair("xmppReconnectDelayMs", s.timings["xmppReconnectDelayMs"])>>
           q == <<Pair("xmppConnectTimeoutMs", s.timings["xmppConnectTimeoutMs"]),
                  Pair("xmppReplyTimeoutMs", s.timings["xmppReplyTimeoutMs"]),
                  Pair("xmppPingIntervalMs", s.timings["xmppPingIntervalMs"]),
                  Pair("xmppReconnectDelayMs", s.timings["xmppReconnectDelayMs"])>>
           A == {"xmppConnectTimeoutMs", "xmppReplyTimeoutMs"}
           B == {"xmppPingIntervalMs", "xmppReconnectDelayMs"}
<1>0. q = a \o b OBVIOUS
<1>k. XmppTimings \subseteq Texts BY KeysAreTexts
<1>v. \A k \in XmppTimings : s.timings[k] \in Texts BY DEF WordsOf
<1>1. LinesOf(a, A) /\ \A k \in A : Says(a, k, s.timings[k])
  <2>1. /\ LinesOf(a, A) /\ Says(a, "xmppConnectTimeoutMs", s.timings["xmppConnectTimeoutMs"])
        /\ Says(a, "xmppReplyTimeoutMs", s.timings["xmppReplyTimeoutMs"])
    BY <1>k, <1>v, TwoLines DEF XmppTimings
  <2> HIDE DEF a
  <2> QED BY <2>1
<1>2. LinesOf(b, B) /\ \A k \in B : Says(b, k, s.timings[k])
  <2>1. /\ LinesOf(b, B) /\ Says(b, "xmppPingIntervalMs", s.timings["xmppPingIntervalMs"])
        /\ Says(b, "xmppReconnectDelayMs", s.timings["xmppReconnectDelayMs"])
    BY <1>k, <1>v, TwoLines DEF XmppTimings
  <2> HIDE DEF b
  <2> QED BY <2>1
<1>3. A \cap B = {} /\ A \cup B = XmppTimings BY DEF XmppTimings
<1> HIDE DEF a, b, q, A, B
<1>4. /\ LinesOf(a \o b, A \cup B)
      /\ \A k, v : Says(a, k, v) \/ Says(b, k, v) => Says(a \o b, k, v)
  BY <1>1, <1>2, <1>3, MoreLines
<1>5. LinesOf(q, XmppTimings) BY <1>0, <1>3, <1>4
<1>6. \A k \in XmppTimings : Says(q, k, s.timings[k]) BY <1>0, <1>1, <1>2, <1>3, <1>4
<1> QED BY <1>5, <1>6 DEF q

\* ... and the conversation.
LEMMA TalkLines ==
    ASSUME NEW s, WordsOf(s)
    PROVE  LET q == IF s.xmppConversation = "muc"
                    THEN <<Pair("xmppRoom", s.xmppRoom), Pair("xmppNickname", s.xmppNickname)>>
                    ELSE <<Pair("xmppDestination", s.xmppDestination)>>
           IN  /\ LinesOf(q, TalkKeys(s))
               /\ s.xmppConversation = "muc" =>
                    Says(q, "xmppRoom", s.xmppRoom) /\ Says(q, "xmppNickname", s.xmppNickname)
               /\ s.xmppConversation # "muc" => Says(q, "xmppDestination", s.xmppDestination)
<1>k. {"xmppRoom", "xmppNickname", "xmppDestination"} \subseteq Texts BY KeysAreTexts
<1>1. CASE s.xmppConversation = "muc" BY <1>1, <1>k, TwoLines DEF WordsOf, TalkKeys
<1>2. CASE s.xmppConversation # "muc" BY <1>2, <1>k, OneLine DEF WordsOf, TalkKeys
<1> QED BY <1>1, <1>2

\* The keys of the launch it is pasted into.
PasteKeys(s) == ({"runMode", "filename"} \cup FirstKeys) \cup (TalkKeys(s) \cup XmppTimings)

\* The pasted arguments say every setting, each once.
LEMMA PastedLines ==
    ASSUME NEW h, NEW ss, WordsOf(ClientSettings(h, ss))
    PROVE  LET q == PastedArguments(h, ss)
               s == ClientSettings(h, ss)
           IN  /\ LinesOf(q, PasteKeys(s))
               /\ Says(q, "runMode", "headless") /\ Says(q, "filename", "records")
               /\ Says(q, "ip", s.ip) /\ Says(q, "port", s.port) /\ Says(q, "protocol", s.protocol)
               /\ Says(q, "mode", s.mode) /\ Says(q, "xmppDomain", s.xmppDomain)
               /\ Says(q, "xmppTlsPolicy", s.xmppTlsPolicy)
               /\ Says(q, "xmppAllowUnverifiedTls", s.xmppAllowUnverifiedTls)
               /\ Says(q, "xmppUsername", s.xmppUsername) /\ Says(q, "xmppPassword", s.xmppPassword)
               /\ Says(q, "xmppResource", s.xmppResource)
               /\ Says(q, "xmppConversation", s.xmppConversation)
               /\ s.xmppConversation = "muc" =>
                    Says(q, "xmppRoom", s.xmppRoom) /\ Says(q, "xmppNickname", s.xmppNickname)
               /\ s.xmppConversation # "muc" => Says(q, "xmppDestination", s.xmppDestination)
               /\ \A k \in XmppTimings : Says(q, k, s.timings[k])
<1> DEFINE s == ClientSettings(h, ss)
<1>0. WordsOf(s) OBVIOUS
<1> DEFINE
      a == <<Pair("runMode", "headless"), Pair("filename", "records")>>
      b == <<Pair("ip", s.ip), Pair("port", s.port), Pair("protocol", s.protocol),
          Pair("mode", s.mode),
             Pair("xmppDomain", s.xmppDomain), Pair("xmppTlsPolicy", s.xmppTlsPolicy),
             Pair("xmppAllowUnverifiedTls", s.xmppAllowUnverifiedTls),
             Pair("xmppUsername", s.xmppUsername), Pair("xmppPassword", s.xmppPassword),
             Pair("xmppResource", s.xmppResource), Pair("xmppConversation", s.xmppConversation)>>
      c == IF s.xmppConversation = "muc"
           THEN <<Pair("xmppRoom", s.xmppRoom), Pair("xmppNickname", s.xmppNickname)>>
           ELSE <<Pair("xmppDestination", s.xmppDestination)>>
      d == <<Pair("xmppConnectTimeoutMs", s.timings["xmppConnectTimeoutMs"]),
             Pair("xmppReplyTimeoutMs", s.timings["xmppReplyTimeoutMs"]),
             Pair("xmppPingIntervalMs", s.timings["xmppPingIntervalMs"]),
             Pair("xmppReconnectDelayMs", s.timings["xmppReconnectDelayMs"])>>
      A == {"runMode", "filename"}
      q == PastedArguments(h, ss)
<1>1. /\ LinesOf(a, A) /\ Says(a, "runMode", "headless") /\ Says(a, "filename", "records")
  <2>1. "runMode" \in Texts /\ "filename" \in Texts BY KeysAreTexts
  <2>2. "headless" \in Texts /\ "records" \in Texts BY TextsAreNormalised DEF TextAssumption,
                                                       Words
  <2> QED BY <2>1, <2>2, TwoLines
<1> HIDE DEF s
<1>2. /\ LinesOf(b, FirstKeys)
      /\ Says(b, "ip", s.ip) /\ Says(b, "port", s.port) /\ Says(b, "protocol", s.protocol)
      /\ Says(b, "mode", s.mode) /\ Says(b, "xmppDomain", s.xmppDomain)
      /\ Says(b, "xmppTlsPolicy", s.xmppTlsPolicy)
      /\ Says(b, "xmppAllowUnverifiedTls", s.xmppAllowUnverifiedTls)
      /\ Says(b, "xmppUsername", s.xmppUsername) /\ Says(b, "xmppPassword", s.xmppPassword)
      /\ Says(b, "xmppResource", s.xmppResource)
      /\ Says(b, "xmppConversation", s.xmppConversation)
  BY <1>0, FirstLines, Zenon
<1>3. /\ LinesOf(c, TalkKeys(s))
      /\ s.xmppConversation = "muc" => Says(c, "xmppRoom", s.xmppRoom) /\ Says(c, "xmppNickname", s.xmppNickname)
      /\ s.xmppConversation # "muc" => Says(c, "xmppDestination", s.xmppDestination)
  BY <1>0, TalkLines, Zenon
<1>4. LinesOf(d, XmppTimings) /\ \A k \in XmppTimings : Says(d, k, s.timings[k])
  BY <1>0, TimingLines, Zenon
<1>5. q = a \o ((b \o c) \o d) BY DEF PastedArguments, SettingLines, s
<1> HIDE DEF a, b, c, d, q
<1>6. A \cap FirstKeys = {} /\ FirstKeys \cap TalkKeys(s) = {}
  BY DEF FirstKeys, TalkKeys
<1>7. (FirstKeys
    \cup TalkKeys(s)) \cap XmppTimings = {} /\ A \cap XmppTimings = {} /\ A \cap TalkKeys(s) = {}
  BY DEF FirstKeys, TalkKeys, XmppTimings
<1> HIDE DEF A
<1>8. /\ LinesOf(b \o c, FirstKeys \cup TalkKeys(s))
      /\ \A k, v : Says(b, k, v) \/ Says(c, k, v) => Says(b \o c, k, v)
  BY <1>2, <1>3, <1>6, MoreLines
<1>9. /\ LinesOf((b \o c) \o d, (FirstKeys \cup TalkKeys(s)) \cup XmppTimings)
      /\ \A k, v : Says(b \o c, k, v) \/ Says(d, k, v) => Says((b \o c) \o d, k, v)
  BY <1>4, <1>7, <1>8, MoreLines
<1>10. A \cap ((FirstKeys \cup TalkKeys(s)) \cup XmppTimings) = {} BY <1>6, <1>7
<1>11. /\ LinesOf(q, A \cup ((FirstKeys \cup TalkKeys(s)) \cup XmppTimings))
       /\ \A k, v : Says(a, k, v) \/ Says((b \o c) \o d, k, v) => Says(q, k, v)
  BY <1>1, <1>5, <1>9, <1>10, MoreLines
<1>12. A \cup ((FirstKeys \cup TalkKeys(s)) \cup XmppTimings) = PasteKeys(s) BY DEF PasteKeys, A
<1>13. LinesOf(q, PasteKeys(s)) BY <1>11, <1>12
<1>14. \A k, v : Says(a, k, v) \/ Says(b, k, v) \/ Says(c, k, v) \/ Says(d, k, v) => Says(q, k, v)
  BY <1>8, <1>9, <1>11, Zenon
<1>15. Says(q, "runMode", "headless") /\ Says(q, "filename", "records") BY <1>1, <1>14
<1>16. /\ Says(q, "ip", s.ip) /\ Says(q, "port", s.port) /\ Says(q, "protocol", s.protocol)
       /\ Says(q, "mode", s.mode) /\ Says(q, "xmppDomain", s.xmppDomain)
       /\ Says(q, "xmppTlsPolicy", s.xmppTlsPolicy)
       /\ Says(q, "xmppAllowUnverifiedTls", s.xmppAllowUnverifiedTls)
       /\ Says(q, "xmppUsername", s.xmppUsername) /\ Says(q, "xmppPassword", s.xmppPassword)
       /\ Says(q, "xmppResource", s.xmppResource)
       /\ Says(q, "xmppConversation", s.xmppConversation)
  BY <1>2, <1>14, Zenon
<1>17. /\ s.xmppConversation = "muc" => Says(q, "xmppRoom", s.xmppRoom) /\ Says(q, "xmppNickname", s.xmppNickname)
       /\ s.xmppConversation # "muc" => Says(q, "xmppDestination", s.xmppDestination)
  BY <1>3, <1>14, Zenon
<1>18. \A k \in XmppTimings : Says(q, k, s.timings[k]) BY <1>4, <1>14, Zenon
<1> QED BY <1>13, <1>15, <1>16, <1>17, <1>18 DEF s, q

-----------------------------------------------------------------------------
(* How the settings of an accepted server were read.                       *)

\* What a number is written as, read back.
Written(n) == /\ Decimal[n] \in Texts /\ Trim(Decimal[n]) = Decimal[n]
              /\ Decimal[n] \in DOMAIN ParseInt /\ ParseInt[Decimal[n]] = n

LEMMA WrittenNumbers ==
    /\ \A v \in DOMAIN ParseInt : Written(ParseInt[v])
    /\ Written(5222) /\ Written(15000) /\ Written(30000) /\ Written(60000)
    BY NumbersAreWritten DEF Written, Trim

\* The settings that are text.
TextKeys == {"xmppDomain", "xmppUsername", "xmppResource", "xmppExternalUsername",
    "xmppDestination",
             "xmppRoom", "xmppNickname"}

LEMMA TextKinds == \A k \in TextKeys : k \in XmppKeys /\ Settings[k].is = "text"
<1>1. Text.is = "text" BY DEF Text, Kind
<1>2. \A k \in TextKeys : XmppOptions[k] = Text BY DEF TextKeys, XmppOptions
<1>3. \A k \in TextKeys : k \in XmppKeys BY DEF TextKeys, XmppKeys
<1> QED BY <1>1, <1>2, <1>3, SettingsSplit

LEMMA WordKinds ==
    /\ Settings["xmppTlsPolicy"].is = "one of" /\ Settings["xmppTlsPolicy"].of = {"required",
                                                    "preferred", "disabled"}
    /\ Settings["xmppConversation"].is = "one of" /\ Settings["xmppConversation"].of = {"direct", "muc"}
    /\ Settings["protocol"].is = "one of" /\ "xmpp" \in Settings["protocol"].of
    /\ Settings["mode"].is = "one of" /\ "client" \in Settings["mode"].of
<1>1. \A S : OneOf(S).is = "one of" /\ OneOf(S).of = S BY DEF OneOf, Kind
<1>2. /\ XmppOptions["xmppTlsPolicy"] = OneOf({"required", "preferred", "disabled"})
      /\ XmppOptions["xmppConversation"] = OneOf({"direct", "muc"}) BY DEF XmppOptions
<1>3. /\ SessionOptions["protocol"] = OneOf({"tcp", "udp", "grpc", "http", "ws", "xmpp"})
      /\ SessionOptions["mode"] = OneOf({"server", "client"}) BY DEF SessionOptions
<1>4. "protocol" \in SessionKeys /\ "mode" \in SessionKeys BY DEF SessionKeys
<1>5. "xmppTlsPolicy" \in XmppKeys /\ "xmppConversation" \in XmppKeys BY DEF XmppKeys
<1>6. Settings["xmppTlsPolicy"] = OneOf({"required", "preferred", "disabled"}) BY <1>2, <1>5, SettingsSplit
<1>7. Settings["xmppConversation"] = OneOf({"direct", "muc"}) BY <1>2, <1>5, SettingsSplit
<1>8. Settings["protocol"] = OneOf({"tcp", "udp", "grpc", "http", "ws", "xmpp"}) BY <1>3, <1>4, SettingsSplit
<1>9. Settings["mode"] = OneOf({"server", "client"}) BY <1>3, <1>4, SettingsSplit
<1>10. Settings["xmppTlsPolicy"].is = "one of" /\ Settings["xmppTlsPolicy"].of = {"required",
                                                    "preferred", "disabled"}
  BY <1>1, <1>6, Zenon
<1>11. Settings["xmppConversation"].is = "one of" /\ Settings["xmppConversation"].of = {"direct", "muc"}
  BY <1>1, <1>7, Zenon
<1>12. Settings["protocol"].is = "one of" /\ Settings["protocol"].of = {"tcp", "udp", "grpc",
                                               "http", "ws", "xmpp"}
  BY <1>1, <1>8, Zenon
<1>13. Settings["mode"].is = "one of" /\ Settings["mode"].of = {"server", "client"}
  BY <1>1, <1>9, Zenon
<1>14. "xmpp" \in Settings["protocol"].of BY <1>12
<1>15. "client" \in Settings["mode"].of BY <1>13
<1> QED BY <1>10, <1>11, <1>12, <1>13, <1>14, <1>15, Zenon

LEMMA OtherKinds ==
    /\ Settings["xmppPassword"].is = "anything" /\ Settings["xmppExternalPassword"].is = "anything"
    /\ Settings["xmppAllowUnverifiedTls"].is = "boolean"
    /\ Settings["ip"].is = "address" /\ Settings["filename"].is = "path"
    /\ Settings["port"] = Port /\ Port.is = "port"
<1>1. Anything.is = "anything" /\ Boolean.is = "boolean" /\ Address.is = "address" /\ Path.is = "path"
  BY DEF Anything, Boolean, Address, Path, Kind
<1>2. Port.is = "port" BY DEF Port, Kind
<1>3. XmppOptions["xmppPassword"] = Anything /\ XmppOptions["xmppExternalPassword"] = Anything
      /\ XmppOptions["xmppAllowUnverifiedTls"] = Boolean BY DEF XmppOptions
<1>4. SessionOptions["ip"] = Address /\ SessionOptions["filename"] = Path BY DEF SessionOptions
<1>5. SessionOptions["port"] = Port BY DEF SessionOptions
<1>6. "ip" \in SessionKeys /\ "filename" \in SessionKeys /\ "port" \in SessionKeys BY DEF SessionKeys
<1>7. "xmppPassword" \in XmppKeys /\ "xmppExternalPassword" \in XmppKeys /\ "xmppAllowUnverifiedTls" \in XmppKeys
  BY DEF XmppKeys
<1> QED BY <1>1, <1>2, <1>3, <1>4, <1>5, <1>6, <1>7, SettingsSplit

\* XMPP's own port is one.
LEMMA OwnPortFits == InRange(Port, 5222)
<1>1. InRange(Port, 5222) <=> 5222 \in 1..Port.of BY OtherKinds, SMT DEF InRange
<1>2. Port.of = 65535 BY SMT DEF Port, Kind
<1>3. 5222 \in 1..65535 BY SMT
<1>4. 5222 \in 1..Port.of BY <1>2, <1>3, SMT
<1> QED BY <1>1, <1>4, SMT

\* What is used of a setting that no rule refused.
LEMMA UsedIsRead ==
    ASSUME NEW given, NEW k \in DOMAIN Settings \cap DOMAIN given,
             BadValues(given, DOMAIN Settings) = {}
    PROVE  /\ ~ Read(Settings[k], given[k]).error
           /\ Read(Settings[k], given[k]).value # Unset =>
                ReadSettings(given)[k] = Read(Settings[k], given[k]).value
           /\ Read(Settings[k], given[k]).value = Unset => ReadSettings(given)[k] = Defaults[k]
    BY UsedValues DEF BadValues

\* A text is trimmed, or the default.
LEMMA TextUsed ==
    ASSUME NEW given, \A k \in DOMAIN given : given[k] \in Texts,
             BadValues(given, DOMAIN Settings) = {},
           NEW k \in TextKeys
    PROVE  \/ ReadSettings(given)[k] = Defaults[k]
           \/ ReadSettings(given)[k] \in Texts /\ Trim(ReadSettings(given)[k]) = ReadSettings(given)[k]
<1>1. k \in DOMAIN Settings BY TextKinds, SettingsDomain
<1>2. CASE k \notin DOMAIN given BY <1>1, <1>2, UsedValues
<1>3. CASE k \in DOMAIN given
  <2>1. Read(Settings[k], given[k]) = IF given[k] = "" THEN Keeps ELSE Sets(Trim(given[k]))
    BY TextKinds DEF Read
  <2>2. Trim(given[k]) # Unset BY <1>3, TrimIsText, TextsAreNormalised DEF TextAssumption
  <2>3. Keeps.value = Unset /\ Sets(Trim(given[k])).value = Trim(given[k]) BY DEF Keeps, Sets
  <2>4. ReadSettings(given)[k] = IF given[k] = "" THEN Defaults[k] ELSE Trim(given[k])
    BY <1>1, <1>3, <2>1, <2>2, <2>3, UsedIsRead
  <2> QED BY <1>3, <2>4, TrimIsText
<1> QED BY <1>2, <1>3

\* A word is one of those known, or the default.
LEMMA WordUsed ==
    ASSUME NEW given, \A k \in DOMAIN given : given[k] \in Texts,
             BadValues(given, DOMAIN Settings) = {},
           NEW k \in DOMAIN Settings, Settings[k].is = "one of"
    PROVE  \/ ReadSettings(given)[k] = Defaults[k]
           \/ ReadSettings(given)[k] \in Settings[k].of
<1>2. CASE k \notin DOMAIN given BY <1>2, UsedValues
<1>3. CASE k \in DOMAIN given
  <2> DEFINE w == Lower(Trim(given[k]))
  <2>1. Read(Settings[k], given[k]) = IF w \in Settings[k].of THEN Sets(w) ELSE Refuses
    BY DEF Read
  <2>2. w # Unset BY <1>3, TrimIsText, TextsAreNormalised DEF TextAssumption
  <2>3. Refuses.error = TRUE /\ Sets(w).value = w BY DEF Refuses, RefusesAs, Sets
  <2> HIDE DEF w
  <2> QED BY <1>3, <2>1, <2>2, <2>3, UsedIsRead
<1> QED BY <1>2, <1>3

LEMMA AnythingUsed ==
    ASSUME NEW given, \A k \in DOMAIN given : given[k] \in Texts,
             BadValues(given, DOMAIN Settings) = {},
           NEW k \in DOMAIN Settings, Settings[k].is = "anything"
    PROVE  ReadSettings(given)[k] = Defaults[k] \/ ReadSettings(given)[k] \in Texts
<1>2. CASE k \notin DOMAIN given BY <1>2, UsedValues
<1>3. CASE k \in DOMAIN given
  <2>1. Read(Settings[k], given[k]) = Sets(given[k]) BY DEF Read
  <2>2. given[k] # Unset BY <1>3, TextsAreNormalised DEF TextAssumption
  <2> QED BY <1>3, <2>1, <2>2, UsedIsRead DEF Sets
<1> QED BY <1>2, <1>3

\* A number can be written and read again.
LEMMA PortUsed ==
    ASSUME NEW given, \A k \in DOMAIN given : given[k] \in Texts,
             BadValues(given, DOMAIN Settings) = {},
           "port" \in DOMAIN given
    PROVE  InRange(Port, ReadSettings(given)["port"]) /\ Written(ReadSettings(given)["port"])
<1> DEFINE v == given["port"]
           r == Read(Port, v)
<1>1. "port" \in DOMAIN Settings BY SettingsDomain DEF SessionKeys
<1>2. r = ParseInteger(Port, v) BY OtherKinds DEF Read
<1>3. ~ r.error BY <1>1, OtherKinds, UsedIsRead
<1> HIDE DEF r, v
<1>6. v \in DOMAIN ParseInt /\ InRange(Port, ParseInt[v]) /\ r = Sets(ParseInt[v])
  BY <1>2, <1>3 DEF ParseInteger, RefusesAs
<1>8. r.value = ParseInt[v] BY <1>6 DEF Sets
<1>9. ParseInt[v] # Unset BY <1>6, TextsAreNormalised DEF TextAssumption
<1>10. ReadSettings(given)["port"] = ParseInt[v]
  <2>1. Read(Settings["port"], given["port"]).value = ParseInt[v] BY <1>8, OtherKinds DEF r, v
  <2> QED BY <1>1, <1>9, <2>1, UsedIsRead
<1>11. Written(ParseInt[v]) BY <1>6, WrittenNumbers
<1> QED BY <1>6, <1>10, <1>11

LEMMA TimingUsed ==
    ASSUME NEW given, BadValues(given, DOMAIN Settings) = {}, NEW k \in XmppTimings
    PROVE  ReadSettings(given)[k] >= 1 /\ Written(ReadSettings(given)[k])
<1>1. ReadSettings(given)[k] >= 1 BY TimingsAreValid
<1>2. CASE k \in DOMAIN given BY <1>2, TimingsAreValid, WrittenNumbers
<1>3. CASE k \notin DOMAIN given
  <2>1. /\ XmppDefaultOptions["xmppConnectTimeoutMs"] = 30000
        /\ XmppDefaultOptions["xmppReplyTimeoutMs"] = 15000
        /\ XmppDefaultOptions["xmppPingIntervalMs"] = 60000
        /\ XmppDefaultOptions["xmppReconnectDelayMs"] = 60000
    BY DEF XmppDefaultOptions
  <2>2. XmppTimings \subseteq XmppSet BY DEF XmppTimings, XmppSet
  <2>3. Defaults[k] \in {15000, 30000, 60000} BY <2>1, <2>2, DefaultsSplit DEF XmppTimings
  <2>4. k \in DOMAIN Settings BY TimingsAreSettings, SettingsDomain
  <2>5. ReadSettings(given)[k] = Defaults[k] BY <1>3, <2>4, UsedValues
  <2>6. Written(15000) /\ Written(30000) /\ Written(60000) BY WrittenNumbers
  <2> QED BY <1>1, <2>3, <2>5, <2>6
<1> QED BY <1>1, <1>2, <1>3

\* What the words of an accepted server are.
ServerWords(h) ==
    /\ h["ip"] \in Texts /\ Trim(h["ip"]) = h["ip"]
    /\ h["xmppDomain"] \in Texts /\ Trim(h["xmppDomain"]) = h["xmppDomain"]
    /\ h["xmppTlsPolicy"] \in {"required", "preferred", "disabled"}
    /\ h["xmppConversation"] \in {"direct", "muc"}
    /\ h["xmppExternalUsername"] \in Texts /\ Trim(h["xmppExternalUsername"]) = h["xmppExternalUsername"]
    /\ h["xmppExternalPassword"] \in Texts
    /\ h["xmppNickname"] \in Texts /\ Trim(h["xmppNickname"]) = h["xmppNickname"]
    /\ h["xmppConversation"] = "muc" => h["xmppNickname"] \notin BrokenNames

LEMMA WordDefaults ==
    /\ Defaults["xmppDomain"] = "localhost" /\ Defaults["xmppTlsPolicy"] = "required"
    /\ Defaults["xmppConversation"] = "direct" /\ Defaults["xmppNickname"] = "velocity-simulator"
    /\ Defaults["xmppExternalUsername"] = NULL /\ Defaults["xmppExternalPassword"] = NULL
    /\ Defaults["xmppDestination"] = NULL
<1>1. /\ XmppDefaultOptions["xmppDomain"] = "localhost" /\ XmppDefaultOptions["xmppTlsPolicy"] = "required"
      /\ XmppDefaultOptions["xmppConversation"] = "direct"
      /\ XmppDefaultOptions["xmppNickname"] = "velocity-simulator"
  BY DEF XmppDefaultOptions
<1>2. {"xmppDomain", "xmppTlsPolicy", "xmppConversation", "xmppNickname"} \subseteq XmppSet BY DEF XmppSet
<1>3. {"xmppExternalUsername", "xmppExternalPassword",
    "xmppDestination"} \subseteq XmppKeys \ XmppSet
  BY DEF XmppKeys, XmppSet
<1> QED BY <1>1, <1>2, <1>3, DefaultsSplit

LEMMA ServerSays ==
    ASSUME NEW m, \A k \in DOMAIN m : m[k] \in Texts,
           HeadlessErrors(m) = {}, HeadlessOptions(m)["protocol"] = "xmpp",
               HeadlessOptions(m)["mode"] = "server"
    PROVE  ServerWords(HeadlessOptions(m))
<1> DEFINE given == NormalizeKnownKeys(m)
           rd == ReadSettings(given)
           o == WithRole(given)
           h == HeadlessOptions(m)
<1>1. /\ BadValues(given, DOMAIN Settings) = {} /\ XmppErrors(o) = {}
  BY AcceptedXmpp
<1>2. \A k \in DOMAIN given : given[k] \in Texts BY GivenIsText
<1>3. \A k \in {"xmppConversation", "xmppRoom", "xmppNickname", "xmppExternalUsername",
    "xmppExternalPassword",
             "xmppDomain", "xmppTlsPolicy", "ip"} : h[k] = rd[k]
  <2> SUFFICES ASSUME NEW k \in {"xmppConversation", "xmppRoom", "xmppNickname",
      "xmppExternalUsername",
                                 "xmppExternalPassword", "xmppDomain", "xmppTlsPolicy", "ip"}
               PROVE  h[k] = rd[k]
    OBVIOUS
  <2>1. /\ k \in DOMAIN Settings /\ k # "mode" /\ k # "port"
        /\ k \notin {"autoConnect", "waitForClient", "connectWaitForServer", "xmppDestination"}
    BY RuleKeys
  <2>2. h[k] = o[k] BY <2>1, HeadlessKeeps
  <2>3. o[k] = rd[k] BY <2>1, WithRoleKeeps
  <2> HIDE DEF h, o, rd
  <2> QED BY <2>2, <2>3
<1>4. h["mode"] = o["mode"] BY RuleKeys, HeadlessKeeps
<1>5. o["mode"] = "server" BY <1>4
<1> HIDE DEF h, o, rd
<1>6. ServerErrors(o) = {} /\ ConversationErrors(o) = {} BY <1>1, <1>5 DEF XmppErrors
<1>7. h["ip"] \in Texts /\ Trim(h["ip"]) = h["ip"] BY <1>2, <1>3, AddressIsTrimmed DEF rd
<1>8. h["xmppDomain"] \in Texts /\ Trim(h["xmppDomain"]) = h["xmppDomain"]
  <2>1. "localhost" \in Texts /\ Trim("localhost") = "localhost"
    BY TextsAreNormalised DEF TextAssumption, Words, Trim
  <2> QED BY <1>1, <1>2, <1>3, <2>1, TextUsed, WordDefaults DEF rd, TextKeys
<1>9. h["xmppNickname"] \in Texts /\ Trim(h["xmppNickname"]) = h["xmppNickname"]
  <2>1. "velocity-simulator" \in Texts /\ Trim("velocity-simulator") = "velocity-simulator"
    BY TextsAreNormalised DEF TextAssumption, Words, Trim
  <2> QED BY <1>1, <1>2, <1>3, <2>1, TextUsed, WordDefaults DEF rd, TextKeys
<1>10. h["xmppExternalUsername"] \in Texts /\ Trim(h["xmppExternalUsername"]) = h["xmppExternalUsername"]
  <2>1. o["xmppExternalUsername"] = rd["xmppExternalUsername"] BY RuleKeys, WithRoleKeeps DEF o, rd
  <2>2. ~ Falsy(o["xmppExternalUsername"]) BY <1>6 DEF ServerErrors
  <2>3. rd["xmppExternalUsername"] # NULL BY <2>1, <2>2 DEF Falsy
  <2> QED BY <1>1, <1>2, <1>3, <2>3, TextUsed, WordDefaults DEF rd, TextKeys
<1>11. h["xmppExternalPassword"] \in Texts
  <2>1. o["xmppExternalPassword"] = rd["xmppExternalPassword"] BY RuleKeys, WithRoleKeeps DEF o, rd
  <2>2. o["xmppExternalPassword"] # NULL BY <1>6 DEF ServerErrors
  <2>3. "xmppExternalPassword" \in DOMAIN Settings BY RuleKeys
  <2> QED BY <1>1, <1>2, <1>3, <2>1, <2>2, <2>3, AnythingUsed, OtherKinds, WordDefaults DEF rd
<1>12. h["xmppTlsPolicy"] \in {"required", "preferred", "disabled"}
  <2>1. "xmppTlsPolicy" \in DOMAIN Settings BY RuleKeys
  <2> QED BY <1>1, <1>2, <1>3, <2>1, WordUsed, WordKinds, WordDefaults DEF rd
<1>13. h["xmppConversation"] \in {"direct", "muc"}
  <2>1. "xmppConversation" \in DOMAIN Settings BY RuleKeys
  <2> QED BY <1>1, <1>2, <1>3, <2>1, WordUsed, WordKinds, WordDefaults DEF rd
<1>14. h["xmppConversation"] = "muc" => h["xmppNickname"] \notin BrokenNames
  <2>1. o["xmppConversation"] = h["xmppConversation"] /\ o["xmppNickname"] = h["xmppNickname"]
    BY RuleKeys, HeadlessKeeps DEF o, h
  <2> QED BY <1>6, <2>1 DEF ConversationErrors
<1>15. ServerWords(h) BY <1>7, <1>8, <1>9, <1>10, <1>11, <1>12, <1>13, <1>14 DEF ServerWords
<1> QED BY <1>15 DEF h

\* And so its port and its timings.
LEMMA ServerNumbers ==
    ASSUME NEW m, \A k \in DOMAIN m : m[k] \in Texts,
           HeadlessErrors(m) = {}, HeadlessOptions(m)["protocol"] = "xmpp"
    PROVE  LET h == HeadlessOptions(m) IN
           /\ InRange(Port, h["port"]) /\ Written(h["port"])
           /\ \A k \in XmppTimings : h[k] >= 1 /\ Written(h[k])
<1> DEFINE given == NormalizeKnownKeys(m)
           rd == ReadSettings(given)
           o == WithRole(given)
           h == HeadlessOptions(m)
<1>1. BadValues(given, DOMAIN Settings) = {} /\ o["protocol"] = "xmpp" BY AcceptedXmpp
<1>2. \A k \in DOMAIN given : given[k] \in Texts BY GivenIsText
<1>3. ASSUME NEW k \in XmppTimings PROVE h[k] >= 1 /\ Written(h[k])
  <2>1. k \in DOMAIN Settings /\ k \notin SessionKeys /\ k # "xmppDestination"
    BY TimingsAreSettings, SettingsDomain, Disjoint
  <2>2. k \notin {"autoConnect", "waitForClient", "connectWaitForServer", "mode", "port"}
    BY <2>1 DEF SessionKeys
  <2>3. h[k] = o[k] BY <2>1, <2>2, HeadlessKeeps
  <2>4. o[k] = rd[k] BY <2>1, <2>2, WithRoleKeeps
  <2>5. rd[k] >= 1 /\ Written(rd[k]) BY <1>1, TimingUsed
  <2> HIDE DEF h, o, rd
  <2> QED BY <2>3, <2>4, <2>5
<1>4. InRange(Port, h["port"]) /\ Written(h["port"])
  <2>1. h["port"] = o["port"] BY RuleKeys, HeadlessKeeps
  <2>2. "protocol" \in DOMAIN Settings /\ "port" \in DOMAIN rd
    BY KeysAreSettings, UsedValues
  <2>3. rd["protocol"] = "xmpp" BY <1>1, <2>2, WithRoleKeeps
  <2>4. o = XmppDefaults(rd, given) BY <2>3 DEF WithRole
  <2> HIDE DEF rd
  <2>5. o["port"] = IF "port" \in DOMAIN given THEN rd["port"] ELSE 5222
    BY <2>2, <2>4, SMT DEF XmppDefaults
  <2> HIDE DEF o, h
  <2>6. CASE "port" \in DOMAIN given
    <3>1. InRange(Port, rd["port"]) /\ Written(rd["port"]) BY <1>1, <1>2, <2>6, PortUsed DEF rd
    <3>2. h["port"] = rd["port"] BY <2>1, <2>5, <2>6, SMT
    <3> QED BY <3>1, <3>2, SMT
  <2>7. CASE "port" \notin DOMAIN given
    <3>1. InRange(Port, 5222) BY OwnPortFits
    <3>2. Written(5222) BY WrittenNumbers
    <3>3. h["port"] = 5222 BY <2>1, <2>5, <2>7, SMT
    <3> QED BY <3>1, <3>2, <3>3, SMT
  <2> QED BY <2>6, <2>7
<1> QED BY <1>3, <1>4

-----------------------------------------------------------------------------
(* What a server is copied as will be read as it is.                       *)

\* A text that will be read as it is.
Plain(v) == v \in Texts /\ Trim(v) = v /\ v # ""

LEMMA PlainWords ==
    \A v \in Words : v # "" => Plain(v) /\ Lower(v) = v
    BY TextsAreNormalised DEF TextAssumption, Plain, Trim, Lower

\* A server's domain, its account as it is compared, its nickname and its address.
LEMMA DomainIsPlain ==
    ASSUME NEW h, ServerWords(h), ~ NameRefused(h)
    PROVE  Plain(NormalDomain(h)) /\ Lower(NormalDomain(h)) = NormalDomain(h) /\ NormalDomain(h) \notin BadDomains
<1> DEFINE d == h["xmppDomain"]
           n == NormalDomain(h)
<1>1. d \in Texts /\ Trim(d) = d BY DEF ServerWords
<1>2. n \notin BadDomains BY DEF NameRefused, DomainsUsed
<1>3. n # "" BY <1>2, NamesAreNormalised
<1>4. n = IF d = "" THEN "localhost" ELSE Lower(d) BY DEF NormalDomain
<1>5. Plain("localhost") /\ Lower("localhost") = "localhost" BY PlainWords DEF Words
<1> HIDE DEF d, n
<1>6. Trim(Lower(d)) = Lower(d) /\ Lower(d) \in Texts /\ Lower(Lower(d)) = Lower(d)
  <2>1. Trim(Lower(Trim(d))) = Lower(Trim(d)) BY <1>1, TrimIsText
  <2> QED BY <1>1, <2>1, TrimIsText
<1>7. Plain(n) /\ Lower(n) = n BY <1>3, <1>4, <1>5, <1>6 DEF Plain
<1> QED BY <1>2, <1>7 DEF n

LEMMA AccountIsPlain ==
    ASSUME NEW h, ServerWords(h), ~ NameRefused(h), h["mode"] = "server"
    PROVE  LET c == ClientAccount(h) IN
           Plain(c) /\ CanonicalName(c) = c /\ ~ HasAt(c) /\ c \notin BadAccounts
<1> DEFINE u == h["xmppExternalUsername"]
           c == ClientAccount(h)
<1>1. u \in Texts /\ Trim(u) = u BY DEF ServerWords
<1>2. c = CanonicalName(u) BY DEF ClientAccount
<1>3. c \notin BadAccounts
  <2>1. Account(h) = u BY DEF Account
  <2> QED BY <1>2, <2>1 DEF NameRefused
<1>4. c # "" BY <1>3, NamesAreNormalised
<1> HIDE DEF u, c
<1>5. c \in Texts /\ c \notin DOMAIN JidParts /\ c \notin DOMAIN Trimmed /\ c \notin DOMAIN LowerCase
  <2>1. CASE u \in DOMAIN JidParts
    BY <1>2, <2>1, NamesAreNormalised DEF CanonicalName
  <2>2. CASE u \notin DOMAIN JidParts
    <3>1. c = Lower(u) BY <1>1, <1>2, <2>2 DEF CanonicalName
    <3>2. u \notin DOMAIN Trimmed
      BY <1>1, TextsAreNormalised DEF Trim, TextAssumption, Normalises
    <3>3. CASE u \in DOMAIN LowerCase
      <4>1. c = LowerCase[u] BY <3>1, <3>3 DEF Lower
      <4>2. c \notin DOMAIN JidParts BY <2>2, <3>3, <4>1, NamesAreNormalised
      <4>3. c \notin DOMAIN Trimmed /\ c \notin DOMAIN LowerCase /\ c \in Texts
        BY <3>2, <3>3, <4>1, TextsAreNormalised DEF TextAssumption, Normalises
      <4> QED BY <4>2, <4>3
    <3>4. CASE u \notin DOMAIN LowerCase
      BY <1>1, <2>2, <3>1, <3>2, <3>4 DEF Lower
    <3> QED BY <3>3, <3>4
  <2> QED BY <2>1, <2>2
<1>6. Trim(c) = c /\ Lower(c) = c BY <1>5 DEF Trim, Lower
<1>7. CanonicalName(c) = c BY <1>5, <1>6 DEF CanonicalName
<1>8. Plain(c) /\ ~ HasAt(c) BY <1>4, <1>5, <1>6 DEF Plain, HasAt
<1> QED BY <1>3, <1>7, <1>8 DEF c

LEMMA NicknameIsPlain ==
    ASSUME NEW h, ServerWords(h)
    PROVE  Plain(Nickname(h)) /\ (h["xmppConversation"] = "muc" => Nickname(h) \notin BrokenNames)
<1>1. Plain("velocity-simulator") BY PlainWords DEF Words
<1>2. "velocity-simulator" \notin BrokenNames BY NamesAreNormalised DEF INTERNAL_APP_USERNAME
<1> QED BY <1>1, <1>2 DEF Nickname, ServerWords, Falsy, Plain

LEMMA AddressIsPlain ==
    ASSUME NEW h, ServerWords(h)
    PROVE  Plain(BoundAddress(h["ip"]))
<1>1. Plain("127.0.0.1") BY PlainWords DEF Words
<1> QED BY <1>1 DEF BoundAddress, ServerWords, Plain

\* Copied settings that will be read as they are.
PlainSettings(s) ==
    /\ Plain(s.ip) /\ Plain(s.protocol) /\ Plain(s.mode)
    /\ Plain(s.xmppDomain) /\ Plain(s.xmppTlsPolicy) /\ Plain(s.xmppAllowUnverifiedTls)
    /\ Plain(s.xmppUsername) /\ Plain(s.xmppResource) /\ Plain(s.xmppConversation)
    /\ Plain(s.xmppDestination) /\ Plain(s.xmppRoom) /\ Plain(s.xmppNickname)

\* The addresses of a server are known to the constants (AddressesAreKnown).
Known(h) ==
    LET service == ServiceJid(NormalDomain(h)) IN
    /\ Plain(service)
    /\ service \in DOMAIN JidLists /\ JidLists[service] = service
    /\ h["xmppConversation"] = "muc" => Parses(RoomParts(h["xmppRoom"], NormalDomain(h)))

\* Where the server publishes.
Talks(h) == ServerIdentity(h).talksIn

LEMMA ServerIs ==
    ASSUME NEW h
    PROVE  /\ ServerIdentity(h).account = ClientAccount(h)
           /\ ServerIdentity(h).password = h["xmppExternalPassword"]
           /\ ServerIdentity(h).domain = NormalDomain(h)
           /\ ServerIdentity(h).tlsPolicy = h["xmppTlsPolicy"]
           /\ Talks(h) = IF h["xmppConversation"] = "muc"
                THEN resolveRoomJid(h["xmppRoom"], NormalDomain(h))
                         ELSE ServiceJid(NormalDomain(h))
    BY DEF ServerIdentity, ClientAccount, Talks

LEMMA SettingsAre ==
    ASSUME NEW h, NEW ss \in BOOLEAN
    PROVE  LET s == ClientSettings(h, ss) IN
           /\ s.ip = BoundAddress(h["ip"]) /\ s.port = Decimal[h["port"]]
           /\ s.protocol = "xmpp" /\ s.mode = "client"
           /\ s.xmppDomain = NormalDomain(h) /\ s.xmppTlsPolicy = h["xmppTlsPolicy"]
           /\ s.xmppAllowUnverifiedTls \in {"true", "false"}
           /\ s.xmppUsername = ClientAccount(h) /\ s.xmppPassword = h["xmppExternalPassword"]
           /\ s.xmppResource = "velocity-simulator"
           /\ s.xmppConversation = h["xmppConversation"]
           /\ s.xmppDestination = ServiceJid(NormalDomain(h)) /\ s.xmppRoom = Talks(h)
           /\ s.xmppNickname = Nickname(h)
           /\ \A k \in XmppTimings : s.timings[k] = Decimal[h[k]]
<1> DEFINE me == ServerIdentity(h)
           flag == IF ss THEN "true" ELSE "false"
           t == [k \in XmppTimings |-> Decimal[h[k]]]
           d == NormalDomain(h)
           jid == ServiceJid(d)
           who == ClientAccount(h)
           nick == Nickname(h)
           port == Decimal[h["port"]]
           ip == BoundAddress(h["ip"])
           c == h["xmppConversation"]
           s == ClientSettings(h, ss)
<1>1. /\ me.password = h["xmppExternalPassword"] /\ me.domain = d
      /\ me.tlsPolicy = h["xmppTlsPolicy"] /\ me.talksIn = Talks(h)
  BY ServerIs DEF Talks
<1>2. s = [ip |-> ip, port |-> port, protocol |-> "xmpp", mode |-> "client",
           xmppDomain |-> me.domain, xmppTlsPolicy |-> me.tlsPolicy,
               xmppAllowUnverifiedTls |-> flag,
           xmppUsername |-> who, xmppPassword |-> me.password,
               xmppResource |-> "velocity-simulator",
           xmppConversation |-> c, xmppDestination |-> ServiceJid(me.domain),
               xmppRoom |-> me.talksIn,
           xmppNickname |-> nick, timings |-> t]
  BY DEF ClientSettings
<1>3. flag \in {"true", "false"} OBVIOUS
<1>4. \A k \in XmppTimings : t[k] = Decimal[h[k]] OBVIOUS
<1> HIDE DEF me, flag, t, who, nick, port, ip, c, s
<1>5. /\ s.ip = ip /\ s.port = port /\ s.protocol = "xmpp" /\ s.mode = "client"
      /\ s.xmppDomain = me.domain /\ s.xmppTlsPolicy = me.tlsPolicy /\ s.xmppAllowUnverifiedTls = flag
      /\ s.xmppUsername = who /\ s.xmppPassword = me.password /\ s.xmppResource = "velocity-simulator"
      /\ s.xmppConversation = c /\ s.xmppDestination = ServiceJid(me.domain) /\ s.xmppRoom = me.talksIn
      /\ s.xmppNickname = nick /\ s.timings = t
  BY <1>2
<1>6. \A k \in XmppTimings : s.timings[k] = Decimal[h[k]] BY <1>4, <1>5, Zenon
<1> QED BY <1>1, <1>3, <1>5, <1>6, Zenon DEF who, nick, port, ip, c, s

LEMMA PlaceIsPlain ==
    ASSUME NEW h, Known(h)
    PROVE  Plain(Talks(h)) /\ Plain(ServiceJid(NormalDomain(h)))
<1>1. Plain(ServiceJid(NormalDomain(h))) BY DEF Known
<1>2. CASE h["xmppConversation"] = "muc"
  <2> DEFINE parts == RoomParts(h["xmppRoom"], NormalDomain(h))
             jid == BareJid(parts[1], parts[2])
  <2>1. Parses(parts) BY <1>2 DEF Known
  <2>2. jid = Talks(h) BY <1>2, ServerIs DEF resolveRoomJid
  <2> HIDE DEF parts
  <2>3. jid \in Texts \ ({""} \union DOMAIN Trimmed) BY <2>1 DEF Parses
  <2> HIDE DEF jid
  <2>4. Plain(jid) BY <2>3 DEF Plain, Trim
  <2> QED BY <1>1, <2>2, <2>4
<1>3. CASE h["xmppConversation"] # "muc" BY <1>1, <1>3, ServerIs
<1> QED BY <1>2, <1>3

\* Whatever an accepted server is copied as will be read as it is.
LEMMA SettingsArePlain ==
    ASSUME NEW h, NEW ss \in BOOLEAN, ServerWords(h), ~ NameRefused(h), h["mode"] = "server",
             Known(h),
           Written(h["port"]), \A k \in XmppTimings : Written(h[k])
    PROVE  PlainSettings(ClientSettings(h, ss)) /\ WordsOf(ClientSettings(h, ss))
<1> DEFINE s == ClientSettings(h, ss)
<1>1. Plain(s.ip) BY AddressIsPlain, SettingsAre
<1>2. Plain(s.xmppDomain) BY DomainIsPlain, SettingsAre
<1>3. Plain(s.xmppUsername) BY AccountIsPlain, SettingsAre
<1>4. Plain(s.xmppNickname) BY NicknameIsPlain, SettingsAre
<1>5. Plain(s.xmppDestination) /\ Plain(s.xmppRoom) BY PlaceIsPlain, SettingsAre
<1>6. Plain(s.protocol) /\ Plain(s.mode) /\ Plain(s.xmppResource)
  <2>1. Plain("xmpp") /\ Plain("client") /\ Plain("velocity-simulator") BY PlainWords DEF Words
  <2> QED BY <2>1, SettingsAre
<1>7. Plain(s.xmppAllowUnverifiedTls)
  <2>1. Plain("true") /\ Plain("false") BY PlainWords DEF Words
  <2> QED BY <2>1, SettingsAre
<1>8. Plain(s.xmppTlsPolicy)
  <2>1. Plain("required") /\ Plain("preferred") /\ Plain("disabled") BY PlainWords DEF Words
  <2> QED BY <2>1, SettingsAre DEF ServerWords
<1>9. Plain(s.xmppConversation)
  <2>1. Plain("direct") /\ Plain("muc") BY PlainWords DEF Words
  <2> QED BY <2>1, SettingsAre DEF ServerWords
<1>10. s.port \in Texts /\ Trim(s.port) = s.port BY SettingsAre DEF Written
<1>11. \A k \in XmppTimings : s.timings[k] \in Texts /\ Trim(s.timings[k]) = s.timings[k]
  BY SettingsAre DEF Written
<1>12. s.xmppPassword \in Texts BY SettingsAre DEF ServerWords
<1> HIDE DEF s
<1>13. WordsOf(s)
  BY <1>1, <1>2, <1>3, <1>4, <1>5, <1>6, <1>7, <1>8, <1>9, <1>10, <1>11, <1>12 DEF WordsOf, Plain
<1>14. PlainSettings(s)
  BY <1>1, <1>2, <1>3, <1>4, <1>5, <1>6, <1>7, <1>8, <1>9 DEF PlainSettings
<1> QED BY <1>13, <1>14 DEF s

-----------------------------------------------------------------------------
(* The launch that the block was pasted into.                              *)

\* What a launch says that the copied block was pasted into.
SaysSettings(m, s) ==
    /\ DOMAIN m = PasteKeys(s)
    /\ m["runMode"] = "headless" /\ m["filename"] = "records"
    /\ m["ip"] = s.ip /\ m["port"] = s.port /\ m["protocol"] = "xmpp" /\ m["mode"] = "client"
    /\ m["xmppDomain"] = s.xmppDomain /\ m["xmppTlsPolicy"] = s.xmppTlsPolicy
    /\ m["xmppAllowUnverifiedTls"] = s.xmppAllowUnverifiedTls
    /\ m["xmppUsername"] = s.xmppUsername /\ m["xmppPassword"] = s.xmppPassword
    /\ m["xmppResource"] = s.xmppResource /\ m["xmppConversation"] = s.xmppConversation
    /\ s.xmppConversation = "muc" =>
         m["xmppRoom"] = s.xmppRoom /\ m["xmppNickname"] = s.xmppNickname
    /\ s.xmppConversation # "muc" => m["xmppDestination"] = s.xmppDestination
    /\ \A k \in XmppTimings : m[k] = s.timings[k]

\* It names settings only, none of them a socket's, a configuration file or help.
LEMMA PasteKeysAre ==
    ASSUME NEW s
    PROVE  /\ PasteKeys(s) \subseteq DOMAIN Settings \cup {"runMode"}
           /\ {"runMode", "filename", "ip", "port", "protocol", "mode", "xmppDomain",
                "xmppTlsPolicy",
               "xmppAllowUnverifiedTls", "xmppUsername", "xmppPassword", "xmppResource",
                   "xmppConversation"}
                \subseteq PasteKeys(s)
           /\ s.xmppConversation = "muc" =>
                "xmppRoom" \in PasteKeys(s) /\ "xmppNickname" \in PasteKeys(s)
                                            /\ "xmppDestination" \notin PasteKeys(s)
           /\ s.xmppConversation # "muc" => "xmppDestination" \in PasteKeys(s)
           /\ XmppTimings \subseteq PasteKeys(s)
           /\ "rateMs" \notin PasteKeys(s) /\ "config" \notin PasteKeys(s)
           /\ "endLine" \notin PasteKeys(s) /\ PasteKeys(s) \cap HelpWords = {}
           /\ PasteKeys(s) \cap (WindowKeys \cup FieldKeys) = {}
<1> DEFINE K == {"filename", "ip", "port", "protocol", "mode"}
           X == {"xmppDomain", "xmppTlsPolicy", "xmppAllowUnverifiedTls",
             "xmppUsername", "xmppPassword", "xmppResource", "xmppConversation",
             "xmppRoom", "xmppNickname", "xmppDestination", "xmppConnectTimeoutMs",
                 "xmppReplyTimeoutMs",
             "xmppPingIntervalMs", "xmppReconnectDelayMs"}
<1>1. K \subseteq SessionKeys /\ X \subseteq XmppKeys BY DEF SessionKeys, XmppKeys
<1>2. PasteKeys(s) \subseteq K \cup X \cup {"runMode"}
  BY DEF PasteKeys, FirstKeys, TalkKeys, XmppTimings
<1>3. PasteKeys(s) \subseteq DOMAIN Settings \cup {"runMode"} BY <1>1, <1>2, SettingsDomain
<1>4. PasteKeys(s) \cap (WindowKeys \cup FieldKeys) = {}
  <2>1. "runMode" \notin WindowKeys \cup FieldKeys BY DEF WindowKeys, FieldKeys
  <2>2. K \cap (WindowKeys \cup FieldKeys) = {} BY <1>1, Disjoint
  <2>3. X \cap (WindowKeys \cup FieldKeys) = {} BY <1>1, Disjoint
  <2> HIDE DEF K, X
  <2> QED BY <1>2, <2>1, <2>2, <2>3
<1>5. {"rateMs", "config", "endLine"} \cap (K \cup X \cup {"runMode"}) = {} OBVIOUS
<1>6. HelpWords \cap (K \cup X \cup {"runMode"}) = {} BY DEF HelpWords, HelpKeys
<1>7. {"runMode", "filename", "ip", "port", "protocol", "mode", "xmppDomain", "xmppTlsPolicy",
           "xmppAllowUnverifiedTls", "xmppUsername", "xmppPassword", "xmppResource",
               "xmppConversation"}
            \subseteq PasteKeys(s)
  BY DEF PasteKeys, FirstKeys
<1>8. XmppTimings \subseteq PasteKeys(s) BY DEF PasteKeys
<1>9. s.xmppConversation = "muc" => "xmppRoom" \in PasteKeys(s) /\ "xmppNickname" \in PasteKeys(s)
                                    /\ "xmppDestination" \notin PasteKeys(s)
  BY DEF PasteKeys, TalkKeys, FirstKeys, XmppTimings
<1>10. s.xmppConversation # "muc" => "xmppDestination" \in PasteKeys(s)
  BY DEF PasteKeys, TalkKeys
<1>11. "rateMs" \notin PasteKeys(s) /\ "config" \notin PasteKeys(s)
       /\ "endLine" \notin PasteKeys(s) /\ PasteKeys(s) \cap HelpWords = {}
  <2> HIDE DEF K, X
  <2> QED BY <1>2, <1>5, <1>6
<1> QED BY <1>3, <1>4, <1>7, <1>8, <1>9, <1>10, <1>11

\* The arguments say it, and nothing but pairs.
LEMMA PastedValues ==
    ASSUME NEW h, NEW ss \in BOOLEAN, NEW s, s = ClientSettings(h, ss), s.protocol = "xmpp",
             s.mode = "client",
           PlainSettings(s), WordsOf(s), Trim(s.port) = s.port,
               \A k \in XmppTimings : Trim(s.timings[k]) = s.timings[k]
    PROVE  LET q == PastedArguments(h, ss) IN
           /\ SaysSettings(RawValues(q), s)
           /\ q \in Seq(CommandArguments)
           /\ ArgsOf(q, "word") = {} /\ ArgsOf(q, "flag") = {}
           /\ \A a \in ArgsOf(q, "pair") : a.key \in PasteKeys(s)
<1> DEFINE q == PastedArguments(h, ss)
           m == RawValues(q)
<1>1. /\ LinesOf(q, PasteKeys(s))
      /\ Says(q, "runMode", "headless") /\ Says(q, "filename", "records")
      /\ Says(q, "ip", s.ip) /\ Says(q, "port", s.port) /\ Says(q, "protocol", s.protocol)
      /\ Says(q, "mode", s.mode) /\ Says(q, "xmppDomain", s.xmppDomain)
      /\ Says(q, "xmppTlsPolicy", s.xmppTlsPolicy)
      /\ Says(q, "xmppAllowUnverifiedTls", s.xmppAllowUnverifiedTls)
      /\ Says(q, "xmppUsername", s.xmppUsername) /\ Says(q, "xmppPassword", s.xmppPassword)
      /\ Says(q, "xmppResource", s.xmppResource)
      /\ Says(q, "xmppConversation", s.xmppConversation)
      /\ s.xmppConversation = "muc" => Says(q, "xmppRoom", s.xmppRoom) /\ Says(q, "xmppNickname", s.xmppNickname)
      /\ s.xmppConversation # "muc" => Says(q, "xmppDestination", s.xmppDestination)
      /\ \A k \in XmppTimings : Says(q, k, s.timings[k])
  BY PastedLines, Zenon
<1> HIDE DEF q
<1>2. PairSeq(q) /\ SaysOnce(q) /\ KeysOf(q) = PasteKeys(s) BY <1>1 DEF LinesOf
<1>3. /\ q \in Seq(CommandArguments)
      /\ DOMAIN m = PasteKeys(s)
      /\ \A k, v : Says(q, k, v) => m[k] = IF k \in SECRET_OPTION_KEYS THEN v ELSE Trim(v)
      /\ ArgsOf(q, "word") = {} /\ ArgsOf(q, "flag") = {}
      /\ \A a \in ArgsOf(q, "pair") : a.key \in PasteKeys(s)
  BY <1>2, PairValues, Zenon
<1> HIDE DEF m
<1>4. \A k, v : Says(q, k, v) /\ Trim(v) = v => m[k] = v BY <1>3
<1>5. m["xmppPassword"] = s.xmppPassword
  <2>1. "xmppPassword" \in SECRET_OPTION_KEYS BY DEF SECRET_OPTION_KEYS
  <2>2. m["xmppPassword"] = IF "xmppPassword" \in SECRET_OPTION_KEYS THEN s.xmppPassword
      ELSE Trim(s.xmppPassword)
    BY <1>1, <1>3, Zenon
  <2> QED BY <2>1, <2>2, Zenon
<1>6. Trim("headless") = "headless" /\ Trim("records") = "records"
  BY PlainWords DEF Words, Plain
<1>7. m["runMode"] = "headless" /\ m["filename"] = "records" BY <1>1, <1>4, <1>6, Zenon
<1>8. m["port"] = s.port /\ \A k \in XmppTimings : m[k] = s.timings[k] BY <1>1, <1>4, Zenon
<1>9. /\ Trim(s.ip) = s.ip /\ Trim(s.protocol) = s.protocol /\ Trim(s.mode) = s.mode
      /\ Trim(s.xmppDomain) = s.xmppDomain /\ Trim(s.xmppTlsPolicy) = s.xmppTlsPolicy
      /\ Trim(s.xmppAllowUnverifiedTls) = s.xmppAllowUnverifiedTls
      /\ Trim(s.xmppUsername) = s.xmppUsername /\ Trim(s.xmppResource) = s.xmppResource
      /\ Trim(s.xmppConversation) = s.xmppConversation /\ Trim(s.xmppDestination) = s.xmppDestination
      /\ Trim(s.xmppRoom) = s.xmppRoom /\ Trim(s.xmppNickname) = s.xmppNickname
  BY Zenon DEF PlainSettings, Plain
<1>10. m["ip"] = s.ip /\ m["protocol"] = s.protocol /\ m["mode"] = s.mode BY <1>1, <1>4, <1>9
<1>11. /\ m["xmppDomain"] = s.xmppDomain /\ m["xmppTlsPolicy"] = s.xmppTlsPolicy
       /\ m["xmppAllowUnverifiedTls"] = s.xmppAllowUnverifiedTls BY <1>1, <1>4, <1>9
<1>12. /\ m["xmppUsername"] = s.xmppUsername /\ m["xmppResource"] = s.xmppResource
       /\ m["xmppConversation"] = s.xmppConversation BY <1>1, <1>4, <1>9
<1>13. s.xmppConversation = "muc" =>
    m["xmppRoom"] = s.xmppRoom /\ m["xmppNickname"] = s.xmppNickname
  BY <1>1, <1>4, <1>9
<1>14. s.xmppConversation # "muc" => m["xmppDestination"] = s.xmppDestination
  BY <1>1, <1>4, <1>9
<1>15. m["protocol"] = "xmpp" /\ m["mode"] = "client" BY <1>10
<1>16. SaysSettings(m, s)
  BY <1>3, <1>5, <1>7, <1>8, <1>10, <1>11, <1>12, <1>13, <1>14, <1>15, Zenon DEF SaysSettings
<1> QED BY <1>3, <1>16, Zenon DEF q, m

\* Nothing in the arguments stands in the way, and the configuration file is not read.
LEMMA PastedLaunch ==
    ASSUME NEW l, NEW s, SaysSettings(RawValues(l.args), s), WordsOf(s), Plain(s.ip),
           ArgsOf(l.args, "word") = {}, ArgsOf(l.args, "flag") = {},
           \A a \in ArgsOf(l.args, "pair") : a.key \in PasteKeys(s),
               l.args \in Seq(CommandArguments)
    PROVE  /\ SaysSettings(MergedValues(l),
                s) /\ \A k \in DOMAIN MergedValues(l) : MergedValues(l)[k] \in Texts
           /\ NormalizeKnownKeys(MergedValues(l)) = MergedValues(l)
           /\ ArgumentErrors(l) = {} /\ ~ HelpRequested(l.args) /\ RunMode(MergedValues(l)) = "headless"
<1> DEFINE r == RawValues(l.args)
           m == MergedValues(l)
<1>1. DOMAIN r = PasteKeys(s) BY DEF SaysSettings
<1>2. ~ NamesConfig(l.args) BY <1>1, PasteKeysAre DEF NamesConfig
<1>3. m = r ++ Nothing BY <1>2 DEF MergedValues
<1>4. DOMAIN m = PasteKeys(s) /\ \A k \in PasteKeys(s) : m[k] = r[k]
  <2>1. DOMAIN Nothing = {} BY DEF Nothing
  <2> HIDE DEF r, m
  <2> QED BY <1>1, <1>3, <2>1 DEF ++
<1>5. SaysSettings(m, s)
  <2> HIDE DEF r, m
  <2>1. SaysSettings(r, s) BY DEF r
  <2>2. \A k \in {"runMode", "filename", "ip", "port", "protocol", "mode", "xmppDomain",
      "xmppTlsPolicy",
           "xmppAllowUnverifiedTls", "xmppUsername", "xmppPassword", "xmppResource",
               "xmppConversation"} : m[k] = r[k]
    BY <1>4, PasteKeysAre
  <2>3. \A k \in XmppTimings : m[k] = r[k] BY <1>4, PasteKeysAre
  <2>4. s.xmppConversation = "muc" =>
      m["xmppRoom"] = r["xmppRoom"] /\ m["xmppNickname"] = r["xmppNickname"]
    BY <1>4, PasteKeysAre
  <2>5. s.xmppConversation # "muc" => m["xmppDestination"] = r["xmppDestination"]
    BY <1>4, PasteKeysAre
  <2> QED BY <1>4, <2>1, <2>2, <2>3, <2>4, <2>5 DEF SaysSettings
<1>6. NormalizeKnownKeys(m) = m BY <1>4, PasteKeysAre DEF NormalizeKnownKeys
<1>7. ArgumentErrors(l) = {}
  <2>1. DOMAIN r \subseteq CLI_OPTION_KEYS BY <1>1, PasteKeysAre DEF CLI_OPTION_KEYS
  <2> QED BY <1>2, <2>1 DEF ArgumentErrors
<1>8. ~ HelpRequested(l.args) BY PasteKeysAre DEF HelpRequested
<1>9. RunMode(m) = "headless"
  <2>1. Plain("headless") /\ Lower("headless") = "headless" BY PlainWords DEF Words
  <2>2. m["runMode"] = "headless" /\ "runMode" \in DOMAIN m BY <1>4, <1>5, PasteKeysAre DEF SaysSettings
  <2> QED BY <2>1, <2>2 DEF RunMode, Plain
<1>10. \A k \in DOMAIN m : m[k] \in Texts BY <1>1, <1>4, RawValuesAreTexts
<1> QED BY <1>5, <1>6, <1>7, <1>8, <1>9, <1>10

-----------------------------------------------------------------------------
(* Word by word, the pasted settings are taken as they were meant.         *)

\* m's word for k is taken, as v.
Takes(m, k, v) == ~ Read(Settings[k], m[k]).error /\ ReadSettings(m)[k] = v

LEMMA TakesRead ==
    ASSUME NEW m, NEW k \in DOMAIN Settings \cap DOMAIN m, NEW v, v # Unset,
             Read(Settings[k], m[k]) = Sets(v)
    PROVE  Takes(m, k, v)
<1> DEFINE r == Read(Settings[k], m[k])
<1>1. r.error = FALSE /\ r.value = v BY DEF Sets
<1>2. ReadSettings(m)[k] = v BY <1>1, UsedValues
<1> HIDE DEF r
<1> QED BY <1>1, <1>2 DEF Takes, r

LEMMA PlainIsNoMark == \A v \in Texts : v # Unset /\ v # NULL
    BY TextsAreNormalised DEF TextAssumption

LEMMA TakesText ==
    ASSUME NEW m, NEW k \in TextKeys, k \in DOMAIN m, Plain(m[k])
    PROVE  Takes(m, k, m[k])
<1>1. k \in DOMAIN Settings BY TextKinds, SettingsDomain
<1>2. Read(Settings[k], m[k]) = Sets(m[k]) BY TextKinds DEF Read, Plain
<1>3. m[k] # Unset BY PlainIsNoMark DEF Plain
<1> QED BY <1>1, <1>2, <1>3, TakesRead

LEMMA TakesWord ==
    ASSUME NEW m, NEW k \in DOMAIN Settings, k \in DOMAIN m, Settings[k].is = "one of",
           Plain(m[k]), Lower(m[k]) = m[k], m[k] \in Settings[k].of
    PROVE  Takes(m, k, m[k])
<1>1. Lower(Trim(m[k])) = m[k] BY DEF Plain
<1>2. Read(Settings[k], m[k]) = Sets(m[k]) BY <1>1, Zenon DEF Read
<1>3. m[k] # Unset BY PlainIsNoMark DEF Plain
<1> QED BY <1>2, <1>3, TakesRead

LEMMA TakesAddress ==
    ASSUME NEW m, "ip" \in DOMAIN m, Plain(m["ip"])
    PROVE  Takes(m, "ip", m["ip"])
<1>1. Read(Settings["ip"], m["ip"]) = Sets(m["ip"]) BY OtherKinds DEF Read, Plain
<1>2. m["ip"] # Unset BY PlainIsNoMark DEF Plain
<1> QED BY <1>1, <1>2, TakesRead, RuleKeys

LEMMA TakesPassword ==
    ASSUME NEW m, "xmppPassword" \in DOMAIN m, m["xmppPassword"] \in Texts
    PROVE  Takes(m, "xmppPassword", m["xmppPassword"])
<1>1. Read(Settings["xmppPassword"], m["xmppPassword"]) = Sets(m["xmppPassword"]) BY OtherKinds DEF Read
<1>2. m["xmppPassword"] # Unset BY PlainIsNoMark
<1> QED BY <1>1, <1>2, TakesRead, RuleKeys

LEMMA TakesFile ==
    ASSUME NEW m, "filename" \in DOMAIN m, m["filename"] = "records"
    PROVE  Takes(m, "filename", AbsolutePath("records")) /\ ~ Falsy(AbsolutePath("records"))
<1>0. AbsolutePath("records") \in Texts \ {""} BY TextsAreNormalised DEF TextAssumption
<1>1. Read(Settings["filename"], m["filename"]) = Sets(AbsolutePath("records"))
  <2>1. "records" # "" OBVIOUS
  <2> QED BY <2>1, OtherKinds, Zenon DEF Read
<1>2. AbsolutePath("records") # Unset BY <1>0, PlainIsNoMark
<1>3. "filename" \in DOMAIN Settings BY SettingsDomain DEF SessionKeys
<1> QED BY <1>0, <1>1, <1>2, <1>3, TakesRead, PlainIsNoMark DEF Falsy

LEMMA TakesFlag ==
    ASSUME NEW m, NEW k, k = "xmppAllowUnverifiedTls", k \in DOMAIN m, m[k] \in {"true", "false"}
    PROVE  ~ Read(Settings[k], m[k]).error
<1>1. Read(Settings[k], m[k]) = ParseBoolean(m[k]) BY OtherKinds DEF Read
<1>2. Lower(Trim(m[k])) = m[k]
  <2>1. \A v \in {"true", "false"} : Lower(Trim(v)) = v BY PlainWords DEF Words, Plain
  <2> QED BY <2>1
<1>3. m[k] \in BOOLEAN_TRUE \/ m[k] \in BOOLEAN_FALSE BY DEF BOOLEAN_TRUE, BOOLEAN_FALSE
<1> HIDE DEF BOOLEAN_TRUE, BOOLEAN_FALSE
<1>4. ParseBoolean(m[k]) \in {Sets(TRUE), Sets(FALSE)}
  BY <1>2, <1>3 DEF ParseBoolean
<1>5. Sets(TRUE).error = FALSE /\ Sets(FALSE).error = FALSE BY DEF Sets
<1> QED BY <1>1, <1>4, <1>5

LEMMA TakesPort ==
    ASSUME NEW m, NEW n, "port" \in DOMAIN m, m["port"] = Decimal[n], Written(n), InRange(Port, n)
    PROVE  Takes(m, "port", n)
<1> DEFINE v == m["port"]
<1>1. v \in DOMAIN ParseInt /\ ParseInt[v] = n BY DEF Written
<1>2. n # Unset BY <1>1, TextsAreNormalised DEF TextAssumption
<1>3. Read(Port, v) = ParseInteger(Port, v) BY OtherKinds DEF Read
<1> HIDE DEF v
<1>4. ParseInteger(Port, v) = Sets(n) BY <1>1 DEF ParseInteger
<1>5. Read(Settings["port"], m["port"]) = Sets(n) BY <1>3, <1>4, OtherKinds DEF v
<1> QED BY <1>2, <1>5, TakesRead, RuleKeys

LEMMA TakesTiming ==
    ASSUME NEW m, NEW n, NEW k \in XmppTimings, k \in DOMAIN m, m[k] = Decimal[n], Written(n),
             n >= 1
    PROVE  Takes(m, k, n)
<1> DEFINE v == m[k]
           kind == Settings[k]
<1>1. v \in DOMAIN ParseInt /\ ParseInt[v] = n BY DEF Written
<1>2. n # Unset BY <1>1, TextsAreNormalised DEF TextAssumption
<1>3. Read(kind, v) = ParseInteger(kind, v) BY TimingKinds DEF Read
<1>4. InRange(kind, n)
  <2>1. kind.is # "port" BY TimingKinds
  <2>2. kind.of = 1 BY TimingKinds
  <2> HIDE DEF kind
  <2>3. InRange(kind, n) <=> n >= kind.of BY <2>1 DEF InRange
  <2> QED BY <2>2, <2>3
<1> HIDE DEF v, kind
<1>5. ParseInteger(kind, v) = Sets(n) BY <1>1, <1>4 DEF ParseInteger
<1>6. Read(Settings[k], m[k]) = Sets(n) BY <1>3, <1>5 DEF v, kind
<1>7. k \in DOMAIN Settings BY TimingsAreSettings, SettingsDomain
<1> QED BY <1>2, <1>6, <1>7, TakesRead

\* What a copied block says of server h, and that it can be read.
Copied(s, h) ==
    /\ PlainSettings(s) /\ WordsOf(s)
    /\ s.port = Decimal[h["port"]] /\ Written(h["port"]) /\ InRange(Port, h["port"])
    /\ \A k \in XmppTimings : s.timings[k] = Decimal[h[k]] /\ Written(h[k]) /\ h[k] >= 1
    /\ s.xmppAllowUnverifiedTls \in {"true", "false"}
    /\ s.xmppTlsPolicy \in {"required", "preferred", "disabled"}
    /\ s.xmppConversation \in {"direct", "muc"}

\* What is used of it.
UsedSettings(m, s, h) ==
    LET rd == ReadSettings(m) IN
    /\ rd["filename"] = AbsolutePath("records") /\ rd["ip"] = s.ip
    /\ rd["protocol"] = "xmpp" /\ rd["mode"] = "client"
    /\ rd["xmppDomain"] = s.xmppDomain /\ rd["xmppTlsPolicy"] = s.xmppTlsPolicy
    /\ rd["xmppUsername"] = s.xmppUsername /\ rd["xmppPassword"] = s.xmppPassword
    /\ rd["xmppConversation"] = s.xmppConversation
    /\ s.xmppConversation = "muc" =>
         rd["xmppRoom"] = s.xmppRoom /\ rd["xmppNickname"] = s.xmppNickname
    /\ s.xmppConversation # "muc" => rd["xmppDestination"] = s.xmppDestination

LEMMA PastedIsRead ==
    ASSUME NEW m, NEW s, NEW h, SaysSettings(m, s), Copied(s, h)
    PROVE  BadValues(m, DOMAIN Settings) = {} /\ UsedSettings(m, s, h)
<1>0. /\ m["runMode"] = "headless" /\ m["filename"] = "records"
      /\ m["ip"] = s.ip /\ m["port"] = s.port /\ m["protocol"] = "xmpp" /\ m["mode"] = "client"
      /\ m["xmppDomain"] = s.xmppDomain /\ m["xmppTlsPolicy"] = s.xmppTlsPolicy
      /\ m["xmppAllowUnverifiedTls"] = s.xmppAllowUnverifiedTls
      /\ m["xmppUsername"] = s.xmppUsername /\ m["xmppPassword"] = s.xmppPassword
      /\ m["xmppResource"] = s.xmppResource /\ m["xmppConversation"] = s.xmppConversation
      /\ s.xmppConversation = "muc" =>
           m["xmppRoom"] = s.xmppRoom /\ m["xmppNickname"] = s.xmppNickname
      /\ s.xmppConversation # "muc" => m["xmppDestination"] = s.xmppDestination
      /\ \A k \in XmppTimings : m[k] = s.timings[k]
  BY DEF SaysSettings
<1>k. DOMAIN m = PasteKeys(s) BY DEF SaysSettings
<1>d. {"filename", "ip", "port", "protocol", "mode", "xmppDomain", "xmppTlsPolicy",
       "xmppAllowUnverifiedTls", "xmppUsername", "xmppPassword", "xmppResource",
           "xmppConversation"} \subseteq DOMAIN m
  BY <1>k, PasteKeysAre
<1>p. PlainSettings(s) /\ WordsOf(s) BY DEF Copied
<1>1. Takes(m, "filename", AbsolutePath("records")) BY <1>0, <1>d, TakesFile
<1>2. Takes(m, "ip", s.ip) BY <1>0, <1>d, <1>p, TakesAddress DEF PlainSettings
<1>3. Takes(m, "port", h["port"]) BY <1>0, <1>d, TakesPort, SMT DEF Copied
<1>4. Takes(m, "protocol", "xmpp")
  <2>1. Plain("xmpp") /\ Lower("xmpp") = "xmpp" BY PlainWords DEF Words
  <2>2. "protocol" \in DOMAIN Settings BY KeysAreSettings
  <2>3. Settings["protocol"].is = "one of" /\ "xmpp" \in Settings["protocol"].of BY WordKinds
  <2>4. "protocol" \in DOMAIN m /\ m["protocol"] = "xmpp" BY <1>0, <1>d
  <2> QED BY <2>1, <2>2, <2>3, <2>4, TakesWord
<1>5. Takes(m, "mode", "client")
  <2>1. Plain("client") /\ Lower("client") = "client" BY PlainWords DEF Words
  <2>2. "mode" \in DOMAIN Settings BY KeysAreSettings
  <2>3. Settings["mode"].is = "one of" /\ "client" \in Settings["mode"].of BY WordKinds
  <2>4. "mode" \in DOMAIN m /\ m["mode"] = "client" BY <1>0, <1>d
  <2> QED BY <2>1, <2>2, <2>3, <2>4, TakesWord
<1>6. Takes(m, "xmppTlsPolicy", s.xmppTlsPolicy)
  <2>1. \A v \in {"required", "preferred", "disabled"} : Plain(v) /\ Lower(v) = v BY PlainWords DEF Words
  <2>2. s.xmppTlsPolicy \in {"required", "preferred", "disabled"} BY DEF Copied
  <2>3. "xmppTlsPolicy" \in DOMAIN Settings BY RuleKeys
  <2>4. Settings["xmppTlsPolicy"].is = "one of" BY WordKinds
  <2>5. Settings["xmppTlsPolicy"].of = {"required", "preferred", "disabled"} BY WordKinds
  <2>6. "xmppTlsPolicy" \in DOMAIN m /\ m["xmppTlsPolicy"] = s.xmppTlsPolicy BY <1>0, <1>d
  <2> QED BY <2>1, <2>2, <2>3, <2>4, <2>5, <2>6, TakesWord
<1>7. Takes(m, "xmppConversation", s.xmppConversation)
  <2>1. \A v \in {"direct", "muc"} : Plain(v) /\ Lower(v) = v BY PlainWords DEF Words
  <2>2. s.xmppConversation \in {"direct", "muc"} BY DEF Copied
  <2>3. "xmppConversation" \in DOMAIN Settings BY RuleKeys
  <2>4. Settings["xmppConversation"].is = "one of" /\ Settings["xmppConversation"].of = {"direct", "muc"} BY WordKinds
  <2>5. "xmppConversation" \in DOMAIN m /\ m["xmppConversation"] = s.xmppConversation BY <1>0, <1>d
  <2> QED BY <2>1, <2>2, <2>3, <2>4, <2>5, TakesWord
<1>8. Takes(m, "xmppDomain", s.xmppDomain) BY <1>0, <1>d, <1>p, TakesText DEF PlainSettings,
                                              TextKeys
<1>9. Takes(m, "xmppUsername", s.xmppUsername) BY <1>0, <1>d, <1>p, TakesText
                                                  DEF PlainSettings, TextKeys
<1>10. Takes(m, "xmppResource", s.xmppResource) BY <1>0, <1>d, <1>p, TakesText
                                                   DEF PlainSettings, TextKeys
<1>11. Takes(m, "xmppPassword", s.xmppPassword) BY <1>0, <1>d, <1>p, TakesPassword DEF WordsOf
<1>12. ~ Read(Settings["xmppAllowUnverifiedTls"], m["xmppAllowUnverifiedTls"]).error
  BY <1>0, <1>d, TakesFlag DEF Copied
<1>13. s.xmppConversation = "muc" => Takes(m, "xmppRoom", s.xmppRoom) /\ Takes(m, "xmppNickname", s.xmppNickname)
  <2> SUFFICES ASSUME s.xmppConversation = "muc"
               PROVE  Takes(m, "xmppRoom", s.xmppRoom) /\ Takes(m, "xmppNickname", s.xmppNickname)
    OBVIOUS
  <2>1. "xmppRoom" \in DOMAIN m /\ "xmppNickname" \in DOMAIN m BY <1>k, PasteKeysAre
  <2>2. Takes(m, "xmppRoom", s.xmppRoom) BY <1>0, <1>p, <2>1, TakesText DEF PlainSettings,
                                            TextKeys
  <2>3. Takes(m, "xmppNickname", s.xmppNickname) BY <1>0, <1>p, <2>1, TakesText
                                                    DEF PlainSettings, TextKeys
  <2> QED BY <2>2, <2>3
<1>14. s.xmppConversation # "muc" => Takes(m, "xmppDestination", s.xmppDestination)
  <2> SUFFICES ASSUME s.xmppConversation # "muc"
      PROVE Takes(m, "xmppDestination", s.xmppDestination)
    OBVIOUS
  <2>1. "xmppDestination" \in DOMAIN m BY <1>k, PasteKeysAre
  <2> QED BY <1>0, <1>p, <2>1, TakesText DEF PlainSettings, TextKeys
<1>15. \A k \in XmppTimings : Takes(m, k, h[k])
  <2> SUFFICES ASSUME NEW k \in XmppTimings PROVE Takes(m, k, h[k]) OBVIOUS
  <2>1. k \in DOMAIN m BY <1>k, PasteKeysAre
  <2>2. m[k] = Decimal[h[k]] /\ Written(h[k]) /\ h[k] >= 1 BY <1>0 DEF Copied
  <2> QED BY <2>1, <2>2, TakesTiming
<1>16. \A k \in DOMAIN m : k # "runMode" => ~ Read(Settings[k], m[k]).error
  <2> DEFINE ok(k) == ~ Read(Settings[k], m[k]).error
  <2>1. ok("filename") /\ ok("ip") /\ ok("port") /\ ok("protocol") /\ ok("mode")
    BY <1>1, <1>2, <1>3, <1>4, <1>5 DEF Takes
  <2>2. ok("xmppTlsPolicy") /\ ok("xmppConversation") /\ ok("xmppDomain") /\ ok("xmppUsername")
        /\ ok("xmppResource") /\ ok("xmppPassword") /\ ok("xmppAllowUnverifiedTls")
    BY <1>6, <1>7, <1>8, <1>9, <1>10, <1>11, <1>12 DEF Takes
  <2>3. \A k \in TalkKeys(s) : ok(k) BY <1>13, <1>14 DEF Takes, TalkKeys
  <2>4. \A k \in XmppTimings : ok(k) BY <1>15 DEF Takes
  <2> HIDE DEF ok
  <2>5. \A k \in FirstKeys : ok(k) BY <2>1, <2>2 DEF FirstKeys
  <2>6. \A k \in DOMAIN m : k # "runMode" => ok(k) BY <1>k, <2>1, <2>3, <2>4, <2>5 DEF PasteKeys
  <2> QED BY <2>6 DEF ok
<1>17. "runMode" \notin DOMAIN Settings
  BY SettingsDomain DEF SessionKeys, WindowKeys, FieldKeys, StreamKeys, XmppKeys
<1>18. BadValues(m, DOMAIN Settings) = {} BY <1>16, <1>17 DEF BadValues
<1>19. UsedSettings(m, s, h)
  <2> DEFINE rd == ReadSettings(m)
  <2>1. rd["filename"] = AbsolutePath("records") /\ rd["ip"] = s.ip
        /\ rd["protocol"] = "xmpp" /\ rd["mode"] = "client"
    BY <1>1, <1>2, <1>4, <1>5 DEF Takes
  <2>2. /\ rd["xmppDomain"] = s.xmppDomain /\ rd["xmppTlsPolicy"] = s.xmppTlsPolicy
        /\ rd["xmppUsername"] = s.xmppUsername /\ rd["xmppPassword"] = s.xmppPassword
        /\ rd["xmppConversation"] = s.xmppConversation
    BY <1>6, <1>7, <1>8, <1>9, <1>11 DEF Takes
  <2>3. s.xmppConversation = "muc" =>
      rd["xmppRoom"] = s.xmppRoom /\ rd["xmppNickname"] = s.xmppNickname
    BY <1>13 DEF Takes
  <2>4. s.xmppConversation # "muc" => rd["xmppDestination"] = s.xmppDestination
    BY <1>14 DEF Takes
  <2> QED BY <2>1, <2>2, <2>3, <2>4, Zenon DEF UsedSettings
<1> QED BY <1>18, <1>19

-----------------------------------------------------------------------------
(* The pasted launch is accepted, and meets the server.                    *)

\* A launch that says nothing of sockets breaks no rule for sockets.
LEMMA SocketsAreFine ==
    ASSUME NEW o, \A k \in WindowKeys \cup FieldKeys : o[k] = Defaults[k]
    PROVE  SocketErrors(o) = {}
<1>1. \A s \in SocketKeys : s.x \in FieldKeys /\ s.y \in FieldKeys /\ s.format \in WindowKeys
  <2>1. {"tcpFormat", "udpFormat"} \subseteq WindowKeys BY DEF WindowKeys
  <2> QED BY <2>1 DEF SocketKeys, FieldKeys
<1>2. \A s \in SocketKeys : Falsy(o[s.x]) /\ Falsy(o[s.y]) BY <1>1, FieldDefaults DEF Falsy
<1>3. {s \in SocketKeys : Falsy(o[s.x]) # Falsy(o[s.y])} = {}
  <2> DEFINE F(k) == Falsy(o[k])
  <2>1. \A k : F(k) \in BOOLEAN BY DEF Falsy
  <2>2. \A s \in SocketKeys : F(s.x) /\ F(s.y) BY <1>2
  <2> HIDE DEF F
  <2>3. \A s \in SocketKeys : ~ (F(s.x) # F(s.y)) BY <2>1, <2>2
  <2>4. {s \in SocketKeys : F(s.x) # F(s.y)} = {} BY <2>3
  <2> QED BY <2>4 DEF F
<1>4. \A s \in SocketKeys : o[s.format] # "geo-json" BY <1>1, FormatDefaults
<1>5. {s \in SocketKeys : o[s.format] = "geo-json" /\ o[s.wkid] # 4326} = {}
  <2> DEFINE P(s) == o[s.wkid] # 4326
  <2> HIDE DEF P
  <2>1. {s \in SocketKeys : o[s.format] = "geo-json" /\ P(s)} = {} BY <1>4
  <2> QED BY <2>1, SMT DEF P
<1>6. o["tcpHandshakeText"] = ""
  <2>1. "tcpHandshakeText" \in WindowKeys BY DEF WindowKeys
  <2> QED BY <2>1, HandshakeDefaults
<1>7. o["tcpHandshakeUseEscapes"] = TRUE
  <2>1. "tcpHandshakeUseEscapes" \in WindowKeys BY DEF WindowKeys
  <2> QED BY <2>1, EscapeDefaults
<1>8. HandshakeErrors("", TRUE) = {} BY TextsAreNormalised DEF HandshakeErrors, TextAssumption
<1>9. HandshakeErrors(o["tcpHandshakeText"], o["tcpHandshakeUseEscapes"]) = {} BY <1>6, <1>7, <1>8, Zenon
<1> DEFINE H == HandshakeErrors(o["tcpHandshakeText"], o["tcpHandshakeUseEscapes"])
           A == {s \in SocketKeys : Falsy(o[s.x]) # Falsy(o[s.y])}
           B == {s \in SocketKeys : o[s.format] = "geo-json" /\ o[s.wkid] # 4326}
<1>10. SocketErrors(o) = {s.x : s \in A} \cup {s.wkid : s \in B} \cup H BY DEF SocketErrors
<1> HIDE DEF A, B, H
<1> QED BY <1>3, <1>5, <1>9, <1>10 DEF A, B, H

\* No rule refuses the pasted launch.
LEMMA PastedIsAccepted ==
    ASSUME NEW m, NEW s, NEW h, SaysSettings(m, s), Copied(s, h), NormalizeKnownKeys(m) = m,
           s.xmppConversation = "muc" => s.xmppNickname \notin BrokenNames,
           s.xmppDestination \in DOMAIN JidLists, JidLists[s.xmppDestination] = s.xmppDestination
    PROVE  /\ HeadlessErrors(m) = {}
           /\ HeadlessOptions(m)["protocol"] = "xmpp" /\ HeadlessOptions(m)["mode"] = "client"
           /\ HeadlessOptions(m)["xmppDomain"] = s.xmppDomain
           /\ HeadlessOptions(m)["xmppTlsPolicy"] = s.xmppTlsPolicy
           /\ HeadlessOptions(m)["xmppUsername"] = s.xmppUsername
           /\ HeadlessOptions(m)["xmppPassword"] = s.xmppPassword
           /\ HeadlessOptions(m)["xmppConversation"] = s.xmppConversation
           /\ s.xmppConversation = "muc" =>
                /\ HeadlessOptions(m)["xmppRoom"] = s.xmppRoom
                /\ HeadlessOptions(m)["xmppNickname"] = s.xmppNickname
           /\ s.xmppConversation # "muc" =>
                HeadlessOptions(m)["xmppDestination"] = s.xmppDestination
<1> DEFINE rd == ReadSettings(m)
           o == WithRole(m)
           g == HeadlessOptions(m)
<1>1. BadValues(m, DOMAIN Settings) = {} /\ UsedSettings(m, s, h) BY PastedIsRead
<1>2. /\ rd["filename"] = AbsolutePath("records") /\ rd["ip"] = s.ip
      /\ rd["protocol"] = "xmpp" /\ rd["mode"] = "client"
      /\ rd["xmppDomain"] = s.xmppDomain /\ rd["xmppTlsPolicy"] = s.xmppTlsPolicy
      /\ rd["xmppUsername"] = s.xmppUsername /\ rd["xmppPassword"] = s.xmppPassword
      /\ rd["xmppConversation"] = s.xmppConversation
      /\ s.xmppConversation = "muc" =>
           rd["xmppRoom"] = s.xmppRoom /\ rd["xmppNickname"] = s.xmppNickname
      /\ s.xmppConversation # "muc" => rd["xmppDestination"] = s.xmppDestination
  BY <1>1 DEF UsedSettings
<1>3. DOMAIN m = PasteKeys(s) BY DEF SaysSettings
<1>4. \A k \in DOMAIN Settings : k # "mode" /\ k # "port" => o[k] = rd[k] BY WithRoleKeeps
<1>5. o["mode"] = "client"
  <2>1. "mode" \in DOMAIN m BY <1>3, PasteKeysAre
  <2>2. o = XmppDefaults(rd, m) BY <1>2 DEF WithRole
  <2>3. "mode" \in DOMAIN rd BY UsedValues, KeysAreSettings
  <2> HIDE DEF rd, o
  <2>4. o["mode"] = rd["mode"]
    <3> DEFINE p == IF "port" \in DOMAIN m THEN rd["port"] ELSE 5222
    <3>1. o = [rd EXCEPT !["mode"] = IF "mode" \in DOMAIN m THEN @ ELSE "client", !["port"] = p]
      BY <2>2 DEF XmppDefaults
    <3> HIDE DEF p
    <3> QED BY <2>1, <2>3, <3>1
  <2> QED BY <1>2, <2>4
<1>6. \A k \in {"filename", "ip", "protocol", "xmppDomain", "xmppTlsPolicy", "xmppUsername",
    "xmppPassword",
                "xmppConversation", "xmppRoom", "xmppNickname", "xmppDestination", "endLine"} :
        k \in DOMAIN Settings /\ k # "mode" /\ k # "port"
  <2>1. {"filename", "ip", "protocol", "endLine"} \subseteq SessionKeys BY DEF SessionKeys
  <2>2. {"xmppDomain", "xmppTlsPolicy", "xmppUsername", "xmppPassword",
         "xmppConversation", "xmppRoom", "xmppNickname",
             "xmppDestination"} \subseteq XmppKeys BY DEF XmppKeys
  <2> QED BY <2>1, <2>2, SettingsDomain
<1>7. \A k \in {"filename", "ip", "protocol", "xmppDomain", "xmppTlsPolicy", "xmppUsername",
    "xmppPassword",
                "xmppConversation", "xmppRoom", "xmppNickname", "xmppDestination",
                    "endLine"} : o[k] = rd[k]
  BY <1>4, <1>6
<1>8. \A k \in WindowKeys \cup FieldKeys : o[k] = Defaults[k]
  <2> SUFFICES ASSUME NEW k \in WindowKeys \cup FieldKeys PROVE o[k] = Defaults[k] OBVIOUS
  <2>1. k \in DOMAIN Settings BY SettingsDomain
  <2>2. k # "mode" /\ k # "port" BY DEF WindowKeys, FieldKeys
  <2>3. k \notin DOMAIN m BY <1>3, PasteKeysAre
  <2>4. rd[k] = Defaults[k] BY <2>1, <2>3, UsedValues
  <2>5. o[k] = rd[k] BY <1>4, <2>1, <2>2
  <2> HIDE DEF o, rd
  <2> QED BY <2>4, <2>5
<1>9. SocketErrors(o) = {} BY <1>8, SocketsAreFine
<1>10. o["endLine"] = NULL
  <2>1. "endLine" \in SessionKeys \ SessionSet BY DEF SessionKeys, SessionSet
  <2>2. "endLine" \notin DOMAIN m BY <1>3, PasteKeysAre
  <2>3. rd["endLine"] = Defaults["endLine"] BY <1>6, <2>2, UsedValues
  <2> QED BY <1>7, <2>1, <2>3, DefaultsSplit
<1>11. s.xmppConversation = "muc" => Falsy(o["xmppDestination"])
  <2> SUFFICES ASSUME s.xmppConversation = "muc" PROVE Falsy(o["xmppDestination"]) OBVIOUS
  <2>1. "xmppDestination" \notin DOMAIN m BY <1>3, PasteKeysAre
  <2>2. rd["xmppDestination"] = Defaults["xmppDestination"] BY <1>6, <2>1, UsedValues
  <2>3. rd["xmppDestination"] = NULL BY <2>2, WordDefaults
  <2> QED BY <1>7, <2>3 DEF Falsy
<1> HIDE DEF o, rd
<1>12. ~ Falsy(s.ip) /\ ~ Falsy(s.xmppUsername) /\ ~ Falsy(s.xmppRoom) /\ ~ Falsy(s.xmppDestination)
       /\ s.xmppPassword # NULL
  BY PlainIsNoMark DEF Copied, PlainSettings, WordsOf, Plain, Falsy
<1>13. SessionErrors(o) = {}
  <2>1. ~ Falsy(o["filename"])
    <3>1. ~ Falsy(AbsolutePath("records"))
      BY TextsAreNormalised DEF TextAssumption, Falsy
    <3> QED BY <1>2, <1>7, <3>1
  <2>2. ~ Falsy(o["ip"]) BY <1>2, <1>7, <1>12
  <2> QED BY <1>10, <2>1, <2>2, Zenon DEF SessionErrors
<1>14. XmppErrors(o) = {}
  <2>1. ~ Falsy(o["xmppUsername"]) /\ o["xmppPassword"] # NULL BY <1>2, <1>7, <1>12
  <2>2. ClientErrors(o) = {} BY <2>1 DEF ClientErrors
  <2>3. o["xmppConversation"] = s.xmppConversation BY <1>2, <1>7
  <2>4. CASE s.xmppConversation = "muc"
    <3>1. ~ Falsy(o["xmppRoom"]) /\ o["xmppNickname"] \notin BrokenNames BY <1>2, <1>7, <1>12, <2>4
    <3>2. ConversationErrors(o) = {} BY <2>3, <2>4, <3>1 DEF ConversationErrors
    <3> QED BY <1>5, <1>11, <2>2, <2>4, <3>2 DEF XmppErrors
  <2>5. CASE s.xmppConversation # "muc"
    <3>1. o["xmppDestination"] = s.xmppDestination BY <1>2, <1>7, <2>5
    <3>2. ConversationErrors(o) = {} BY <1>12, <2>3, <2>5, <3>1 DEF ConversationErrors
    <3> QED BY <1>5, <2>2, <3>1, <3>2 DEF XmppErrors
  <2> QED BY <2>4, <2>5
<1>15. HeadlessErrors(m) = {}
  <2>1. HeadlessErrors(m) = BadValues(m,
      DOMAIN Settings) \union SocketErrors(o) \union SessionErrors(o)
                            \union (IF o["protocol"] = "xmpp" THEN XmppErrors(o) ELSE {})
    BY DEF HeadlessErrors, o
  <2> QED BY <1>1, <1>9, <1>13, <1>14, <2>1
<1>16. \A k \in {"protocol", "xmppDomain", "xmppTlsPolicy", "xmppUsername", "xmppPassword",
                 "xmppConversation", "xmppRoom", "xmppNickname"} : g[k] = rd[k]
  <2> SUFFICES ASSUME NEW k \in {"protocol", "xmppDomain", "xmppTlsPolicy", "xmppUsername",
      "xmppPassword",
                 "xmppConversation", "xmppRoom", "xmppNickname"} PROVE g[k] = rd[k]
    OBVIOUS
  <2>1. k \notin {"autoConnect", "waitForClient", "connectWaitForServer",
      "xmppDestination"} OBVIOUS
  <2>2. k \in DOMAIN Settings BY <1>6
  <2>3. g[k] = o[k] BY <2>1, <2>2, HeadlessKeeps DEF o
  <2>4. o[k] = rd[k] BY <1>7
  <2> HIDE DEF g
  <2> QED BY <2>3, <2>4
<1>17. g["mode"] = "client"
  <2>1. g["mode"] = o["mode"] BY RuleKeys, HeadlessKeeps DEF o
  <2> QED BY <1>5, <2>1
<1>18. g["protocol"] = "xmpp" BY <1>2, <1>16
<1>19. s.xmppConversation # "muc" => g["xmppDestination"] = s.xmppDestination
  <2> SUFFICES ASSUME s.xmppConversation # "muc"
      PROVE g["xmppDestination"] = s.xmppDestination OBVIOUS
  <2>1. o["xmppDestination"] = s.xmppDestination BY <1>2, <1>7
  <2>2. g["xmppDestination"] = IF o["xmppDestination"] \in DOMAIN JidLists
      THEN JidLists[o["xmppDestination"]]
                               ELSE o["xmppDestination"]
    BY <1>18, HeadlessDestination DEF o
  <2> QED BY <2>1, <2>2
<1> HIDE DEF g
<1>20. /\ g["xmppDomain"] = s.xmppDomain /\ g["xmppTlsPolicy"] = s.xmppTlsPolicy
       /\ g["xmppUsername"] = s.xmppUsername /\ g["xmppPassword"] = s.xmppPassword
       /\ g["xmppConversation"] = s.xmppConversation
       /\ s.xmppConversation = "muc" =>
            g["xmppRoom"] = s.xmppRoom /\ g["xmppNickname"] = s.xmppNickname
  BY <1>2, <1>16
<1> QED BY <1>15, <1>17, <1>18, <1>19, <1>20 DEF g

\* A client with these settings is in the server's domain, under its policy, with its account,
\* where it publishes.
LEMMA PastedMeets ==
    ASSUME NEW m, NEW s, NEW h, NEW ss \in BOOLEAN, s = ClientSettings(h, ss),
           ServerWords(h), ~ NameRefused(h), h["mode"] = "server", Known(h),
           HeadlessOptions(m)["mode"] = "client",
           HeadlessOptions(m)["xmppDomain"] = s.xmppDomain,
           HeadlessOptions(m)["xmppTlsPolicy"] = s.xmppTlsPolicy,
           HeadlessOptions(m)["xmppUsername"] = s.xmppUsername,
           HeadlessOptions(m)["xmppPassword"] = s.xmppPassword,
           HeadlessOptions(m)["xmppConversation"] = s.xmppConversation,
           s.xmppConversation = "muc" =>
             /\ HeadlessOptions(m)["xmppRoom"] = s.xmppRoom
             /\ HeadlessOptions(m)["xmppNickname"] = s.xmppNickname,
           s.xmppConversation # "muc" => HeadlessOptions(m)["xmppDestination"] = s.xmppDestination
    PROVE  ~ NameRefused(HeadlessOptions(m)) /\ ClientIdentity(HeadlessOptions(m)) = ServerIdentity(h)
<1> DEFINE g == HeadlessOptions(m)
           D == NormalDomain(h)
           C == ClientAccount(h)
           parts == RoomParts(h["xmppRoom"], D)
<1> HIDE DEF g
<1>0. /\ g["mode"] = "client" /\ g["xmppDomain"] = D /\ g["xmppTlsPolicy"] = h["xmppTlsPolicy"]
      /\ g["xmppUsername"] = C /\ g["xmppPassword"] = h["xmppExternalPassword"]
      /\ g["xmppConversation"] = h["xmppConversation"]
      /\ h["xmppConversation"] = "muc" =>
           g["xmppRoom"] = Talks(h) /\ g["xmppNickname"] = Nickname(h)
      /\ h["xmppConversation"] # "muc" => g["xmppDestination"] = ServiceJid(D)
  BY SettingsAre DEF g
<1>1. Plain(D) /\ Lower(D) = D /\ D \notin BadDomains BY DomainIsPlain
<1>2. CanonicalName(C) = C /\ ~ HasAt(C) /\ C \notin BadAccounts BY AccountIsPlain
<1> HIDE DEF D, C
<1>3. NormalDomain(g) = D BY <1>0, <1>1 DEF NormalDomain, Plain
<1>4. ClientDomain(g) = D BY <1>0, <1>2, <1>3 DEF ClientDomain
<1>5. Account(g) = C BY <1>0 DEF Account
<1>6. ASSUME h["xmppConversation"] = "muc"
      PROVE  /\ RoomParts(g["xmppRoom"], D) = parts
             /\ parts[1] \notin BadAccounts /\ parts[2] \notin BadDomains
             /\ resolveRoomJid(g["xmppRoom"], D) = Talks(h)
  <2>1. Parses(parts) BY <1>6 DEF Known, D
  <2>2. Talks(h) = BareJid(parts[1], parts[2]) BY <1>6, ServerIs DEF resolveRoomJid, D
  <2>3. parts[1] \notin BadAccounts /\ parts[2] \notin BadDomains
    <3>1. D \in DomainsUsed(h) BY DEF DomainsUsed, D
    <3> QED BY <1>6, <3>1 DEF NameRefused
  <2> HIDE DEF parts
  <2>4. g["xmppRoom"] \in DOMAIN JidParts /\ JidParts[g["xmppRoom"]] = parts
    BY <1>0, <1>6, <2>1, <2>2 DEF Parses
  <2>5. RoomParts(g["xmppRoom"], D) = parts BY <2>4 DEF RoomParts, HasAt
  <2>6. resolveRoomJid(g["xmppRoom"], D) = Talks(h) BY <2>2, <2>5 DEF resolveRoomJid
  <2> QED BY <2>3, <2>5, <2>6
<1> HIDE DEF parts
<1>7. ~ NameRefused(g)
  <2>1. DomainsUsed(g) = {D} BY <1>0, <1>1, <1>2, <1>3, <1>4, <1>5 DEF DomainsUsed
  <2>2. ASSUME h["xmppConversation"] = "muc" PROVE Nickname(g) \notin UnfitNames
    <3>1. Nickname(h) \notin UnfitNames BY <2>2 DEF NameRefused
    <3>2. g["xmppNickname"] = Nickname(h) BY <1>0, <2>2
    <3>3. ~ Falsy(Nickname(h)) BY TextsAreNormalised DEF Nickname, Falsy, TextAssumption, Words
    <3> HIDE DEF g
    <3> QED BY <3>1, <3>2, <3>3 DEF Nickname
  <2> QED BY <1>0, <1>1, <1>2, <1>3, <1>4, <1>5, <1>6, <2>1, <2>2 DEF NameRefused
<1> DEFINE T == IF g["xmppConversation"] = "muc"
    THEN resolveRoomJid(g["xmppRoom"], ClientDomain(g))
                ELSE JidLists[g["xmppDestination"]]
<1>8. T = Talks(h)
  <2>1. CASE h["xmppConversation"] = "muc" BY <1>0, <1>4, <1>6, <2>1
  <2>2. CASE h["xmppConversation"] # "muc"
    <3>1. JidLists[ServiceJid(D)] = ServiceJid(D) BY DEF Known, D
    <3>2. Talks(h) = ServiceJid(D) BY <2>2, ServerIs DEF D
    <3> QED BY <1>0, <2>2, <3>1, <3>2
  <2> QED BY <2>1, <2>2
<1>9. ClientIdentity(g) = [account |-> CanonicalName(g["xmppUsername"]),
    password |-> g["xmppPassword"],
                           domain |-> ClientDomain(g), tlsPolicy |-> g["xmppTlsPolicy"],
                               talksIn |-> T]
  BY DEF ClientIdentity
<1> DEFINE U == IF h["xmppConversation"] = "muc" THEN resolveRoomJid(h["xmppRoom"], D)
    ELSE ServiceJid(D)
           A == CanonicalName(h["xmppExternalUsername"])
<1>10. ServerIdentity(h) = [account |-> A, password |-> h["xmppExternalPassword"],
                            domain |-> D, tlsPolicy |-> h["xmppTlsPolicy"], talksIn |-> U]
  BY DEF ServerIdentity, D
<1>11. A = C BY DEF ClientAccount, C
<1>12. U = Talks(h) BY ServerIs DEF D
<1>13. CanonicalName(g["xmppUsername"]) = C BY <1>0, <1>2
<1> HIDE DEF T, U, A
<1>14. ClientIdentity(g) = ServerIdentity(h)
  BY <1>0, <1>4, <1>8, <1>9, <1>10, <1>11, <1>12, <1>13
<1> QED BY <1>7, <1>14 DEF g

\* A headless launch that no rule refuses is a headless session.
LEMMA HeadlessLaunch ==
    ASSUME NEW l, ArgumentErrors(l) = {}, ~ HelpRequested(l.args),
             RunMode(MergedValues(l)) = "headless",
           HeadlessErrors(MergedValues(l)) = {}
    PROVE  /\ ParseCommandLine(l).mode = "headless"
           /\ ParseCommandLine(l).headless = HeadlessOptions(MergedValues(l))
<1> DEFINE merged == MergedValues(l)
           refused == ArgumentErrors(l)
                \union {k \in {"runMode"} : RunMode(merged) \notin {"ui", "silent", "headless"}}
                \union (IF HeadlessRequested(merged) THEN HeadlessErrors(merged)
                    ELSE UiSocketErrors(merged))
<1>1. ParseCommandLine(l) = IF HelpRequested(l.args) THEN [mode |-> "help"]
      ELSE IF refused # {} THEN [mode |-> "error"]
      ELSE IF HeadlessRequested(merged) THEN [mode |-> "headless",
          headless |-> HeadlessOptions(merged)]
      ELSE [mode |-> "ui", presets |-> UiPresets(merged)]
  BY DEF ParseCommandLine
<1>2. HeadlessRequested(merged) BY DEF HeadlessRequested
<1>3. refused = {} BY <1>2
<1> HIDE DEF refused, merged
<1>4. ParseCommandLine(l) = [mode |-> "headless",
    headless |-> HeadlessOptions(merged)] BY <1>1, <1>2, <1>3
<1> QED BY <1>4 DEF merged

\* CopiedSettingsConnect: the block of option=value lines a running server can be copied as,
\* pasted into a command line, is accepted and makes a client that signs in to the server and
\* looks for records where the server publishes them (xmpp-transport.js:885 and 933).
THEOREM CopiedBlockConnects == StartupSpec => []CopiedSettingsConnect
<1>1. ParsedOnce => CopiedSettingsConnect
<2> SUFFICES ASSUME ParsedOnce, IsXmpp(cliOptions), cliOptions.headless["mode"] = "server",
                    ~ TransportRefuses(cliOptions.headless), NEW ss \in BOOLEAN
             PROVE  LET server == cliOptions.headless
                        pasted == ParseCommandLine([launch EXCEPT !.args = PastedArguments(server, ss)])
                    IN  /\ IsXmpp(pasted)
                        /\ ~ TransportRefuses(pasted.headless)
                        /\ ClientIdentity(pasted.headless) = ServerIdentity(server)
  BY DEF CopiedSettingsConnect, PastedLaunches
<2> DEFINE m == MergedValues(launch)
           h == cliOptions.headless
           s == ClientSettings(h, ss)
           q == PastedArguments(h, ss)
           l == [launch EXCEPT !.args = q]
           n == MergedValues(l)
           pasted == ParseCommandLine(l)
<2>1. launch \in Launches /\ cliOptions = ParseCommandLine(launch) BY DEF ParsedOnce
<2>2. \A k \in DOMAIN m : m[k] \in Texts BY <2>1, MergedValuesAreTexts
<2>3. HeadlessErrors(m) = {} /\ h = HeadlessOptions(m) BY HeadlessIsAccepted DEF IsXmpp
<2>4. h["protocol"] = "xmpp" /\ h["mode"] = "server" BY DEF IsXmpp
<2>5. ~ NameRefused(h) BY DEF TransportRefuses
<2>6. ServerWords(h)
  <3> HIDE DEF h, m
  <3> QED BY <2>2, <2>3, <2>4, ServerSays
<2>7. /\ InRange(Port, h["port"]) /\ Written(h["port"])
      /\ \A k \in XmppTimings : h[k] >= 1 /\ Written(h[k])
  <3> HIDE DEF h, m
  <3> QED BY <2>2, <2>3, <2>4, ServerNumbers
<2>8. Known(h)
  <3>1. /\ ServiceJid(NormalDomain(h)) \in Texts \ ({""} \union DOMAIN Trimmed)
        /\ ServiceJid(NormalDomain(h)) \in DOMAIN JidLists
        /\ JidLists[ServiceJid(NormalDomain(h))] = ServiceJid(NormalDomain(h))
        /\ h["xmppConversation"] = "muc" => Parses(RoomParts(h["xmppRoom"], NormalDomain(h)))
    BY <2>1, <2>4, <2>5, AddressesAreKnown
  <3> QED BY <3>1 DEF Known, Plain, Trim
<2>9. PlainSettings(s) /\ WordsOf(s)
  <3> HIDE DEF h
  <3> QED BY <2>4, <2>5, <2>6, <2>7, <2>8, SettingsArePlain
<2>10. l.args = q
  <3>1. "args" \in DOMAIN launch BY <2>1, LaunchAssumption
  <3> QED BY <3>1
<2> HIDE DEF h, l
<2>11. Copied(s, h)
  <3>1. s.port = Decimal[h["port"]] /\ \A k \in XmppTimings : s.timings[k] = Decimal[h[k]] BY SettingsAre
  <3>2. /\ s.xmppAllowUnverifiedTls \in {"true", "false"} /\ s.xmppTlsPolicy = h["xmppTlsPolicy"]
        /\ s.xmppConversation = h["xmppConversation"] BY SettingsAre
  <3>3. /\ s.xmppTlsPolicy \in {"required", "preferred", "disabled"}
        /\ s.xmppConversation \in {"direct", "muc"} BY <2>6, <3>2 DEF ServerWords
  <3> HIDE DEF s
  <3> QED BY <2>7, <2>9, <3>1, <3>2, <3>3 DEF Copied
<2>12. /\ SaysSettings(RawValues(q), s) /\ q \in Seq(CommandArguments)
       /\ ArgsOf(q, "word") = {} /\ ArgsOf(q, "flag") = {}
       /\ \A a \in ArgsOf(q, "pair") : a.key \in PasteKeys(s)
  <3>1. s.protocol = "xmpp" /\ s.mode = "client" BY SettingsAre
  <3>2. Trim(s.port) = s.port /\ \A k \in XmppTimings : Trim(s.timings[k]) = s.timings[k]
    BY <2>11 DEF Copied, Written
  <3>3. s = ClientSettings(h, ss) OBVIOUS
  <3> HIDE DEF s
  <3>4. LET p == PastedArguments(h, ss) IN
       /\ SaysSettings(RawValues(p), s)
       /\ p \in Seq(CommandArguments)
       /\ ArgsOf(p, "word") = {} /\ ArgsOf(p, "flag") = {}
       /\ \A a \in ArgsOf(p, "pair") : a.key \in PasteKeys(s)
    BY <2>9, <3>1, <3>2, <3>3, PastedValues, Zenon
  <3> QED BY <3>4
<2>13. s = ClientSettings(h, ss) OBVIOUS
<2> HIDE DEF q, s
<2>14. /\ SaysSettings(n, s) /\ \A k \in DOMAIN n : n[k] \in Texts
       /\ NormalizeKnownKeys(n) = n
       /\ ArgumentErrors(l) = {} /\ ~ HelpRequested(l.args) /\ RunMode(n) = "headless"
  BY <2>9, <2>10, <2>12, PastedLaunch DEF PlainSettings
<2>15. /\ s.xmppConversation = "muc" => s.xmppNickname \notin BrokenNames
       /\ s.xmppDestination \in DOMAIN JidLists /\ JidLists[s.xmppDestination] = s.xmppDestination
  <3>1. s.xmppNickname = Nickname(h) /\ s.xmppConversation = h["xmppConversation"]
        /\ s.xmppDestination = ServiceJid(NormalDomain(h))
    BY <2>13, SettingsAre
  <3> QED BY <2>6, <2>8, <3>1, NicknameIsPlain DEF Known
<2> HIDE DEF n
<2>16. /\ HeadlessErrors(n) = {}
       /\ HeadlessOptions(n)["protocol"] = "xmpp" /\ HeadlessOptions(n)["mode"] = "client"
       /\ HeadlessOptions(n)["xmppDomain"] = s.xmppDomain
       /\ HeadlessOptions(n)["xmppTlsPolicy"] = s.xmppTlsPolicy
       /\ HeadlessOptions(n)["xmppUsername"] = s.xmppUsername
       /\ HeadlessOptions(n)["xmppPassword"] = s.xmppPassword
       /\ HeadlessOptions(n)["xmppConversation"] = s.xmppConversation
       /\ s.xmppConversation = "muc" =>
            /\ HeadlessOptions(n)["xmppRoom"] = s.xmppRoom
            /\ HeadlessOptions(n)["xmppNickname"] = s.xmppNickname
       /\ s.xmppConversation # "muc" => HeadlessOptions(n)["xmppDestination"] = s.xmppDestination
  BY <2>11, <2>14, <2>15, PastedIsAccepted
<2>17. pasted.mode = "headless" /\ pasted.headless = HeadlessOptions(n)
  BY <2>14, <2>16, HeadlessLaunch DEF n
<2>18. ~ OptionsRefused(HeadlessOptions(n)) BY <2>14, <2>16, TransportTakesIt
<2>19. ~ NameRefused(HeadlessOptions(n)) /\ ClientIdentity(HeadlessOptions(n)) = ServerIdentity(h)
  BY <2>4, <2>5, <2>6, <2>8, <2>13, <2>16, PastedMeets
<2>20. /\ IsXmpp(pasted) /\ ~ TransportRefuses(pasted.headless)
       /\ ClientIdentity(pasted.headless) = ServerIdentity(h)
  BY <2>16, <2>17, <2>18, <2>19 DEF IsXmpp, TransportRefuses
<2> QED BY <2>20 DEF h, l, q
<1> QED BY <1>1, LaunchIsParsedOnce, PTL
=============================================================================
