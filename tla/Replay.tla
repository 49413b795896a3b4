------------------------------- MODULE Replay -------------------------------
(***************************************************************************)
(* What one replay session promises, with no transport, no scheduler and   *)
(* no clock: the replay window is disposed of record by record, in order,  *)
(* and the session is settled once, as completed exactly when nothing is   *)
(* left to send.  SimulationEngine implements this specification.          *)
(***************************************************************************)
EXTENDS ReplayOptions

CONSTANT Options   \* the option sets a session may be run with

VARIABLES
    opt,      \* this session's options
    history,  \* the records disposed of so far, in order, each with its fate
    count,    \* how many of them count as sent
    outcome   \* "none", "pending", or how the session was settled

vars == <<opt, history, count, outcome>>

\* The records to send, numbered from 0: lines startLine to endLine of the file.
Window == {r \in 0 .. (opt.available - 1) :
              /\ opt.startLine <= r + 1
              /\ opt.endLine > 0 => r + 1 <= opt.endLine}

First == CHOOSE r \in Window : \A q \in Window : r <= q

\* The record to dispose of after the history h: the window is a cycle.
Position(h) == IF h # <<>> /\ h[Len(h)].record + 1 \in Window
               THEN h[Len(h)].record + 1 ELSE First

\* Nothing is left once record r was disposed of and n records count as sent.
NothingLeft(n, r) == LimitReached(opt, n) \/ (~ opt.loop /\ r + 1 \notin Window)

Init == /\ opt \in Options
        /\ history = <<>>
        /\ count = 0
        /\ outcome = "none"

Begin == /\ outcome = "none"
         /\ outcome' = "pending"
         /\ UNCHANGED <<opt, history, count>>

Dispose(fate) ==
    /\ outcome = "pending"
    /\ Window # {}
    /\ history' = Append(history, [record |-> Position(history), fate |-> fate])
    /\ count' = IF fate = "skipped" THEN count ELSE count + 1
    /\ outcome' = IF NothingLeft(count', Position(history)) THEN "completed" ELSE "pending"
    /\ UNCHANGED opt

\* A session that was told not to send settles before it disposes of anything.
GetReady == /\ outcome = "pending"
            /\ ~ opt.autoStart
            /\ history = <<>>
            /\ outcome' = "ready"
            /\ UNCHANGED <<opt, history, count>>

GiveUp == /\ outcome = "pending"
          /\ outcome' \in {"stopped", "failed"}
          /\ UNCHANGED <<opt, history, count>>

Next == \/ Begin
        \/ \E fate \in Fates : Dispose(fate)
        \/ GetReady
        \/ GiveUp

Spec == Init /\ [][Next]_vars
=============================================================================
