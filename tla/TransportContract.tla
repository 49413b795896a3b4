-------------------------- MODULE TransportContract --------------------------
(***************************************************************************)
(* What the replay engine relies on: a transport that is connected or not, *)
(* has recipients or not, and answers waitForRecipients().  It is what     *)
(* src/src/transport-manager.js promises of isConnected(), hasRecipients() *)
(* and waitForRecipients(), whatever the protocol.  The environment of     *)
(* SimulationEngine takes these steps; the transport modules implement     *)
(* them.                                                                   *)
(***************************************************************************)
CONSTANT Waiters   \* waitForRecipients() calls

VARIABLES
    connected,   \* isConnected()
    recipients,  \* hasRecipients()
    waiter       \* what became of each waitForRecipients() call

vars == <<connected, recipients, waiter>>

Init == /\ connected = FALSE
        /\ recipients = FALSE
        /\ waiter = [w \in Waiters |-> "none"]

\* Every call still waiting gets the same answer.
AnswerAll(answer) ==
    waiter' = [w \in Waiters |-> IF waiter[w] = "waiting" THEN answer ELSE waiter[w]]

Up == /\ ~ connected
      /\ connected' = TRUE
      /\ recipients' \in BOOLEAN
      /\ UNCHANGED waiter

\* The first recipient wakes every waiter in the same step.
Join == /\ connected
        /\ ~ recipients
        /\ recipients' = TRUE
        /\ AnswerAll("resolved")
        /\ UNCHANGED connected

Leave == /\ recipients
         /\ recipients' = FALSE
         /\ UNCHANGED <<connected, waiter>>

\* A transport that goes down leaves no waiter behind.
Down == /\ connected
        /\ connected' = FALSE
        /\ recipients' = FALSE
        /\ AnswerAll("rejected")

\* The `close' event of an earlier TCP server, which tells a later connection's waiters
\* that theirs is gone.
LateClose == /\ AnswerAll("rejected")
             /\ UNCHANGED <<connected, recipients>>

Wait(w) == /\ waiter[w] = "none"
           /\ connected
           /\ waiter' = [waiter EXCEPT ![w] = IF recipients THEN "resolved" ELSE "waiting"]
           /\ UNCHANGED <<connected, recipients>>

TimeOut(w) == /\ waiter[w] = "waiting"
              /\ waiter' = [waiter EXCEPT ![w] = "rejected"]
              /\ UNCHANGED <<connected, recipients>>

Next == \/ Up
        \/ Join
        \/ Leave
        \/ Down
        \/ LateClose
        \/ \E w \in Waiters : Wait(w) \/ TimeOut(w)

Spec == Init /\ [][Next]_vars
=============================================================================
