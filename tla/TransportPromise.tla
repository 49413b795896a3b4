-------------------------- MODULE TransportPromise --------------------------
(***************************************************************************)
(* What the transport manager and the headless session rely on, whatever   *)
(* the protocol: connect() is answered once, a refused connect() never     *)
(* becomes a connection, and a transport whose disconnect() was answered   *)
(* is not connected and never is again.                                    *)
(***************************************************************************)
VARIABLES opening, closing, connected

vars == <<opening, closing, connected>>

Init == /\ opening = "none"
        /\ closing = "none"
        /\ connected = FALSE

\* connect() is called, and may be answered in the same step.
Connect ==
    /\ opening = "none" /\ closing = "none"
    /\ opening' \in {"pending", "resolved", "rejected"}
    /\ connected' = (opening' = "resolved")
    /\ UNCHANGED closing

\* The answer.  A connection may already have dropped again when it comes, and
\* no success comes after disconnect() was called.
Answer ==
    /\ opening = "pending"
    /\ opening' \in {"resolved", "rejected"}
    /\ opening' = "resolved" => closing = "none"
    /\ opening' = "rejected" => ~ connected'
    /\ connected' => closing = "none"
    /\ UNCHANGED closing

\* A connection that drops, and one that comes back by itself.
Drop == /\ connected
        /\ connected' = FALSE
        /\ UNCHANGED <<opening, closing>>

ComeBack ==
    /\ opening \in {"pending", "resolved"} /\ closing = "none"
    /\ connected' = TRUE
    /\ UNCHANGED <<opening, closing>>

\* A server answers isConnected() with TRUE until it has closed.
Disconnect ==
    /\ opening # "none" /\ closing = "none"
    /\ closing' \in {"pending", "done"}
    /\ connected' => connected /\ closing' = "pending"
    /\ UNCHANGED opening

\* A connect() that gives up may wait for this before it rejects.
Closed ==
    /\ closing = "pending"
    /\ closing' = "done"
    /\ connected' = FALSE
    /\ opening' \in {opening} \cup (IF opening = "pending" THEN {"rejected"} ELSE {})

Next == Connect \/ Answer \/ Drop \/ ComeBack \/ Disconnect \/ Closed

Spec == Init /\ [][Next]_vars
=============================================================================
